# bobberchat: a verification project in TLA+

bobberchat is a message broker for AI agents: an HTTP server (`bobberd`, Go) on
top of PostgreSQL, with a command line client. This directory holds TLA+ models
of the server, its protocol adapters and the client's credential handling, the
TLC configurations that check them on small instances, and TLAPS proofs of the
results that matter most for every size of the instance.

Short names used below: `main.go` is `src/backend/cmd/bobberd/main.go`,
`repositories.go` is `src/backend/internal/persistence/repositories.go`,
`conversation.go`, `auth.go`, `ratelimit.go` and `registry.go` are the services
under `src/backend/internal/`, `mcp.go`, `a2a.go` and `grpc.go` the adapters
there, and the CLI is `src/cli/cmd/bobber/main.go`.

## 1. The system

### 1.1 Parts

| Part | State it keeps | Operations | Module |
|---|---|---|---|
| Message persistence (`main.go`: `publishAndAudit`, `defaultPersistMessage`, `handleSendMessage`, `handleReplayMessage`; `repositories.go`: `Messages.Save`) | `messages`, the last-message columns of `conversations` | send, replay, adapter ingest | `Conversations`, `Bridge` |
| Conversation service (`conversation.go`) | `conversations`, `conversation_participants`, `chat_groups` | `GetOrCreateDirect`, `CreateGroup`, `LeaveGroup` | `Conversations` |
| Conversation list and unread list (`repositories.go`: `ListItems`, `ListUnreadByParticipant`) | none: reads the tables above | `GET /v1/conversations`, `GET /v1/connections/inbox` | `Inbox` |
| Polling (`handlePollMessages`, `GetByConversation`) | none; the client remembers a position | `GET /v1/messages/poll` | `Polling` |
| Rate limiter (`ratelimit.go`) and the gate that asks it | buckets in memory | `Allow`, `Cleanup`, `publishAndAudit` | `RateLimit` |
| Accounts and sessions (`auth.go`) | `users` with verification token, JWTs held by clients | register, resend, verify, login | `Accounts` |
| Agents and API secrets (`auth.go`, `registry.go`) | `agents` | create, rotate, delete, authenticate | `Accounts` |
| Connection requests | `connection_requests` | create, accept, reject, inbox | `Connections` |
| Blacklist | `blacklist_entries` | add, remove, list | `Connections` |
| Wire protocol (envelope, tags, versions) | none | `EffectiveTag`, `Validate`, `CompareVersions`, ... | `Protocol` |
| MCP, A2A and gRPC adapters | none | `Ingest`, `Emit` | `Adapters`, composed in `Bridge` |
| CLI (`src/cli`) | a credential file: user token, agent id, API secret | account login, agent create/use/rotate-secret/delete, login, logout, and the commands that only call the server | `Cli` |
| Go SDK, discovery, mail providers, configuration, observability | none of interest | I/O | not modelled |

### 1.2 How the parts interact

All state that outlives a request is in PostgreSQL, except the limiter's
buckets. Each HTTP request runs in its own goroutine and issues its SQL
statements one after the other on a shared pool. There is one transaction in
the whole server (`Messages.Save`: the insert of a message and the update of
its conversation's preview); everything else is a sequence of statements
between which any other request may run, and at which a request may stop: the
client goes away and the context is cancelled, a statement fails, or the server
dies. The same may happen after a statement has taken effect and before its
caller hears of it. Parts meet in the database:

* a send passes the limiter, resolves who sender and addressee are (agents,
  groups, users), finds or creates the conversation, and stores the message;
* deleting an agent does not touch conversations, rosters or messages, but
  cascades to the connection requests that it sent;
* lists and inboxes are queries over what the others wrote;
* an adapter turns a foreign message into an envelope that goes the way of a send;
  what it put into the metadata is all the next adapter has to go by;
* the CLI keeps on the user's disk what the server handed out once;
* uniqueness is left to the database: unique indexes on direct pairs, group
  names, mail addresses, connection requests and blacklist entries.

### 1.3 What is hard here

1. *Look up, then insert* without a transaction: two first messages of the same
   pair; two registrations of one address in two spellings.
2. *Several statements, no transaction*: a conversation and its two roster rows;
   a group in four statements; an account and its token.
3. *Stale reads*: the kind of a party is looked up and the agent deleted before
   the kind is written; a resend that read the row as unverified.
4. *An error taken for "not found"*: every lookup by kind falls through to the
   next table on any error.
5. *Time*: message timestamps are cut to whole seconds, `joined_at` is not;
   stamps are taken when a request arrives and rows are committed later.
6. *Positions*: clients poll from a timestamp or from a random UUID.
7. *Budgets*: three buckets per message, checks that interleave, buckets that
   can be swept and created anew.
8. *A shared file without a lock*: each command of the CLI reads it once and
   writes all of it back, truncating first; `agent use` keeps the only copy of a
   fresh secret there. `AutomaticEnv` lets a variable replace one half of the
   credential pair, and the next save of that process stores it.
9. *Lost replies*: a statement runs, and whoever asked for it is told of an error;
   what the database holds and what anybody was told part ways.
10. *Translation chains*: a message is stored, replayed, emitted by one adapter and
   ingested by another; the tag, the ids and the error details live in different
   fields at every hop, and presence, emptiness and null are told apart
   differently.

`PROJECT.json` lists these as hazards, each at its line, with the properties
aimed at it.

### 1.4 What makes each part correct

* Conversations: one direct conversation per pair; an acknowledged message is
  stored in the conversation of its addressee; rosters hold exactly the two
  sides, or there is a request that explains what is missing; groups and
  conversations point at each other; every accepted request is answered.
* Inbox: whoever is on a roster sees the conversation.
* Polling: a client misses a message only for a reason that can be named.
* Limiter: burst plus rate in every window; no refusal is for ever.
* Accounts: one account per address, verified only through a mail sent to it,
  by a token used once; agents belong to verified users; a replaced secret is
  dead.
* Bridge: tags, error details and correlation ids survive replays and hops, an
  adapter takes what it emits.
* CLI: overlapping commands never mix the pairs of two agents, only a variable or a
  user does; a secret is lost, and a logout undone, only for a reason that can be
  named.
* Connections: a request is pending until an answer to it has run, follows its
  sender, and is not asked again; a block holds until its own removal has run, and a
  removal works.

## 2. Modules

    Conversations --- Inbox ----------------------.
          |---------- ConversationsInv -----------+-- MCConversations
          |                '-- ConversationsProofs|
          '---------- ConversationsRefinement ----'
                           : instance of MessageStore
    ConversationsProofs, ConversationsRefinement, Inbox --- MessagingProofs
    Protocol --- Adapters --- Bridge --- MCBridge, BridgeProofs
    Cli         --- MCCli,         CliProofs
    RateLimit   --- MCRateLimit,   RateLimitProofs
    Accounts    --- MCAccounts,    AccountsProofs
    Connections --- MCConnections, ConnectionsProofs
    Polling     --- MCPolling,     PollingProofs

Lines are EXTENDS. `Inbox` composes the read side with the write side: its
operators are the queries, evaluated on the state of `Conversations`.

### Conventions

*One SQL statement is one action.* A handler is the sequence of its statements;
`pc[r]` names the next one for request `r`, `env[r]` is what it was called with
and `loc[r]` its local variables. A request starts at any time (`Start...`),
proceeds statement by statement, and with `Aborts` it may stop before any of
them (`Abort`) or lose its reply after the last one (`Reply`). A request ends as
`"done"` (2xx), as `"failed"`, or as `"lost"`: its last statement has taken effect,
and its caller is told of an error or of nothing. A reply that is lost in the middle
of a handler is an abort before the next statement.

*History variables* (`made` and `missed` in `loc`, `before`, `retired`, `stale`,
`grants`, `cut`, `late`, `shown`) remember for the properties what happened; no
guard reads them, but for `shown`, which is what a user can type.

*UUIDs.* A random UUID is unique. The one drawn by request `r` is called `r`
where only identity matters; where the order of UUIDs matters (`id_low`,
`since_id`) ids are numbers, chosen freely, so that every order occurs.

*Constraints of the schema* (unique indexes, foreign keys, checks) are part of
the statement that meets them.

*Mutants.* An operator marked "Mutant" is a plausible wrong version of the
operator after it; no behaviour uses it. Substituting it must break the property
that `PROJECT.json` names, which shows that the property can tell.

### Conversations

`conversations`, `participants`, `groups`, `messages`, `agents` are the tables.

| Code | Actions |
|---|---|
| `handleSendMessage`, `handleReplayMessage` up to `publishAndAudit` | `StartSend`, `StartReplay` |
| `defaultPersistMessage` | `ResolveFromKind`, `ResolveGroup`, `ResolveToKind`, then `GetOrCreateDirect`, then `Save` |
| `GetOrCreateDirect` | `FindDirect`, `CreateDirect`, `AddLow`, `AddHigh` |
| `Messages.Save` (one transaction) | `Save` |
| `handleEntityInfo` | `StartInfo`, `InfoLookup`, then `GetOrCreateDirect` |
| `CreateGroup` | `StartCreateGroup`, `InsertGroupConversation`, `InsertGroup`, `LinkGroup`, `AddOwner` |
| `LeaveGroup` | `StartLeave`, `RemoveParticipant` |
| `handleDeleteAgent`, `Deregister` | `StartDelete`, `DeleteAgent` |

With `QueryFaults` a single SELECT may fail while the request lives on. In
`defaultPersistMessage` the code then goes on as if there were no row, and so does
the model; a failing SELECT of `GetOrCreateDirect` refuses the message
(`FindDirect`). `missed` records which of its lookups failed a request although the
row was there. Timestamps are cut
to `TicksPerSecond`. The limiter, which can only refuse a message before the
first of these statements, is a model of its own. Two simplifications: a failed
`GetOrCreateDirect` inside `info` is reported as `"failed"` (the handler answers
200 without a conversation), and the inputs that the replay handler refuses (an id
that is no UUID, a message that is not there; it makes no other check) are not
generated.

### MessageStore and ConversationsRefinement

`MessageStore` is what a client may rely on: a message is submitted, and then
either refused or stored once, in the channel that its sender and its addressee
determine, whose latest message it becomes in the same step. Where replies can be
lost (`Lossy`), it may be stored although its sender is not told so
(`StoreUnanswered`); that is settled when the request ends, and a message that was
refused and is not there never turns up later. It knows no conversation rows,
rosters, lookups or statements. `ConversationsRefinement`
reads it off the tables: a message is a request that runs send or replay, refused
when the request failed or its reply was lost, filed in the pair or the group its
conversation row stands for; the previews are the `last_message_id` columns. `ChannelOf` hides
which row was created by whom, in how many statements, and who is on its roster.
The property is `ImplementsMessageStore == Store!Spec`. It holds when no SELECT
fails; with failing SELECTs a group message can land in a direct conversation
(hazard at `main.go:1277`). `conv_direct` has them and checks, with
`AckedMessageIsFiled`, that this happens only to a request whose own lookup of the
group failed.

### Inbox

`ListItems` and `ListUnread` are the two queries, with their LEFT JOINs, their
CASE on the other side and their COALESCE on what was read. `UpdateLastRead`
exists in the code and no handler calls it, so `last_read_message_id` is NULL.
Order and the `type` filter are left out.

### Polling

A message is stamped (`Stamp`), later committed (`Save`), and read by `Poll`,
which is one call of `handlePollMessages`: a page of at most `limit` rows, newest
first, after the client's position. The client is external to the endpoint and
modelled by what the parameters allow: it continues from its newest row by time,
by id, or asks without a position. `cut` holds the messages that matched a query
and did not fit on its page, `late` those that were committed behind the client's
position.

### RateLimit

`Check` is one call of `Allow` (it runs under the limiter's mutex, hence one
action); `CheckAgent`, `CheckGroup` and `CheckTag` are the three calls in
`publishAndAudit`, `Persist` what follows, `Cleanup` the sweep. Tokens are
floats in the code; here they are counted in units, a message costing
`TokenUnits`, so that fractions are exact. `grants` is a history variable.

### Accounts

Registration (insert, set token, mail), resend (read, set token, mail),
verification (one UPDATE), login, and agents: create, rotate (read, update),
delete, authenticate (read the hash, check it later). Passwords and Argon2id are
abstracted to right or wrong; spellings of an address are mapped by `Normal`, which
is `ToLower` and `TrimSpace`, and the column is compared by `Fold`, because it is
CITEXT: of two addresses that differ in case alone the database refuses the second
whatever the code does, so the run spells one of its addresses with a space instead.
`retired` holds the secrets that an UPDATE replaced or a DELETE removed, `stale` the
requests that came with one of them. The mail service is external: `SendMail`
succeeds or fails.

### Protocol, Adapters, Bridge

`Protocol` has tags (sequences of tokens) and versions (triples). `Adapters` has
one operator per adapter and direction, with the refusals of every message that
decodes: a wrong JSON-RPC version, an unknown method, type or status, a call without
its parts. Bytes that do not decode into the protocol's message type are refused by
`json.Unmarshal` and are no wire message of the model; a wire message is a record of
the fields the code looks at. Payloads are their JSON shape (object, scalar, null),
texts either have one of the words by which `ingestMessageSend` recognises a request
for data or not, contents are free text or JSON objects of four kinds. Error codes
are numbers, counted in halves so that there are fractions, or a `Word` that is no
number: A2A passes any JSON number on, MCP and gRPC cut it to an int
(`ParseErrorCode`). Of the `adapter` block that `SetAdapterMetadata` writes, the
model keeps `source_id`, as the field `source` of a stored message; a block that a
client sends itself is not represented.

A key may be missing (`Absent`) or empty (`Blank`), and the adapters do not treat
the two alike: an empty `_request_id` that a client sends is passed on as it is,
while an empty `_task_id` or `_stream_id` counts as missing. An answer to a request
with an empty id names nothing, so `CorrelationSurvives` speaks of the others.

`CorrelationSurvives` says where an answer names its request. It does so in
`adapter.source_id`, whatever protocol it arrived over, up to and including its first
hop over A2A, and in `_request_id` before that hop. If it arrived over MCP or gRPC, it
does so in `_task_id` from that hop until it leaves A2A. Two kinds of answers lose the
id and are excepted by name: one that arrived over A2A (which keeps it in `source_id`
only, and no `Emit` reads that) once it is relayed on, and one that crossed A2A and
is then relayed over MCP or gRPC.

`Bridge` composes them with the handlers: a thread begins with
`handleSendMessage` or `handleAdapterIngest` and grows by `handleReplayMessage`,
by `Relay` (an `Emit` whose output another installation ingests) and by `Answer`
(a request is emitted and what the peer answers is ingested). The server calls
only `Ingest`; `Emit` is the other half of the `Adapter` interface, for the
bridges the design document describes, so its caller and the peer are external.
The whole of the send path behind the envelope is in `Conversations`.

### Cli

A command is a process: it reads the credential file (`Readings`), lets flags and
variables that are not empty replace single keys (`Settings`; `Environments` is what
`BOBBER_AGENT_ID` and `BOBBER_API_SECRET` may hold, and `BOBBER_TOKEN` does what
`--token` does), works on that snapshot (`mem`), makes its requests (`AskInfo`,
`Request`, `Receive`) and saves
(`Stat`, then `Truncate` or `Create`, then `Fill`). A save writes `AllSettings`: the
effective value of every key viper knows of, hence also a value that came from the
environment, provided the file or a `v.Set` has the key (`Persisted`). The pair typed
at a login need not belong together. Truncation, O_EXCL and the
single write are viper's and external, taken from the version in `go.mod`. `Stop`
ends a process at any step: killed, refused, timed out after 15 seconds, disk
full. A timeout between `Request` and `Receive` is the lost answer: the server
has acted and the client does not know. When two writers meet, the later one
writes over the earlier one's bytes from offset 0 and may leave the tail of a
longer text; such a file may or may not parse. The server is its table of current
secrets. `shown` is what was printed, `before` records which processes had ended
when one started.

### Connections

Create (look the target up, insert), accept and reject (one UPDATE), block and
unblock (look up, insert or delete), and the deletion of agents with its cascade.
The body of a create may name any id and any word as the party it speaks for
(`Parties`); a word that `entity_type` does not have is refused by the INSERT.
`before[r]` records which requests had ended when `r` inserted its blacklist entry.
`GetPendingByTarget` and `ListByEntity` are the queries behind the lists. The
lookup of the target, up to three SELECTs, is one action: groups and users are
never deleted, so only the SELECT on agents can see a change.

## 3. Runs

Nine runs pass, three show a disagreement between the code and what a document
says of it.

| Run | What happens in it | Properties |
|---|---|---|
| `conv_direct` | three overlapping sends, replays and info lookups between a user, an agent and a group that is being created, the agent deleted meanwhile; requests die, SELECTs fail, replies are lost | `OneConversationPerPair`, `AckedMessageIsFiled`, `DirectMembership`, `MissingParticipantExplained`, `MisfiledOnlyIfDeleted`, `TypeOK` |
| `conv_groups` | groups created, addressed, left; an agent deleted meanwhile; requests die, replies are lost | `GroupLinkConsistent`, `HalfMadeGroupExplained`, `RosterIsListed`, `DirectRosterNeverShrinks`, `ImplementsMessageStore` |
| `conv_live` | two requests that run to their end, with a moving clock; SELECTs fail | `DirectRosterBecomesComplete`, `EveryRequestAnswered`, `PreviewIsOwnMessage`, `RefusalExplained` |
| `limiter_bound` | three messages of two senders through three checks, with sweeps | `RateBound`, `RefusalIsTemporary` |
| `accounts` | four requests of all eight kinds: two addresses in three spellings beside a user with an agent; lost mails, expired tokens and sessions, requests cut off, replies lost | `OneAccountPerEmail`, `VerifiedAddressWasMailed`, `TokenIsSpentOnce`, `TokenlessIsCutOff`, `AgentOwnersAreVerified`, `OldSecretStaysInvalid`, `VerifiedIsForever` |
| `bridge` | every message a client may send or a peer may have ingested, then up to four replays, relays and answers | `TagsSurvive`, `ErrorDetailsSurvive`, `CorrelationSurvives`, `EmittedIsAccepted`, `PanicOnlyOnSent`, `TypeOK` |
| `cli` | three commands of any kind on one credential file and two agents; killed at any step, with half a pair in the environment, logins with pairs that do not match | `PairConsistent`, `LockOutExplained`, `LogoutHolds` |
| `connections` | three overlapping requests, answers, blocks, removals, agent deletions; requests die, replies are lost | `StatusIsAnAnswer`, `RequestFollowsSender`, `BlockHolds`, `AnsweredIsNotAskedAgain`, `UnblockIsEffective` |
| `poll_pages` | three messages stamped and stored in any order, pages of two or three, all kinds of position | `MissedIsExplained`, `EverythingArrives` |
| `conv_replay` | a message and its replay | violates `ReplayReachesOriginalConversation` |
| `inbox_unread` | a first message to an agent | violates `ReceivedIsUnread` |
| `poll_delivery` | a client that polls from its newest timestamp | violates `AtLeastOnce` |

`TypeOK` is an invariant of `conv_direct` and `bridge`; it is proved for every
module that has one (section 4).

### What the violations show

* `conv_replay`. A replay sets `To` to the *conversation* id of the original.
  Persistence knows party ids and group ids, finds neither, and opens a direct
  conversation between the author and that id. The original recipient gets
  nothing.
* `inbox_unread`. The message is stamped when the request arrives, in whole
  seconds; the recipient's `joined_at` is written later, with full precision.
  The message is older than the membership and does not count as unread.
* `poll_delivery`. A message of second *s* commits after a poll that returned
  another message of second *s*. `timestamp > since_ts` excludes it from then on.

### Bounds

Each bound is the smallest at which the case it is for happens.

* Two requests are enough for every race of two; three for a race plus a later
  request that meets what the race left behind (a half-made conversation that is
  found and used, a group name that stays taken). Four in `Accounts`, where
  register, verify, login and create take four.
* Three processes in `Cli`: two that overlap and one before, after or between
  them; two agents, so that a pair can be mixed up. A variable holds the id or the
  secret of one of them; commands that neither read nor save a key run without it.
* Threads of five messages in `Bridge`: a request, its answer, and three more
  hops, one per protocol. Peers use a whole code and a fraction below zero
  (`PeerCodes`, 2 and -1.5), a client one above it: the two directions of cutting.
* Ids: one user and one agent with ids 10 and 20, conversation ids below (5) and
  above (30, 31) both, so that a replay meets both orders of `id_low`/`id_high`. A
  replay also plays the part of an unknown addressee, since its conversation id names
  no party; `StrangerIds` is empty in the runs. Three conversation ids allow one per
  request.
* Parties in `Connections`: the agent itself, a group, and a group under a kind that
  does not exist.
* Two groups and two names: distinct groups, and a name conflict.
* Clock: `MaxClock = 0` where no property reads time; 3 ticks at two ticks per
  second where truncation matters; 3 seconds for the limiter, longer than burst
  plus sweep; 2 for polling; 1 tick in `Accounts`, where tokens and sessions live
  for one.
* Limiter: a token costs 2 units and rates are 2 and 3 units per tick, so that
  buckets hold whole and fractional tokens; three messages exceed every burst.
* Polling: three messages and pages of two make a page that is cut; pages of
  three one that is not.

Symmetry is used on requests, messages, senders, processes, agents and group
names where they are interchangeable, and never in a run that checks liveness.

### Fairness

`Conversations`: weak fairness of `Proceed(r)` for each request. A handler waits
for nothing but the database, and holds no lock between statements, so a
statement that can run does run; `conv_live` excludes aborts, which would answer
the question by giving up. `Polling`: weak fairness of `Save(m)` (an accepted
message is stored) and of `Poll` (the client of the promise "delivered on
polling" keeps polling). No other module assumes fairness. Nothing makes a client
start a request, or the clock move.

## 4. Proofs

Every invariant, every action property and the refinement that a passing run
checks is also proved, for every value of the constants, some under a hypothesis on
them that the tables name; only liveness is not. The inductive invariants below hold
on the runs' instances as well: TLC checks them there before a proof is tried.

### ConversationsProofs

For every set of requests, parties, groups, conversation ids and names, every
interleaving, with aborts, lost replies and failing SELECTs:

| Theorem | Statement |
|---|---|
| `Invariance` | `Spec => []IInv` |
| `TypeCorrect` | `Spec => []TypeOK` |
| `UniquePairs` | `Spec => []OneConversationPerPair` |
| `DirectRosters` | `Spec => []DirectMembership` |
| `MissingExplained` | `Spec => []MissingParticipantExplained` |
| `PreviewOwn` | `Spec => []PreviewIsOwnMessage` |
| `GroupLinks` | `Spec => []GroupLinkConsistent` |
| `RosterNeverShrinks` | `Spec => DirectRosterNeverShrinks` |

Assumptions: `IdsAssumption` (ids are ordered; users, agents, groups and
conversations have different ids), `NullAssumption`, `ClockAssumption`.

None of the properties is inductive alone. That a stored message is in the right
conversation depends on what `loc[r].conv` was when the request reached `Save`;
that the roster has no foreign row depends on the pair that the request at
`AddLow` believes in. `IInv` (module `ConversationsInv`) therefore adds

* `RequestInv`: per request and statement, which locals are set and what they are
  worth (`ControlOf`, `AnswerOf`, `MakerOf`); in particular at `save` the chosen
  conversation is the addressee's (`Filed`), although other requests ran since;
* `OneMaker`: a conversation was made by one request, so that "its creator died"
  is well defined;
* `Shapes`: the columns of a direct conversation are ordered and have no group;
* `Rosters`, `RosterProgress`: who is on a roster when its maker is at `addLow`
  and `addHigh`;
* `GroupProgress`: the group that `CreateGroup` and `LeaveGroup` work on has the
  conversation they remember.

The step proof is organised by what an action can disturb: `StableStep` shows
that a step of another request preserves what a request relies on (rows are
never deleted, pairs and group links never change), so `RequestStep` has to look
only at the request that moves; each other conjunct has a lemma that says which
actions write its tables and then treats those.

### MessagingProofs

What else holds of `Conversations`, with the queries of `Inbox` and the mapping of
`ConversationsRefinement`:

| Theorem | Statement |
|---|---|
| `WorkInvariance` | `Spec => [](IInv /\ WorkInv)` |
| `HalfMadeExplained` | `Spec => []HalfMadeGroupExplained` |
| `EveryRosterIsListed` | `Spec => []RosterIsListed` |
| `RefusalsExplained` | `~Aborts => (Spec => []RefusalExplained)` |
| `LookupInvariance` | `Spec => [](IInv /\ LookupInv)` |
| `MisfiledAreDeleted` | `Spec => []MisfiledOnlyIfDeleted` |
| `AckedIsFiled` | `Spec => []AckedMessageIsFiled` |
| `StoreImplemented` | `~QueryFaults => (Spec => ImplementsMessageStore)` |

Assumptions: those of `ConversationsProofs`, and `StoreAssumption` (what was
submitted is not `Null`). The two hypotheses are those of the code: a request that
died was refused for no reason of its own, and after a failed lookup of a group the
message is in another channel than `MessageStore` promises (section 5).
`RefusalsExplained` allows failing SELECTs, `StoreImplemented` requests that die and
replies that are lost, the others both.

`WorkInv` is the second layer of the invariant: `CreateGroup` works for the owner it
wrote down and links its group before it adds the owner (`GroupWork`), a group
conversation has a roster only once it points at its group (`LinkedRosters`), and
every direct conversation has a maker (`MadeByRequest`): the request that a refused
one lost against. `LookupInv` says what a lookup is worth: a kind that was looked up
is right unless the agent is gone or the lookup failed (`KindsKnown`), a message to a
group takes the way of a direct one only if the lookup of the group failed
(`Routed`), and nothing fails where no SELECT does (`NothingMissed`).

The refinement: an arrival of a send or a replay is `Submit`, `Save` is `Store` or,
when its reply is lost, `StoreUnanswered`, the step in which such a request fails
before is `Refuse`, and every other statement changes
nothing that `MessageStore` sees. What has to be shown for the last part is that the
channel of a row that holds a message never changes (`ChannelStays`), and for `Save`
that two rows never stand for one channel (`ChannelInjective`, which is where
`OneConversationPerPair` and `GroupLinkConsistent` come in), so that the preview of
one row is the preview of one channel (`SaveStores`).

### RateLimitProofs

| Theorem | Statement |
|---|---|
| `TypeCorrect` | `Spec => []TypeOK` |
| `Invariance` | `SoundConfig => (Spec => []IInv)` |
| `RateIsBounded` | `SoundConfig => (Spec => []RateBound)` |
| `RefusalsEnd` | `SoundConfig => (Spec => []RefusalIsTemporary)` |

`SoundConfig` is what the code expects of its configuration and does not check:
a full bucket pays for one message, and, if anything sweeps, a swept bucket would
have been full (`CleanupSecs` at least `BurstFactor` seconds). `DefaultConfig`
satisfies it.

`RateBound` speaks of every window of the past and is not inductive: it says
nothing of what is still in the bucket. `Budget` does: for every moment `from`,
what key `k` was granted since `from` plus what it could spend now is at most a
burst plus what the rate earned since `from`. A grant moves a token from the
second summand to the first; a tick adds at most `Rate` to both sides; a sweep
replaces a full bucket by none, which counts as full. Windows that end in the
past are closed (`GrantsPast`), so `RateBound` for the present follows from
`Budget` and for the past from itself.

### ConnectionsProofs

For any number of requests, agents, groups and users, with and without requests
that die and replies that are lost:

| Theorem | Statement |
|---|---|
| `Invariance` | `Spec => []IInv` |
| `TypeCorrect` | `Spec => []TypeOK` |
| `StatusHolds` | `Spec => []StatusIsAnAnswer` |
| `RequestsFollowSenders` | `Spec => []RequestFollowsSender` |
| `BlocksHold` | `Spec => []BlockHolds` |
| `NotAskedAgain` | `Spec => AnsweredIsNotAskedAgain` |
| `UnblocksWork` | `Spec => UnblockIsEffective` |

Assumptions: `NullAssumption`. `IInv` adds to the properties what they depend on:

* `Control`: what a request carries from one statement to the next; the kind that
  the lookup found is still the kind of the target when the next statement uses it;
* `RowsHaveSenders`: a row was inserted by a request whose caller still exists,
  so the cascade of a deletion removes exactly the rows of that caller;
* `AnswersFollowRows`: only a row that was there has been answered, so a new row
  cannot meet an old answer, and starts as pending;
* `UniquePairs`: the unique index as a fact about the table, from which
  `AnsweredIsNotAskedAgain` follows for the steps that do not insert;
* `KindsAgree`: an entry is stored under the kind of its target, from which
  `UnblockIsEffective` follows;
* `BeforeEnded`: what came before an entry had ended, so that a removal that runs
  afterwards is not among it.

What the properties depend on is that a statement has run (`Applied`), not that its
caller was told: with lost replies the latter implies the former and not the other
way round. `QuietStep` treats at once all steps that write no table (arrivals,
lookups, refusals, aborts), and each
statement that writes a table has a lemma with one step per conjunct.

### AccountsProofs

For any number of requests, spellings, users and agents, any lifetimes of tokens and
sessions, with and without requests that are cut off and replies that are lost:

| Theorem | Statement |
|---|---|
| `Invariance` | `Spec => []IInv` |
| `TypeCorrect` | `Spec => []TypeOK` |
| `EmailsAreUnique` | `Spec => []OneAccountPerEmail` |
| `VerificationWasMailed` | `Spec => []VerifiedAddressWasMailed` |
| `TokensVerifyOnce` | `Spec => []TokenIsSpentOnce` |
| `TokenlessExplained` | `Spec => []TokenlessIsCutOff` |
| `OwnersVerified` | `Spec => []AgentOwnersAreVerified` |
| `RotatedSecretsDie` | `Spec => []OldSecretStaysInvalid` |
| `VerificationIsForever` | `Spec => VerifiedIsForever` |

Assumptions: `ConstantsAssumption` (normalising twice is normalising once, and what
is normal has its case folded; lifetimes
are positive; users and agents that exist at the start are not drawn again) and
`NullAssumption`. `IInv` adds

* `Control`: what a request carries from statement to statement; in particular the
  account at `setToken` and `sendMail` exists, and the owner at `insertAgent` is
  verified, since no verification is taken back;
* `RowsRegistered`, `UniqueEmails`: a row stands under the normal form of the address
  its registration was called with, and no two rows have one address;
* `TokensTraced`, `MailsTraced`, `VerifiersRead`: the chain from a verification back
  to the address. A token in a row was drawn for that row; a mail with a token went
  to the address of that row; whoever verifies has read a mail. A resend that
  overtakes another replaces the token and not the address, so the chain holds;
* `SpentTokensGone`: a token that has verified is in no row, hence verifies once;
* `SessionsVerified`;
* `SecretsDrawn`, `UniqueSecrets`, `RetiredGone`: a secret in a row was drawn by a
  request that has ended and is in no other row, so that what an UPDATE replaces is in
  no row any more and never comes back;
* `StaleChecks`: a check that came with a retired secret has not read that secret, and
  does not succeed. A check that came before the UPDATE may have, which is why the
  property speaks of those that come afterwards.

`ControlFrame`, `UserFrame` and `AgentFrame` treat the steps that leave a table
alone; each statement that writes one has a lemma.

### PollingProofs

| Theorem | Statement |
|---|---|
| `Invariance` | `Spec => []IInv` |
| `TypeCorrect` | `Spec => []TypeOK` |
| `MissesExplained` | `Spec => []MissedIsExplained` |

For every set of messages and ids, any page size and every kind of position, from
`PollingAssumption` and `NullAssumption`. `IInv` adds that what is stored is finite
and stamped, and that the position is a message the client was given; `cut` and
`late` name single messages, so one full page excuses nothing but what it left out.
The step that matters is a page that is not cut: it is a subset of what matches and as large as
that, hence all of it (`WholePage`, by the cardinality of finite sets).

### CliProofs

For any number of commands and agents, however the commands overlap, tear each
other's writes or die:

| Theorem | Statement |
|---|---|
| `Invariance` | `Spec => []IInv` |
| `TypeCorrect` | `Spec => []TypeOK` |
| `PairsBelongTogether` | `Spec => []PairConsistent` |
| `LogoutsHold` | `Spec => []LogoutHolds` |
| `LockOutsExplained` | `Spec => []LockOutExplained` |

Assumption: `CliAssumption` (agents and commands have different names; a missing, an
empty and a written file are three things). The three properties look at the file at
one moment. To survive the commands that read it before and write it after, `IInv`
follows an identity through the snapshots:

* `Pairs`: every snapshot, not only the file, holds an agent with a secret issued
  for it, or some command was given a half of that very pair, or all of it, from
  outside the file;
* `SecretsTraced`: a secret on the server was drawn by one command, of a kind that
  draws secrets;
* `LogoutOf`: after a logout, neither the file nor the snapshot of any command that
  started later has an identity, unless some command that saves and was not over
  when the logout started brought it back;
* `UseOf`: after `agent use`, the file holds its secret, and so does the snapshot of
  every later command that saves, or something excuses it (`Excused`: a command that
  replaces the pair, that died, or whose save met another) or is about to
  (`Pending`);
* `OpenedOf`: whoever is about to write finds the file empty, unless another command
  that saves overlaps with it.

### BridgeProofs

For every choice of tags, contents and metadata that clients send, and threads of
any length:

| Theorem | Statement |
|---|---|
| `Invariance` | `Spec => []IInv` |
| `TypeCorrect` | `Spec => []TypeOK` |
| `TagsAreKept` | `Spec => []TagsSurvive` |
| `ErrorDetailsAreKept` | `Spec => []ErrorDetailsSurvive` |
| `CorrelationIsKept` | `Spec => []CorrelationSurvives` |
| `EmittedIsTaken` | `Spec => []EmittedIsAccepted` |
| `PanicsExplained` | `Spec => []PanicOnlyOnSent` |
| `CompareIsAntisymmetric`, `CompareIsTransitive` | `CompareVersions` is a total order on all versions |
| `OnlyOwnVersionIsCompatible` | the same major number and nothing newer than 1.0.0 leaves exactly 1.0.0 |

Assumptions: `TokensAssumption` (the tokens of the known tags are well formed, and
tokens are strings), `AdaptersAssumption` (the special values are none of the texts,
ids and records), `BridgeAssumption` (what clients send has the types of an
envelope; the ids in it come from the peer).

The argument goes from the adapters to the thread:

1. Per adapter, `...Ingested` and `...Emitted` say what `Ingest` and `Emit` do, by
   kinds of message, without the details of the wire.
2. `McpHop`, `A2aHop`, `GrpcHop` combine the two for a relay, `McpReply`, `A2aReply`,
   `GrpcReply` for an answer: what happens to the tag, to code and message, to
   `_request_id` and `_task_id`.
3. `StepCases`: every step appends one message, which begins the thread, carries its
   predecessor on or replies to it.
4. Each part of `IInv` is preserved by such a step.

`IInv` adds to the properties: what is prone to the panic was sent or replayed and
has crossed no adapter (`PanicInv`); an answer is never a request, so an answer is
not answered (`AnswersAreFinal`), from which it follows that the messages since the
answer are a contiguous end of the thread; `CorrelationInv`, which says for a
message that has not crossed A2A that it has no `_task_id` and for an answer that has
crossed A2A once, at the end, that its `source_id` is still the id; and `ErrorsKept`,
what a hop does to code and message. Without the second
`CorrelationSurvives` is not inductive: A2A takes the `_request_id` only if there is
no `_task_id`. `ErrorDetailsSurvive` follows from the last one, because an error that
every adapter emits is one with a number for its code and with a message
(`PortableErrors`), and no hop takes either away.

### Only model-checked

Liveness (`DirectRosterBecomesComplete`, `EveryRequestAnswered`,
`EverythingArrives`), because the proof system has no reasoning about fairness. The
three violation runs refute their properties by a counterexample and need no proof.

## 5. Observations

Met while modelling; not the subject of a violation run. The exceptions that a
property names (`RefusalExplained`, `LockOutExplained`, `LogoutHolds`,
`TagsSurvive`, `EmittedIsAccepted`, `PanicOnlyOnSent`) all occur in its run.

* Two first messages of one pair: both requests find no conversation, both insert;
  the unique index refuses the second, and `GetOrCreateDirect` returns that error
  although the conversation it was asked for now exists. The message is lost
  (`RefusalExplained` shows that this, writing to oneself and a failed SELECT of the
  conversation are the only reasons).
* A send whose COMMIT took effect and whose reply was lost is answered with an error;
  a client that sends again stores the message twice, under two ids.
* One variable, `BOBBER_AGENT_ID` or `BOBBER_API_SECRET`, makes a command present an
  agent with another one's secret, and an `account login` under it writes the mixed
  pair into the file.
* `agent use` never prints the secret it obtained. If its answer is lost, if it is
  killed, or if another command writes its older snapshot back, the agent is
  locked out until the next rotation.
* `logout` clears the user's token together with the agent's credentials, and a
  token given with `--token` is stored by the next save.
* `IsCompatibleVersion` accepts only 1.0.0, and has no caller.
* Tags of unknown families are accepted; `knownFamilies` decides nothing.
* An ingested request is stored without the id its peer chose, except in
  `adapter.source_id`, which no `Emit` reads; `design-spec.md:792` asks for
  correlation by it. Answers do keep the id they answer (`CorrelationSurvives`),
  but for two kinds: an answer that arrived over A2A has it in `adapter.source_id`
  only and loses it when it is relayed, and an answer that crossed A2A loses it when
  it is relayed over MCP or gRPC.
* MCP and gRPC cut an error code with a fraction to an int, towards zero.
* Without an agent's credentials or without `X-Target-Agent` an ingested message
  gets the sender `mcp:...` or the addressee `broadcast`; neither is a UUID, so it
  is refused when it is to be stored.
* `handleAdapterIngest` reports `env.Tag`, which every adapter leaves empty.
* A progress message whose content is a JSON object with a key makes the gRPC
  `Emit` write to a nil map and panic.
* A failure that A2A ingested without a code gets the code `failed`, which the MCP
  and gRPC adapters refuse to emit.
* MCP emits a null result as a message with neither method, result nor error,
  which it would refuse to ingest.
* `last_message_at` is overwritten by whichever message commits last. Since
  stamps are taken earlier, it can go back, so the columns that migration 013
  calls "the most recent message" may describe an older one.
* The group bucket is asked only if the address starts with `group:`; a prefixed
  address is then refused by `uuid.Parse`. Stored group messages have bare ids
  and are never counted against `per_group_mps`.
* A limiter configuration that sets neither `burst_factor` nor `per_agent_mps`, for
  instance one that only says `enabled: false`, is replaced by the defaults, which are
  enabled (`main.go:129`).
* The comment on `ratelimit.New` says that it starts a cleanup goroutine; it does
  not, and nobody else calls `Cleanup`.
* A resend whose mail could not be handed over is answered `sent: true`.
* A blacklist entry for a deleted agent cannot be removed: the lookup of the
  target answers 404.
* The connection inbox lists requests to agents only; requests to users and
  groups can be made and are listed nowhere.
* Accepting an invitation to a group changes the status of the request and does
  not put anyone on the roster.
* The CLI reference gives the default poll limit as `0` (all); the server's default
  for a missing limit is 50.

## 6. Not modelled

* *SDK*: a thin HTTP client without state.
* *Discovery*: one SELECT, cut at a limit; it ignores the tags of the query.
* *The composition of limiter and store*: the gate is called before the first
  statement and shares no state with it; `RateLimit` ends where `Conversations`
  begins.
* *Texts*: the words that make a request one for data, the characters of a tag, the
  digits of a version.
* *Formatting, logging, metrics, configuration files.* Nothing else depends on
  them.
* *Password and secret hashing*: abstracted to equality.
* *Isolation inside one statement*: PostgreSQL executes a statement atomically
  with respect to the constraints it checks; the models take that as given.

## 7. Plan

Done: models of every part that keeps state, their runs, and proofs of all safety
properties of the passing runs and of the refinement. Worth doing next:

1. State what remains of the refinement when SELECTs fail: `MessageStore` with a
   channel that may also be the pair of sender and group id.
2. A theorem for `ErrorDetailsSurvive` along whole threads (the code of the first
   error is the code of the last message, as long as no A2A hop had to invent one).
3. The limiter without `SoundConfig`: what a configuration with a burst below one
   token does is a refusal for ever, which a theorem could say.
