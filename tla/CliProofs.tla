------------------------------ MODULE CliProofs ------------------------------
(***************************************************************************)
(* Proofs about Cli, for every set of commands and agents: what the shared *)
(* credential file can and cannot hold, however the commands of several    *)
(* terminals overlap, tear each other's writes or die half way.            *)
(***************************************************************************)
EXTENDS Cli, TLAPS

-----------------------------------------------------------------------------
(* The inductive invariant.                                                *)

\* The steps of saveConfig.
Saving == {"stat", "truncate", "create", "fill"}

\* What a process carries from one step to the next.
ControlOf(p) ==
    /\ pc[p] = "idle" <=> cmd[p] = Null
    /\ pc[p] = "idle" => before[p] = {}
    /\ \A q \in before[p] : pc[q] \in Ended /\ p \notin before[q]
    /\ pc[p] \in {"info", "request", "answered"} => cmd[p].op \notin {"login", "logout"}
    /\ pc[p] \in Saving => Saves(p)
    /\ pc[p] \in Running /\ cmd[p].op = "logout" =>
          mem[p].agent = Null /\ mem[p].token = Null
    /\ pc[p] \in Saving /\ cmd[p].op = "agent use" => mem[p].secret = p /\ mem[p].named
    /\ pc[p] = "done" /\ cmd[p].op \in {"agent create", "agent rotate-secret"} =>
          p \in shown

Control == \A p \in Procs : ControlOf(p)

\* The agent that s was drawn for is settled.
Settled(s) == s \in Fleet \/ (s \in Procs /\ Started(s))

\* Agent and secret of a configuration belong together.
Matched(cfg) == cfg.secret # Null => Settled(cfg.secret) /\ cfg.agent = IssuedFor(cfg.secret)

\* Or some command was given one of them.
Paired(cfg) == Matched(cfg) \/ \E q \in Procs : Started(q) /\ GaveHalf(q, cfg)

Pairs ==
    /\ Paired(Content)
    /\ Content.agent # Null \/ Content.secret # Null => Content.named
    /\ \A p \in Procs : Paired(mem[p])
    /\ \A s \in shown : Settled(s)

\* Every secret on the server was drawn by a command that draws one.
SecretsTraced ==
    /\ Fleet \subseteq shown
    /\ \A a \in Agents : secrets[a] \notin Fleet \cup {Null} =>
          /\ secrets[a] \in Procs /\ Started(secrets[a])
          /\ cmd[secrets[a]].op \in {"agent create", "agent use", "agent rotate-secret"}

\* The other commands that save and had not ended when p started.
Savers(p) == {q \in Procs \ {p} : Started(q) /\ Saves(q) /\ q \notin before[p]}

\* An identity may have come back after logout p.
Undone(p) ==
    \E q \in Savers(p) :
        Overlap(p, q) \/ cmd[q].op \in {"agent use", "login"} \/ cmd[q].given.agent # Null

LogoutOf(p) ==
    Started(p) /\ cmd[p].op = "logout" /\ pc[p] = "done" =>
        /\ Content.agent # Null => Undone(p)
        /\ Content.token # Null => Savers(p) # {}
        /\ \A q \in Procs : p \in before[q] /\ Saves(q) /\ mem[q].agent # Null => Undone(p)

\* A process that opened the file finds it empty, unless it overlaps with
\* another one that has written in between.
OpenedOf(p) ==
    pc[p] = "fill" /\ file # Blank => \E w \in Procs : Overlap(p, w) /\ Saves(w)

\* What may have removed the secret drawn by s for good ...
Excused(s) ==
    \E q \in Savers(s) :
        \/ Replaces(q) \/ cmd[q].given.secret # Null \/ pc[q] = "failed"
        \/ \E w \in Procs : Overlap(q, w) /\ Saves(w)

\* ... or for the moment.
Pending(s) == \E q \in Savers(s) : pc[q] # "done"

\* The file is whole and holds the secret drawn by s.
Holds(s) == file \in Written /\ ~file.torn /\ file.cfg.secret = s

\* Once agent use s has saved its secret, the file keeps it, and so does every
\* later command in its snapshot, unless there is an excuse.
UseOf(s) ==
    Started(s) /\ cmd[s].op = "agent use" /\ pc[s] = "done" =>
        /\ Excused(s) \/ Pending(s) \/ Holds(s)
        /\ \A q \in Procs : s \in before[q] /\ Saves(q) /\ pc[q] \in Running =>
              (mem[q].secret = s /\ mem[q].named) \/ Excused(s)

FileInv == \A p \in Procs : LogoutOf(p) /\ OpenedOf(p) /\ UseOf(p)

IInv == TypeOK /\ Control /\ Pairs /\ SecretsTraced /\ FileInv

-----------------------------------------------------------------------------
(* Facts about types and Init.                                             *)

\* Agents, processes, tokens and the special values are apart.
LEMMA NameFacts ==
  /\ \A p \in Procs : p \in Agents /\ p \in Secrets /\ p \in Tokens /\ p \notin Fleet /\ p # Null
  /\ \A a \in Fleet : a \in Agents /\ a \in Secrets /\ a # Null
  /\ Missing \notin Written /\ Blank \notin Written /\ Missing # Blank
BY CliAssumption DEF Agents, Secrets, Tokens

\* A blank configuration.
LEMMA BlankFacts ==
  /\ NoConfig \in Config
  /\ NoConfig.token = Null /\ NoConfig.agent = Null /\ NoConfig.secret = Null
  /\ Nothing \in Given /\ Nothing.agent = Null /\ Nothing.secret = Null
  /\ Matched(NoConfig)
BY DEF NoConfig, Config, Nothing, Given, Matched

\* What is in the file is a configuration.
LEMMA ContentFacts ==
  ASSUME TypeOK
  PROVE  /\ Content \in Config
         /\ file \in Written => file.cfg \in Config /\ file.torn \in BOOLEAN /\ Content = file.cfg
         /\ file \notin Written => Content = NoConfig
<1>1. file \in Written \/ file = Missing \/ file = Blank BY DEF TypeOK
<1>2. file \in Written => file.cfg \in Config /\ file.torn \in BOOLEAN BY DEF Written
<1> QED BY <1>1, <1>2, NameFacts, BlankFacts DEF Content

LEMMA InitHolds == Init => IInv
<1> SUFFICES ASSUME Init PROVE IInv OBVIOUS
<1> USE NameFacts, BlankFacts
<1>1. PICK f : /\ f = file
               /\ \/ f = Missing
                  \/ \E a \in Fleet :
                        f = [cfg |-> [token |-> OldToken, agent |-> a, secret |-> a,
                                      named |-> TRUE],
                             torn |-> FALSE]
  BY DEF Init
<1>2. f \in Written => f.cfg.secret \in Fleet /\ f.cfg.agent = f.cfg.secret /\ f.cfg.named
  BY <1>1
<1>3. f \in Written \cup {Missing}
  <2>1. ASSUME NEW a \in Fleet
        PROVE  [cfg |-> [token |-> OldToken, agent |-> a, secret |-> a, named |-> TRUE],
                torn |-> FALSE] \in Written
    <3>1. [token |-> OldToken, agent |-> a, secret |-> a, named |-> TRUE] \in Config
      BY DEF Config, Tokens
    <3> QED BY <3>1 DEF Written
  <2> QED BY <1>1, <2>1
<1>4. TypeOK
  <2>1. secrets \in [Agents -> Secrets \cup {Null}] BY DEF Init
  <2>2. shown \subseteq Secrets BY DEF Init
  <2> QED BY <1>1, <1>3, <2>1, <2>2 DEF Init, TypeOK
<1>5. Control BY DEF Init, Control, ControlOf, Saving, Running
<1>6. Pairs
  <2>1. Paired(Content) /\ (Content.agent # Null \/ Content.secret # Null => Content.named)
    <3>1. CASE f \in Written
      <4>1. Content = f.cfg BY <1>1, <1>4, <3>1, ContentFacts
      <4> QED BY <1>2, <3>1, <4>1 DEF Paired, Matched, Settled, IssuedFor
    <3>2. CASE f \notin Written
      <4>1. Content = NoConfig BY <1>1, <1>4, <3>2, ContentFacts
      <4> QED BY <4>1 DEF Paired
    <3> QED BY <3>1, <3>2
  <2>2. \A p \in Procs : Paired(mem[p]) BY DEF Init, Paired
  <2> QED BY <2>1, <2>2 DEF Pairs, Init, Settled
<1>7. SecretsTraced BY DEF Init, SecretsTraced
<1>8. FileInv BY DEF Init, FileInv, LogoutOf, OpenedOf, UseOf, Started
<1> QED BY <1>4, <1>5, <1>6, <1>7, <1>8 DEF IInv

-----------------------------------------------------------------------------
(* What a step of one process leaves alone.                                *)

\* Only process p moves; its command line is settled when it starts.
Moves(p) ==
    /\ \A q \in Procs \ {p} :
          pc'[q] = pc[q] /\ cmd'[q] = cmd[q] /\ mem'[q] = mem[q] /\ before'[q] = before[q]
    /\ pc[p] \in Running \cup {"idle"}
    /\ pc'[p] # "idle"
    /\ pc[p] # "idle" => cmd'[p] = cmd[p] /\ before'[p] = before[p]

\* What has happened stays so.
LEMMA Stable ==
  ASSUME Control, NEW p \in Procs, Moves(p)
  PROVE  /\ \A q \in Procs : Started(q) =>
               /\ Started(q)' /\ cmd'[q] = cmd[q] /\ before'[q] = before[q]
               /\ Saves(q)' <=> Saves(q)
               /\ Replaces(q)' <=> Replaces(q)
         /\ \A q \in Procs : pc[q] \in Ended => pc'[q] = pc[q] /\ q # p
         /\ \A q, w \in Procs : Overlap(q, w) => Overlap(q, w)'
<1>1. \A q \in Procs : Started(q) =>
         /\ Started(q)' /\ cmd'[q] = cmd[q] /\ before'[q] = before[q]
         /\ Saves(q)' <=> Saves(q)
         /\ Replaces(q)' <=> Replaces(q)
  BY DEF Started, Moves, Saves, Replaces
<1>2. \A q \in Procs : pc[q] \in Ended => pc'[q] = pc[q] /\ q # p
  BY DEF Moves, Running, Ended
<1>3. \A q, w \in Procs : Overlap(q, w) => Overlap(q, w)' BY <1>1 DEF Overlap
<1> QED BY <1>1, <1>2, <1>3

\* Excuses last.
LEMMA ExcusesLast ==
  ASSUME Control, NEW p \in Procs, Moves(p), NEW s \in Procs, Started(s)
  PROVE  /\ \A q \in Savers(s) : q \in Savers(s)'
         /\ Undone(s) => Undone(s)'
         /\ Excused(s) => Excused(s)'
<1>1. \A q \in Savers(s) : q \in Savers(s)' BY Stable DEF Savers
<1>2. \A q \in Savers(s) : q \in Procs /\ Started(q) BY DEF Savers
<1>3. Undone(s) => Undone(s)' BY <1>1, <1>2, Stable DEF Undone
<1>4. Excused(s) => Excused(s)'
  <2> SUFFICES ASSUME NEW q \in Savers(s),
                      \/ Replaces(q) \/ cmd[q].given.secret # Null \/ pc[q] = "failed"
                      \/ \E w \in Procs : Overlap(q, w) /\ Saves(w)
               PROVE  Excused(s)'
    BY DEF Excused
  <2>1. CASE Replaces(q) \/ cmd[q].given.secret # Null
    BY <1>1, <1>2, <2>1, Stable DEF Excused
  <2>2. CASE pc[q] = "failed" BY <1>1, <1>2, <2>2, Stable DEF Excused, Ended
  <2>3. ASSUME NEW w \in Procs, Overlap(q, w), Saves(w) PROVE Excused(s)'
    <3>1. Overlap(q, w)' /\ Saves(w)' BY <1>2, <2>3, Stable DEF Overlap
    <3> QED BY <1>1, <3>1 DEF Excused
  <2> QED BY <2>1, <2>2, <2>3
<1> QED BY <1>1, <1>3, <1>4

\* A pair that belongs together does so ever after.
LEMMA PairsLast ==
  ASSUME Control, NEW p \in Procs, Moves(p)
  PROVE  /\ \A s : Settled(s) => Settled(s)' /\ IssuedFor(s)' = IssuedFor(s)
         /\ \A cfg : Paired(cfg) => Paired(cfg)'
<1>1. \A s : Settled(s) => Settled(s)' /\ IssuedFor(s)' = IssuedFor(s)
  BY Stable DEF Settled, IssuedFor
<1>2. \A cfg : Matched(cfg) => Matched(cfg)' BY <1>1 DEF Matched
<1>3. \A cfg : \A q \in Procs :
         Started(q) /\ GaveHalf(q, cfg) => Started(q)' /\ GaveHalf(q, cfg)'
  BY Stable DEF GaveHalf
<1> QED BY <1>1, <1>2, <1>3 DEF Paired

\* A process that is still running overlaps with every other one that is.
LEMMA RunningOverlap ==
  ASSUME Control, NEW p \in Procs, NEW q \in Procs, pc[p] \in Running, pc[q] \in Running, p # q
  PROVE  Overlap(p, q)
BY DEF Control, ControlOf, Overlap, Started, Running, Ended

\* A process that is still running and saves is one of the savers of any that
\* has ended.
LEMMA RunningSaver ==
  ASSUME Control, NEW p \in Procs, NEW s \in Procs, pc[p] \in Running, Saves(p),
         pc[s] \in Ended
  PROVE  p \in Savers(s)
BY DEF Control, ControlOf, Savers, Started, Running, Ended

\* The other processes keep what they rely on.
LEMMA ControlFrame ==
  ASSUME TypeOK, Control, NEW p \in Procs, Moves(p), ControlOf(p)', shown \subseteq shown'
  PROVE  Control'
<1>1. ASSUME NEW q \in Procs, q # p PROVE ControlOf(q)'
  <2>1. /\ ControlOf(q) /\ pc'[q] = pc[q] /\ cmd'[q] = cmd[q] /\ mem'[q] = mem[q]
        /\ before'[q] = before[q]
    BY <1>1 DEF Control, Moves
  <2>2. \A w \in before[q] : w \in Procs /\ pc[w] \in Ended /\ q \notin before[w]
    BY <2>1 DEF ControlOf, TypeOK
  <2>3. \A w \in before[q] : w # p /\ pc'[w] \in Ended /\ q \notin before'[w]
    BY <2>2, Stable DEF Moves
  <2> QED BY <2>1, <2>3 DEF ControlOf, Saves, Replaces
<1> QED BY <1>1 DEF Control

\* Pairs, from the new file and the snapshot of the process that moved.
LEMMA PairsFrame ==
  ASSUME Control, Pairs, NEW p \in Procs, Moves(p), Paired(Content)', Paired(mem[p])',
         Content'.agent # Null \/ Content'.secret # Null => Content'.named,
         shown' \subseteq shown \cup {p}
  PROVE  Pairs'
<1>1. \A q \in Procs : Paired(mem[q])'
  <2>1. ASSUME NEW q \in Procs, q # p PROVE Paired(mem[q])'
    <3>1. PICK cfg : cfg = mem[q] OBVIOUS
    <3>2. Paired(cfg) /\ mem'[q] = cfg BY <2>1, <3>1 DEF Pairs, Moves
    <3>3. Paired(cfg)' BY <3>2, PairsLast
    <3> QED BY <3>2, <3>3
  <2> QED BY <2>1
<1>2. \A s \in shown' : Settled(s)'
  BY PairsLast DEF Pairs, Settled, Started, Moves
<1> QED BY <1>1, <1>2 DEF Pairs

-----------------------------------------------------------------------------
(* The steps.                                                              *)

\* A step that leaves the file alone and does not open it.
LEMMA QuietStep ==
  ASSUME IInv, NEW p \in Procs, Moves(p), TypeOK', ControlOf(p)', SecretsTraced',
         pc[p] \in Running, file' = file, Paired(mem[p])',
         mem'[p].agent # Null => mem[p].agent # Null \/ cmd[p].op = "agent use",
         pc'[p] \in Running /\ ~Replaces(p) =>
            mem'[p].secret = mem[p].secret /\ (mem[p].named => mem'[p].named),
         shown' \subseteq shown \cup {p}, shown \subseteq shown',
         pc'[p] # "fill", pc'[p] = "done" => ~Saves(p)
  PROVE  IInv'
<1>1. TypeOK /\ Control /\ Pairs /\ FileInv BY DEF IInv
<1>2. Control' BY <1>1, ControlFrame
<1>3. Content' = Content BY DEF Content
<1>4. Started(p) BY DEF Started, Running
<1>5. Pairs'
  <2>1. PICK cfg : cfg = Content OBVIOUS
  <2>2. Paired(cfg)' BY <1>1, <2>1, PairsLast DEF Pairs
  <2>3. Paired(Content)' BY <1>3, <2>1, <2>2
  <2>4. Content'.agent # Null \/ Content'.secret # Null => Content'.named
    BY <1>1, <1>3 DEF Pairs
  <2> QED BY <1>1, <2>3, <2>4, PairsFrame
<1>6. ASSUME NEW s \in Procs PROVE OpenedOf(s)'
  BY <1>1, Stable DEF FileInv, OpenedOf, Moves, Overlap
<1>7. ASSUME NEW s \in Procs, Started(s)', pc'[s] = "done", cmd'[s].op \in {"logout", "agent use"}
      PROVE  s # p /\ Started(s) /\ pc[s] = "done" /\ cmd[s].op = cmd'[s].op
  BY <1>4, <1>7, Stable DEF Saves, Replaces, Moves, Started
<1>8. ASSUME NEW s \in Procs, pc[s] = "done", Saves(p) PROVE p \in Savers(s)'
  BY <1>1, <1>4, <1>8, RunningSaver, ExcusesLast DEF Ended, Started
<1>9. ASSUME NEW s \in Procs PROVE LogoutOf(s)'
  <2> SUFFICES ASSUME Started(s)', cmd'[s].op = "logout", pc'[s] = "done"
               PROVE  /\ Content'.agent # Null => Undone(s)'
                      /\ Content'.token # Null => Savers(s)' # {}
                      /\ \A q \in Procs :
                            s \in before'[q] /\ Saves(q)' /\ mem'[q].agent # Null => Undone(s)'
    BY DEF LogoutOf
  <2>1. Started(s) /\ cmd[s].op = "logout" /\ pc[s] = "done" /\ LogoutOf(s)
    BY <1>1, <1>7 DEF FileInv
  <2>2. \A q \in Procs : before'[q] = before[q] BY <1>4 DEF Moves, Started
  <2>3. Undone(s) => Undone(s)' BY <1>1, <2>1, ExcusesLast
  <2>4. ASSUME NEW q \in Procs, s \in before[q], Saves(q)', mem'[q].agent # Null
        PROVE  Undone(s)'
    <3>0. Saves(q) BY <1>4, <2>4 DEF Moves, Started, Saves, Replaces
    <3>1. CASE mem[q].agent # Null BY <2>1, <2>3, <2>4, <3>0, <3>1 DEF LogoutOf
    <3>2. CASE mem[q].agent = Null
      <4>1. q = p /\ cmd[p].op = "agent use" BY <2>4, <3>2 DEF Moves
      <4>2. p \in Savers(s)'
        BY <1>8, <2>1, <4>1 DEF Saves, Replaces
      <4> QED BY <1>1, <1>4, <4>1, <4>2, Stable DEF Undone
    <3> QED BY <3>1, <3>2
  <2> QED BY <1>1, <1>3, <2>1, <2>2, <2>3, <2>4, ExcusesLast DEF LogoutOf
<1>10. ASSUME NEW s \in Procs PROVE UseOf(s)'
  <2> SUFFICES ASSUME Started(s)', cmd'[s].op = "agent use", pc'[s] = "done"
               PROVE  /\ Excused(s)' \/ Pending(s)' \/ Holds(s)'
                      /\ \A q \in Procs : s \in before'[q] /\ Saves(q)' /\ pc'[q] \in Running =>
                            (mem'[q].secret = s /\ mem'[q].named) \/ Excused(s)'
    BY DEF UseOf
  <2>1. Started(s) /\ cmd[s].op = "agent use" /\ pc[s] = "done" /\ UseOf(s)
    BY <1>1, <1>7 DEF FileInv
  <2>2. Excused(s) => Excused(s)' BY <1>1, <2>1, ExcusesLast
  <2>3. Holds(s) => Holds(s)' BY DEF Holds
  <2>4. Pending(s) => Pending(s)'
    <3> SUFFICES ASSUME NEW q \in Savers(s), pc[q] # "done" PROVE Pending(s)'
      BY DEF Pending
    <3>1. q \in Procs /\ Saves(q) BY DEF Savers
    <3>2. pc'[q] # "done" BY <3>1 DEF Moves
    <3> QED BY <1>1, <2>1, <3>2, ExcusesLast DEF Pending
  <2>5. ASSUME NEW q \in Procs, s \in before'[q], Saves(q)', pc'[q] \in Running
        PROVE  (mem'[q].secret = s /\ mem'[q].named) \/ Excused(s)'
    <3>1. s \in before[q] /\ Saves(q) /\ pc[q] \in Running
      BY <1>4, <2>5 DEF Moves, Started, Saves, Replaces
    <3>2. (mem[q].secret = s /\ mem[q].named) \/ Excused(s) BY <2>1, <3>1 DEF UseOf
    <3>3. CASE q = p /\ Replaces(p)
      <4>1. p \in Savers(s)' /\ Replaces(p)'
        BY <1>1, <1>4, <1>8, <2>1, <3>3, Stable DEF Saves
      <4> QED BY <4>1 DEF Excused
    <3>4. CASE ~(q = p /\ Replaces(p))
      <4>1. mem'[q].secret = mem[q].secret /\ (mem[q].named => mem'[q].named)
        BY <2>5, <3>4 DEF Moves
      <4> QED BY <2>2, <3>2, <4>1
    <3> QED BY <3>3, <3>4
  <2> QED BY <2>1, <2>2, <2>3, <2>4, <2>5 DEF UseOf
<1>11. FileInv' BY <1>6, <1>9, <1>10 DEF FileInv
<1> QED BY <1>2, <1>5, <1>11 DEF IInv

\* Only process p goes on to the next step.
LEMMA GotoFacts ==
  ASSUME TypeOK, NEW p \in Procs, NEW step, Goto(p, step), UNCHANGED <<cmd, before>>,
         pc[p] \in Running, step # "idle",
         \A q \in Procs \ {p} : mem'[q] = mem[q]
  PROVE  /\ Moves(p) /\ pc'[p] = step
         /\ step \in Running \cup Ended \cup {"idle"} =>
               pc' \in [Procs -> Running \cup Ended \cup {"idle"}]
BY DEF TypeOK, Goto, Moves

\* A process ends without having saved.
LEMMA ExitStep ==
  ASSUME IInv, NEW p \in Procs, NEW outcome \in Ended, Exit(p, outcome), pc[p] \in Running,
         UNCHANGED <<file, secrets, cmd, before>>,
         outcome = "done" => ~Saves(p),
         shown' = shown \/ shown' = shown \cup {p},
         outcome = "done" /\ cmd[p].op \in {"agent create", "agent rotate-secret"} =>
            p \in shown'
  PROVE  IInv'
<1> USE NameFacts, BlankFacts
<1>1. TypeOK /\ Control /\ SecretsTraced BY DEF IInv
<1>2. mem' = [mem EXCEPT ![p] = NoConfig] /\ Goto(p, outcome) BY DEF Exit
<1>3. mem'[p] = NoConfig /\ \A q \in Procs \ {p} : mem'[q] = mem[q]
  BY <1>1, <1>2 DEF TypeOK
<1>4. Moves(p) /\ pc'[p] = outcome /\ pc' \in [Procs -> Running \cup Ended \cup {"idle"}]
  BY <1>1, <1>2, <1>3, GotoFacts DEF Ended
<1>5. TypeOK' BY <1>1, <1>2, <1>4 DEF TypeOK
<1>6. ControlOf(p)'
  <2>1. ControlOf(p) BY <1>1 DEF Control
  <2>2. \A q \in before[p] : pc'[q] \in Ended /\ p \notin before[q]
    BY <1>1, <1>4, <2>1, Stable DEF ControlOf, TypeOK
  <2>3. pc'[p] \notin Running /\ pc'[p] \notin Saving
    BY <1>4 DEF Ended, Running, Saving
  <2> QED BY <1>4, <2>1, <2>2, <2>3 DEF ControlOf, Running, Ended
<1>7. SecretsTraced' BY <1>1, <1>4 DEF SecretsTraced, Started, Moves
<1>8. Paired(mem[p])' BY <1>3 DEF Paired, Matched
<1> QED BY <1>3, <1>4, <1>5, <1>6, <1>7, <1>8, QuietStep DEF Ended, Running

\* A step that goes on with the same file and, unless an answer has been put
\* into it, the same snapshot.
LEMMA OnwardStep ==
  ASSUME IInv, NEW p \in Procs, NEW step, Goto(p, step), pc[p] \in Running,
         UNCHANGED <<file, shown, cmd, before>>,
         step \in {"request", "answered", "stat", "create", "truncate"},
         step \in {"request", "answered"} => cmd[p].op \notin {"login", "logout"},
         step \in Saving => Saves(p),
         step \in Saving /\ cmd[p].op = "agent use" => mem'[p].secret = p /\ mem'[p].named,
         secrets' \in [Agents -> Secrets \cup {Null}], SecretsTraced',
         mem' \in [Procs -> Config], \A q \in Procs \ {p} : mem'[q] = mem[q],
         Paired(mem[p])',
         mem'[p].agent # Null => mem[p].agent # Null \/ cmd[p].op = "agent use",
         ~Replaces(p) => mem'[p].secret = mem[p].secret /\ (mem[p].named => mem'[p].named),
         cmd[p].op = "logout" => mem'[p] = mem[p]
  PROVE  IInv'
<1>1. TypeOK /\ Control BY DEF IInv
<1>2. step \in Running BY DEF Running
<1>3. Moves(p) /\ pc'[p] = step /\ pc' \in [Procs -> Running \cup Ended \cup {"idle"}]
  BY <1>1, <1>2, GotoFacts
<1>4. TypeOK' BY <1>1, <1>3 DEF TypeOK
<1>5. ControlOf(p)'
  <2>1. ControlOf(p) BY <1>1 DEF Control
  <2>2. \A q \in before[p] : pc'[q] \in Ended /\ p \notin before[q]
    BY <1>1, <1>3, <2>1, Stable DEF ControlOf, TypeOK
  <2> QED BY <1>2, <1>3, <2>1, <2>2 DEF ControlOf, Saves, Replaces, Running
<1> QED BY <1>3, <1>4, <1>5, QuietStep

\* AskInfo, Stat: the process only goes on.
LEMMA PassStep ==
  ASSUME IInv, NEW p \in Procs, NEW step, Goto(p, step), pc[p] \in Running,
         UNCHANGED <<file, secrets, shown, cmd, mem, before>>,
         step \in {"request", "answered", "stat", "create", "truncate"},
         step \in {"request", "answered"} => cmd[p].op \notin {"login", "logout"},
         step \in Saving => pc[p] \in Saving
  PROVE  IInv'
<1>1. TypeOK /\ Control /\ SecretsTraced /\ Pairs BY DEF IInv
<1>2. ControlOf(p) BY <1>1 DEF Control
<1>3. step # "idle" OBVIOUS
<1>4. Moves(p) BY <1>1, <1>3, GotoFacts
<1>5. SecretsTraced' BY <1>1, <1>4 DEF SecretsTraced, Started, Moves
<1>6. Paired(mem[p])'
  <2>1. PICK cfg : cfg = mem[p] OBVIOUS
  <2>2. Paired(cfg)' BY <1>1, <1>4, <2>1, PairsLast DEF Pairs
  <2> QED BY <2>1, <2>2
<1> QED BY <1>1, <1>2, <1>5, <1>6, OnwardStep DEF ControlOf, TypeOK

\* GET /v1/info/{id}.
LEMMA AskInfoStep ==
  ASSUME IInv, NEW p \in Procs, AskInfo(p)
  PROVE  IInv'
<1>1. Control BY DEF IInv
<1>2. cmd[p].op \notin {"login", "logout"} /\ pc[p] \in Running
  BY <1>1 DEF AskInfo, Control, ControlOf, Running
<1> QED BY <1>2, PassStep DEF AskInfo, Saving

\* saveConfig looks whether there is a file.
LEMMA StatStep ==
  ASSUME IInv, NEW p \in Procs, Stat(p)
  PROVE  IInv'
<1>1. pc[p] \in Running /\ pc[p] \in Saving BY DEF Stat, Running, Saving
<1>2. PICK step \in {"create", "truncate"} : Goto(p, step) BY DEF Stat
<1> QED BY <1>1, <1>2, PassStep DEF Stat

\* The server draws a secret, removes an agent, or only answers.
LEMMA RequestStep ==
  ASSUME IInv, NEW p \in Procs, Request(p)
  PROVE  IInv'
<1> USE NameFacts
<1>1. TypeOK /\ Control /\ SecretsTraced /\ Pairs BY DEF IInv
<1>2. /\ pc[p] = "request" /\ pc[p] \in Running /\ Goto(p, "answered") /\ Started(p)
      /\ UNCHANGED <<file, shown, cmd, mem, before>>
      /\ cmd[p].op \notin {"login", "logout"}
  BY <1>1 DEF Request, Control, ControlOf, Running, Started
<1>3. Moves(p) BY <1>1, <1>2, GotoFacts
<1>4. ASSUME NEW a \in Agents
      PROVE  \/ secrets'[a] = secrets[a] \/ secrets'[a] = Null
             \/ /\ secrets'[a] = p
                /\ cmd[p].op \in {"agent create", "agent use", "agent rotate-secret"}
  BY <1>1 DEF Request, TypeOK
<1>5. secrets' \in [Agents -> Secrets \cup {Null}] BY <1>1 DEF Request, TypeOK
<1>6. SecretsTraced' BY <1>1, <1>2, <1>3, <1>4, Stable DEF SecretsTraced
<1>7. Paired(mem[p])'
  <2>1. PICK cfg : cfg = mem[p] OBVIOUS
  <2>2. Paired(cfg)' BY <1>1, <1>3, <2>1, PairsLast DEF Pairs
  <2> QED BY <1>2, <2>1, <2>2
<1> QED BY <1>1, <1>2, <1>5, <1>6, <1>7, OnwardStep DEF TypeOK, Saving

\* The answer is printed, or goes into the snapshot: agent and secret together.
LEMMA ReceiveStep ==
  ASSUME IInv, NEW p \in Procs, Receive(p)
  PROVE  IInv'
<1> USE NameFacts
<1>1. TypeOK /\ Control /\ SecretsTraced /\ Pairs BY DEF IInv
<1>2. /\ pc[p] = "answered" /\ pc[p] \in Running /\ Started(p)
      /\ UNCHANGED <<file, secrets, cmd, before>>
      /\ mem[p] \in Config /\ cmd[p] \in Command
  BY <1>1 DEF Receive, Control, ControlOf, Running, Started, TypeOK
<1>3. CASE cmd[p].op = "account login"
  <2>1. mem' = [mem EXCEPT ![p] = WithToken(@, p)] /\ Goto(p, "stat") /\ UNCHANGED shown
    BY <1>3 DEF Receive
  <2>2. /\ mem'[p] = [mem[p] EXCEPT !.token = p]
        /\ \A q \in Procs \ {p} : mem'[q] = mem[q]
    BY <1>1, <2>1 DEF TypeOK, WithToken
  <2>3. /\ mem'[p] \in Config /\ mem'[p].agent = mem[p].agent
        /\ mem'[p].secret = mem[p].secret /\ mem'[p].named = mem[p].named
    BY <1>2, <2>2 DEF Config
  <2>4. mem' \in [Procs -> Config] BY <1>1, <2>1, <2>3 DEF TypeOK
  <2>5. Moves(p) BY <1>1, <1>2, <2>1, <2>2, GotoFacts
  <2>6. SecretsTraced' BY <1>1, <1>2, <2>1, <2>5, Stable DEF SecretsTraced
  <2>7. Paired(mem[p])'
    <3>1. PICK cfg : cfg = mem[p] OBVIOUS
    <3>2. Paired(cfg)' BY <1>1, <2>5, <3>1, PairsLast DEF Pairs
    <3> QED BY <2>3, <3>1, <3>2 DEF Paired, Matched, GaveHalf, Covers
  <2> QED BY <1>1, <1>2, <1>3, <2>1, <2>2, <2>3, <2>4, <2>6, <2>7, OnwardStep
      DEF TypeOK, Saves, Replaces
<1>4. CASE cmd[p].op = "agent use"
  <2>1. /\ mem' = [mem EXCEPT ![p] = WithIdentity(@, cmd[p].agent, p)]
        /\ Goto(p, "stat") /\ UNCHANGED shown
    BY <1>4 DEF Receive
  <2>2. /\ mem'[p] = [mem[p] EXCEPT !.agent = cmd[p].agent, !.secret = p, !.named = TRUE]
        /\ \A q \in Procs \ {p} : mem'[q] = mem[q]
    BY <1>1, <2>1 DEF TypeOK, WithIdentity
  <2>3. /\ mem'[p] \in Config /\ mem'[p].agent = cmd[p].agent
        /\ mem'[p].secret = p /\ mem'[p].named
    BY <1>2, <2>2 DEF Config, Command
  <2>4. mem' \in [Procs -> Config] BY <1>1, <2>1, <2>3 DEF TypeOK
  <2>5. Moves(p) BY <1>1, <1>2, <2>1, <2>2, GotoFacts
  <2>6. SecretsTraced' BY <1>1, <1>2, <2>1, <2>5, Stable DEF SecretsTraced
  <2>7. Paired(mem[p])'
    BY <1>1, <1>2, <1>4, <2>3, <2>5, Stable DEF Paired, Matched, Settled, IssuedFor
  <2> QED BY <1>1, <1>2, <1>4, <2>1, <2>2, <2>3, <2>4, <2>6, <2>7, OnwardStep
      DEF TypeOK, Saves, Replaces
<1>5. CASE cmd[p].op \notin {"account login", "agent use"}
  <2>1. Exit(p, "done") /\ ~Saves(p) /\ (shown' = shown \/ shown' = shown \cup {p})
    BY <1>5 DEF Receive, Saves, Replaces
  <2>2. cmd[p].op \in {"agent create", "agent rotate-secret"} => p \in shown'
    BY <1>5 DEF Receive
  <2> QED BY <1>2, <2>1, <2>2, ExitStep DEF Ended
<1> QED BY <1>3, <1>4, <1>5

\* The process is killed or fails.
LEMMA StopStep ==
  ASSUME IInv, NEW p \in Procs, Stop(p)
  PROVE  IInv'
BY ExitStep DEF Stop, Ended

\* WriteConfig and SafeWriteConfigAs empty the file first.
LEMMA OpenStep ==
  ASSUME IInv, NEW p \in Procs, pc[p] \in {"truncate", "create"}, file' = Blank,
         Goto(p, "fill"), UNCHANGED <<secrets, shown, cmd, mem, before>>
  PROVE  IInv'
<1> USE NameFacts, BlankFacts
<1>1. TypeOK /\ Control /\ Pairs /\ SecretsTraced /\ FileInv BY DEF IInv
<1>2. pc[p] \in Running /\ pc[p] \in Saving /\ Started(p) BY DEF Running, Saving, Started
<1>3. ControlOf(p) /\ Saves(p) BY <1>1, <1>2 DEF Control, ControlOf
<1>4. Moves(p) /\ pc'[p] = "fill" /\ pc' \in [Procs -> Running \cup Ended \cup {"idle"}]
  BY <1>1, <1>2, GotoFacts DEF Running
<1>5. TypeOK' BY <1>1, <1>4 DEF TypeOK
<1>6. Content' = NoConfig BY <1>5 DEF Content
<1>7. Control'
  <2>1. \A q \in before[p] : pc'[q] \in Ended /\ p \notin before[q]
    BY <1>1, <1>3, <1>4, Stable DEF ControlOf, TypeOK
  <2>2. ControlOf(p)'
    BY <1>2, <1>3, <1>4, <2>1 DEF ControlOf, Saves, Replaces, Running, Saving
  <2> QED BY <1>1, <1>4, <2>2, ControlFrame
<1>8. SecretsTraced' BY <1>1, <1>4, Stable DEF SecretsTraced
<1>9. Pairs'
  <2>1. PICK cfg : cfg = mem[p] OBVIOUS
  <2>2. Paired(cfg)' BY <1>1, <1>4, <2>1, PairsLast DEF Pairs
  <2>3. Paired(mem[p])' BY <2>1, <2>2
  <2>4. Paired(Content)' BY <1>6 DEF Paired, Matched
  <2> QED BY <1>1, <1>4, <1>6, <2>3, <2>4, PairsFrame
<1>10. ASSUME NEW s \in Procs PROVE OpenedOf(s)' BY DEF OpenedOf
<1>11. ASSUME NEW s \in Procs PROVE LogoutOf(s)'
  BY <1>1, <1>4, <1>6, Stable, ExcusesLast
  DEF FileInv, LogoutOf, Moves, Started, Saves, Replaces
<1>12. ASSUME NEW s \in Procs PROVE UseOf(s)'
  <2> SUFFICES ASSUME Started(s)', cmd'[s].op = "agent use", pc'[s] = "done"
               PROVE  UseOf(s)'
    BY DEF UseOf
  <2>1. s # p /\ Started(s) /\ cmd[s].op = "agent use" /\ pc[s] = "done" /\ UseOf(s)
    BY <1>1, <1>4 DEF FileInv, Moves, Started
  <2>2. p \in Savers(s)'
    BY <1>1, <1>2, <1>3, <1>4, <2>1, RunningSaver, ExcusesLast DEF Ended
  <2>3. Pending(s)' BY <1>4, <2>2 DEF Pending
  <2>4. ASSUME NEW q \in Procs, s \in before[q], Saves(q)', pc'[q] \in Running
        PROVE  (mem[q].secret = s /\ mem[q].named) \/ Excused(s)'
    <3>1. Saves(q) /\ pc[q] \in Running
      BY <1>2, <2>4, <1>4 DEF Moves, Saves, Replaces
    <3> QED BY <1>1, <1>4, <2>1, <2>4, <3>1, ExcusesLast DEF UseOf
  <2> QED BY <2>3, <2>4 DEF UseOf
<1>13. FileInv' BY <1>10, <1>11, <1>12 DEF FileInv
<1> QED BY <1>5, <1>7, <1>8, <1>9, <1>13 DEF IInv

\* The whole snapshot is written.
LEMMA FillStep ==
  ASSUME IInv, NEW p \in Procs, Fill(p)
  PROVE  IInv'
<1> USE NameFacts, BlankFacts
<1>1. TypeOK /\ Control /\ Pairs /\ SecretsTraced /\ FileInv BY DEF IInv
<1>2. /\ pc[p] = "fill" /\ pc[p] \in Running /\ pc[p] \in Saving /\ Started(p)
      /\ Goto(p, "done") /\ mem' = [mem EXCEPT ![p] = NoConfig]
      /\ UNCHANGED <<secrets, shown, cmd, before>>
  BY DEF Fill, Exit, Running, Saving, Started
<1>3. ControlOf(p) /\ Saves(p) /\ mem[p] \in Config
  BY <1>1, <1>2 DEF Control, ControlOf, TypeOK
<1>4. PICK cfg \in Config :
         /\ cfg = Persisted(mem[p])
         /\ \/ cfg.agent = mem[p].agent /\ cfg.secret = mem[p].secret /\ mem[p].named
            \/ cfg.agent = Null /\ cfg.secret = Null /\ ~mem[p].named
         /\ cfg.token = mem[p].token /\ (cfg.named <=> mem[p].named)
  <2>1. CASE mem[p].named BY <1>3, <2>1 DEF Persisted
  <2>2. CASE ~mem[p].named
    <3>1. PICK m \in Config : m = mem[p] BY <1>3
    <3>2. PICK new : new = [m EXCEPT !.agent = Null, !.secret = Null] OBVIOUS
    <3>3. /\ new \in Config /\ new.agent = Null /\ new.secret = Null
          /\ new.token = m.token /\ (new.named <=> m.named)
      BY <3>2 DEF Config
    <3>4. new = Persisted(mem[p]) BY <2>2, <3>1, <3>2 DEF Persisted
    <3> QED BY <2>2, <3>1, <3>3, <3>4
  <2> QED BY <2>1, <2>2
<1>5. PICK torn \in BOOLEAN : /\ torn => file # Blank
                              /\ file' = [cfg |-> cfg, torn |-> torn]
  BY <1>4 DEF Fill
<1>6. file' \in Written /\ file'.cfg = cfg /\ (file'.torn <=> torn)
  <2>1. file' \in Written /\ file'.cfg = cfg BY <1>5 DEF Written
  <2>2. file'.torn <=> torn BY <1>5
  <2> QED BY <2>1, <2>2
<1>7. mem'[p] = NoConfig /\ \A q \in Procs \ {p} : mem'[q] = mem[q]
  BY <1>1, <1>2 DEF TypeOK
<1>8. Moves(p) /\ pc'[p] = "done" /\ pc' \in [Procs -> Running \cup Ended \cup {"idle"}]
  BY <1>1, <1>2, <1>7, GotoFacts DEF Ended
<1>9. TypeOK' BY <1>1, <1>2, <1>6, <1>8 DEF TypeOK
<1>10. Content' = cfg BY <1>6 DEF Content
<1>11. Control'
  <2>1. \A q \in before[p] : pc'[q] \in Ended /\ p \notin before[q]
    BY <1>1, <1>3, <1>8, Stable DEF ControlOf, TypeOK
  <2>2. ControlOf(p)'
    BY <1>2, <1>3, <1>8, <2>1 DEF ControlOf, Saves, Replaces, Running, Saving
  <2> QED BY <1>1, <1>2, <1>8, <2>2, ControlFrame
<1>12. SecretsTraced' BY <1>1, <1>2, <1>8, Stable DEF SecretsTraced
<1>13. Pairs'
  <2>1. Paired(cfg)
    <3>1. Paired(mem[p]) BY <1>1 DEF Pairs
    <3> QED BY <1>4, <3>1 DEF Paired, Matched, GaveHalf, Covers
  <2>2. Paired(cfg)' BY <1>1, <1>8, <2>1, PairsLast
  <2>3. Paired(Content)' BY <1>10, <2>2
  <2>4. Paired(mem[p])' BY <1>7 DEF Paired, Matched
  <2>5. cfg.agent # Null \/ cfg.secret # Null => cfg.named BY <1>4
  <2> QED BY <1>1, <1>2, <1>8, <1>10, <2>3, <2>4, <2>5, PairsFrame
\* Whoever has the file open overlaps with p.
<1>14. ASSUME NEW s \in Procs PROVE OpenedOf(s)'
  <2> SUFFICES ASSUME pc'[s] = "fill" PROVE \E w \in Procs : Overlap(s, w)' /\ Saves(w)'
    BY DEF OpenedOf
  <2>1. s # p /\ pc[s] \in Running BY <1>8 DEF Moves, Running
  <2>2. Overlap(s, p) BY <1>1, <1>2, <2>1, RunningOverlap
  <2> QED BY <1>1, <1>2, <1>3, <1>8, <2>2, Stable
<1>15. ASSUME NEW s \in Procs, pc[s] = "done", s # p
       PROVE  p \in Savers(s)' /\ (s \notin before[p] => Overlap(s, p)' /\ Overlap(p, s)')
  <2>1. Started(s) /\ p \in Savers(s) BY <1>1, <1>2, <1>3, <1>15, RunningSaver DEF Ended, Started
  <2>2. p \in Savers(s)' BY <1>1, <1>8, <2>1, ExcusesLast
  <2>3. s \notin before[p] => Overlap(s, p) /\ Overlap(p, s)
    BY <1>2, <1>15, <2>1 DEF Overlap, Savers
  <2> QED BY <1>1, <1>8, <2>2, <2>3, Stable
<1>16. ASSUME NEW s \in Procs PROVE LogoutOf(s)'
  <2> SUFFICES ASSUME Started(s)', cmd'[s].op = "logout", pc'[s] = "done"
               PROVE  /\ cfg.agent # Null => Undone(s)'
                      /\ cfg.token # Null => Savers(s)' # {}
                      /\ \A q \in Procs :
                            s \in before[q] /\ Saves(q)' /\ mem'[q].agent # Null => Undone(s)'
    BY <1>2, <1>10 DEF LogoutOf
  <2>1. CASE s = p
    <3>1. cfg.agent = Null /\ cfg.token = Null
      BY <1>2, <1>3, <1>4, <2>1 DEF ControlOf
    <3>2. \A q \in Procs : p \notin before[q]
      BY <1>1, <1>2 DEF Control, ControlOf, Running, Ended
    <3> QED BY <2>1, <3>1, <3>2
  <2>2. CASE s # p
    <3>1. Started(s) /\ cmd[s].op = "logout" /\ pc[s] = "done" /\ LogoutOf(s)
      BY <1>1, <1>2, <1>8, <2>2 DEF FileInv, Moves, Started
    <3>2. Undone(s) => Undone(s)' BY <1>1, <1>8, <3>1, ExcusesLast
    <3>3. cfg.agent # Null => Undone(s)'
      <4>1. CASE s \in before[p] BY <1>3, <1>4, <3>1, <3>2, <4>1 DEF LogoutOf
      <4>2. CASE s \notin before[p] BY <1>15, <2>2, <3>1, <4>2 DEF Undone
      <4> QED BY <4>1, <4>2
    <3>4. ASSUME NEW q \in Procs, s \in before[q], Saves(q)', mem'[q].agent # Null
          PROVE  Undone(s)'
      BY <1>2, <1>7, <3>1, <3>2, <3>4 DEF LogoutOf, Saves, Replaces
    <3> QED BY <1>15, <2>2, <3>1, <3>3, <3>4
  <2> QED BY <2>1, <2>2
<1>17. ASSUME NEW s \in Procs PROVE UseOf(s)'
  <2> SUFFICES ASSUME Started(s)', cmd'[s].op = "agent use", pc'[s] = "done"
               PROVE  UseOf(s)'
    BY DEF UseOf
  \* A torn text has an overlapping command to blame.
  <2>1. torn => \E w \in Procs : Overlap(p, w)' /\ Saves(w)'
    <3> SUFFICES ASSUME torn PROVE \E w \in Procs : Overlap(p, w)' /\ Saves(w)' OBVIOUS
    <3>1. PICK w \in Procs : Overlap(p, w) /\ Saves(w)
      BY <1>1, <1>2, <1>5 DEF FileInv, OpenedOf
    <3> QED BY <1>1, <1>8, <3>1, Stable DEF Overlap
  <2>2. CASE s = p
    <3>1. cfg.secret = p BY <1>2, <1>3, <1>4, <2>2 DEF ControlOf
    <3>2. Excused(s)' \/ Holds(s)'
      <4>1. CASE ~torn BY <1>6, <2>2, <3>1, <4>1 DEF Holds
      <4>2. CASE torn
        <5>1. PICK w \in Procs : Overlap(p, w)' /\ Saves(w)' BY <2>1, <4>2
        <5>2. w \in Savers(p)' /\ Overlap(w, p)' BY <5>1 DEF Savers, Overlap
        <5>3. Saves(p)' BY <1>1, <1>2, <1>3, <1>8, Stable
        <5> QED BY <2>2, <5>2, <5>3 DEF Excused
      <4> QED BY <4>1, <4>2
    <3>3. \A q \in Procs : p \notin before'[q]
      BY <1>1, <1>2 DEF Control, ControlOf, Running, Ended
    <3> QED BY <2>2, <3>2, <3>3 DEF UseOf
  <2>3. CASE s # p
    <3>1. Started(s) /\ cmd[s].op = "agent use" /\ pc[s] = "done" /\ UseOf(s)
      BY <1>1, <1>2, <1>8, <2>3 DEF FileInv, Moves, Started
    <3>2. Excused(s) => Excused(s)' BY <1>1, <1>8, <3>1, ExcusesLast
    <3>3. Excused(s)' \/ Holds(s)'
      <4>1. CASE torn BY <1>15, <2>1, <2>3, <3>1, <4>1 DEF Excused
      <4>2. CASE s \notin before[p]
        <5>1. Saves(s)' BY <1>2, <3>1 DEF Saves, Replaces
        <5> QED BY <1>15, <2>3, <3>1, <4>2, <5>1 DEF Excused
      <4>3. CASE ~torn /\ s \in before[p]
        <5>1. (mem[p].secret = s /\ mem[p].named) \/ Excused(s)
          BY <1>2, <1>3, <3>1, <4>3 DEF UseOf
        <5>2. cfg.secret = s \/ Excused(s) BY <1>4, <5>1
        <5> QED BY <1>6, <3>2, <4>3, <5>2 DEF Holds
      <4> QED BY <4>1, <4>2, <4>3
    <3>4. ASSUME NEW q \in Procs, s \in before'[q], Saves(q)', pc'[q] \in Running
          PROVE  (mem'[q].secret = s /\ mem'[q].named) \/ Excused(s)'
      <4>1. q # p BY <1>8, <3>4 DEF Running
      <4>2. Saves(q) /\ pc[q] \in Running /\ mem'[q] = mem[q] /\ s \in before[q]
        BY <1>2, <1>8, <3>4, <4>1 DEF Moves, Saves, Replaces
      <4> QED BY <3>1, <3>2, <4>2 DEF UseOf
    <3> QED BY <3>3, <3>4 DEF UseOf
  <2> QED BY <2>2, <2>3
<1>18. FileInv' BY <1>14, <1>16, <1>17 DEF FileInv
<1> QED BY <1>9, <1>11, <1>12, <1>13, <1>18 DEF IInv

-----------------------------------------------------------------------------
(* A process starts.                                                       *)

\* What may be read is what the file holds, or nothing.
LEMMA ReadingFacts ==
  ASSUME TypeOK, NEW read \in Readings
  PROVE  /\ read \in Config
         /\ read = Content \/ read = NoConfig
         /\ \A s \in Procs : Holds(s) => read.secret = s
<1> USE NameFacts, BlankFacts
<1>1. file \in Written \/ file = Missing \/ file = Blank BY DEF TypeOK
<1>2. CASE file \in Written
  <2>1. file.cfg \in Config /\ Content = file.cfg BY <1>2, ContentFacts
  <2>2. CASE file.torn BY <1>2, <2>1, <2>2 DEF Readings, Holds
  <2>3. CASE ~file.torn BY <1>2, <2>1, <2>3 DEF Readings, Holds
  <2> QED BY <2>2, <2>3
<1>3. CASE file \notin Written BY <1>1, <1>3 DEF Readings, Holds
<1> QED BY <1>2, <1>3

\* The keys agent_id and api_secret of the file are still known.
KeysKept(read, cfg) == read.named => cfg.named

\* A command line is a command line.
LEMMA CommandFacts ==
  ASSUME NEW op \in Operations, NEW agent \in Agents \cup {Null}, NEW given \in Given
  PROVE  [op |-> op, agent |-> agent, given |-> given] \in Command \ {Null}
<1>1. [op |-> op, agent |-> agent, given |-> given] \in Command BY DEF Command
<1> QED BY <1>1, CliAssumption

\* A command starts with settings that come from the file, except for the pair
\* that login is given, the pair that logout clears, and what the environment
\* replaces.
LEMMA StartStep ==
  ASSUME IInv, NEW p \in Procs, NEW op \in Operations, NEW agent \in Agents \cup {Null},
         NEW given \in Given, NEW step, NEW cfg \in Config,
         Start(p, op, agent, given, step, cfg), Paired(cfg) \/ Covers(given, cfg),
         NEW read \in Readings,
         step \in {"info", "request", "stat", "failed"},
         step = "stat" <=> op \in {"login", "logout"},
         op = "logout" => cfg.agent = Null /\ cfg.token = Null,
         op \in {"account login", "agent use"} =>
            /\ cfg.agent # Null => read.agent # Null \/ given.agent # Null
            /\ given.secret = Null => cfg.secret = read.secret
            /\ KeysKept(read, cfg)
  PROVE  IInv'
<1> USE NameFacts, BlankFacts
<1>1. TypeOK /\ Control /\ Pairs /\ SecretsTraced /\ FileInv BY DEF IInv
<1>2. /\ pc[p] = "idle" /\ Goto(p, step) /\ UNCHANGED <<file, secrets, shown>>
      /\ cmd' = [cmd EXCEPT ![p] = [op |-> op, agent |-> agent, given |-> given]]
      /\ mem' = [mem EXCEPT ![p] = IF step \in Ended THEN NoConfig ELSE cfg]
      /\ before' = [before EXCEPT ![p] = {q \in Procs : pc[q] \in Ended}]
  BY DEF Start
<1>3. /\ pc'[p] = step /\ cmd'[p] = [op |-> op, agent |-> agent, given |-> given]
      /\ before'[p] = {q \in Procs : pc[q] \in Ended}
      /\ mem'[p] = cfg \/ (mem'[p] = NoConfig /\ step = "failed")
      /\ \A q \in Procs \ {p} :
            pc'[q] = pc[q] /\ cmd'[q] = cmd[q] /\ mem'[q] = mem[q] /\ before'[q] = before[q]
  BY <1>1, <1>2 DEF TypeOK, Goto, Ended
<1>4. cmd'[p] \in Command /\ cmd'[p] # Null /\ cmd'[p].op = op /\ cmd'[p].given = given
  <2>1. [op |-> op, agent |-> agent, given |-> given] \in Command \ {Null}
    BY CommandFacts
  <2>2. cmd'[p] = [op |-> op, agent |-> agent, given |-> given] BY <1>3
  <2>3. cmd'[p].op = op /\ cmd'[p].given = given BY ONLY <2>2
  <2> QED BY <2>1, <2>2, <2>3
<1>5. Moves(p) BY <1>2, <1>3 DEF Moves
<1>6. TypeOK'
  <2>1. pc' \in [Procs -> Running \cup Ended \cup {"idle"}]
    BY <1>1, <1>2 DEF TypeOK, Goto, Running, Ended
  <2>2. mem' \in [Procs -> Config] BY <1>1, <1>2 DEF TypeOK
  <2>3. before' \in [Procs -> SUBSET Procs] BY <1>1, <1>2 DEF TypeOK
  <2>4. cmd' \in [Procs -> Command \cup {Null}] BY <1>1, <1>2, <1>3, <1>4 DEF TypeOK
  <2> QED BY <1>1, <1>2, <2>1, <2>2, <2>3, <2>4 DEF TypeOK
<1>7. \A q \in Procs : p \notin before[q]
  BY <1>1, <1>2 DEF Control, ControlOf, Ended
<1>8. Control'
  <2>1. \A q \in before'[p] : q # p /\ pc'[q] \in Ended /\ p \notin before'[q]
    BY <1>2, <1>3, <1>7 DEF Ended
  <2>2. pc'[p] # "idle" /\ pc'[p] # "done" BY <1>3
  <2>3. pc'[p] \in Saving => step = "stat" BY <1>3 DEF Saving
  <2>4. pc'[p] \in Running /\ op = "logout" => mem'[p].agent = Null /\ mem'[p].token = Null
    BY <1>3
  <2>5. pc'[p] \in Saving => Saves(p)' BY <1>4, <2>3 DEF Saves, Replaces
  <2>6. ControlOf(p)'
    BY <1>3, <1>4, <2>1, <2>2, <2>3, <2>4, <2>5 DEF ControlOf
  <2> QED BY <1>1, <1>2, <1>5, <2>6, ControlFrame
<1>9. SecretsTraced' BY <1>1, <1>2, <1>5, Stable DEF SecretsTraced
<1>10. Content' = Content BY <1>2 DEF Content
<1>11. Pairs'
  <2>1. PICK old : old = Content OBVIOUS
  <2>2. Paired(old)' /\ Paired(cfg)'
    <3>1. Covers(given, cfg) => Started(p)' /\ GaveHalf(p, cfg)'
      BY <1>3, <1>4 DEF GaveHalf, Started
    <3>2. Covers(given, cfg) => Paired(cfg)' BY <3>1 DEF Paired
    <3> QED BY <1>1, <1>5, <2>1, <3>2, PairsLast DEF Pairs
  <2>3. Paired(Content)' BY <1>10, <2>1, <2>2
  <2>4. Paired(mem[p])' BY <1>3, <2>2 DEF Paired, Matched
  <2>5. Content'.agent # Null \/ Content'.secret # Null => Content'.named
    BY <1>1, <1>10 DEF Pairs
  <2> QED BY <1>1, <1>2, <1>5, <2>3, <2>4, <2>5, PairsFrame
<1>12. ASSUME NEW s \in Procs PROVE OpenedOf(s)'
  BY <1>1, <1>2, <1>3, <1>5, Stable DEF FileInv, OpenedOf, Overlap
<1>13. ASSUME NEW s \in Procs, s # p, Saves(p)' PROVE p \in Savers(s)'
  BY <1>3, <1>7, <1>13 DEF Savers, Started
<1>14. ASSUME NEW s \in Procs PROVE LogoutOf(s)'
  <2> SUFFICES ASSUME Started(s)', cmd'[s].op = "logout", pc'[s] = "done"
               PROVE  /\ Content'.agent # Null => Undone(s)'
                      /\ Content'.token # Null => Savers(s)' # {}
                      /\ \A q \in Procs :
                            s \in before'[q] /\ Saves(q)' /\ mem'[q].agent # Null => Undone(s)'
    BY DEF LogoutOf
  <2>1. s # p /\ Started(s) /\ cmd[s].op = "logout" /\ pc[s] = "done" /\ LogoutOf(s)
    BY <1>1, <1>3 DEF FileInv, Started
  <2>2. Undone(s) => Undone(s)' BY <1>1, <1>5, <2>1, ExcusesLast
  <2>3. ASSUME Saves(p)', mem'[p].agent # Null PROVE Undone(s)'
    <3>1. mem'[p] = cfg /\ op \in {"account login", "agent use", "login"} /\ p \in Savers(s)'
      BY <1>3, <1>4, <1>13, <2>1, <2>3 DEF Saves, Replaces
    <3>2. CASE op = "login" \/ given.agent # Null BY <1>4, <3>1, <3>2 DEF Undone
    <3>3. CASE op # "login" /\ given.agent = Null
      <4>1. read.agent # Null BY <2>3, <3>1, <3>3
      <4>2. Content.agent # Null BY <1>1, <4>1, ReadingFacts
      <4> QED BY <2>1, <2>2, <4>2 DEF LogoutOf
    <3> QED BY <3>2, <3>3
  <2>4. ASSUME NEW q \in Procs, s \in before'[q], Saves(q)', mem'[q].agent # Null
        PROVE  Undone(s)'
    <3>1. q # p => Saves(q) BY <1>3, <2>4 DEF Saves, Replaces
    <3> QED BY <1>3, <2>1, <2>2, <2>3, <2>4, <3>1 DEF LogoutOf
  <2> QED BY <1>1, <1>5, <1>10, <2>1, <2>2, <2>4, ExcusesLast DEF LogoutOf
<1>15. ASSUME NEW s \in Procs PROVE UseOf(s)'
  <2> SUFFICES ASSUME Started(s)', cmd'[s].op = "agent use", pc'[s] = "done"
               PROVE  UseOf(s)'
    BY DEF UseOf
  <2>1. s # p /\ Started(s) /\ cmd[s].op = "agent use" /\ pc[s] = "done" /\ UseOf(s)
    BY <1>1, <1>3 DEF FileInv, Started
  <2>2. Excused(s) => Excused(s)' BY <1>1, <1>5, <2>1, ExcusesLast
  <2>3. Holds(s) => Holds(s)' BY <1>2 DEF Holds
  <2>4. ASSUME NEW q \in Savers(s), pc[q] # "done"
        PROVE  /\ q \in Procs /\ q # p /\ q \in Savers(s)' /\ pc'[q] # "done"
               /\ pc[q] \in Ended => Excused(s)'
               /\ pc[q] \notin Ended => Overlap(q, p)'
    <3>1. q \in Procs /\ q # p /\ Started(q) BY <1>2 DEF Savers, Started
    <3>2. q \in Savers(s)' BY <1>1, <1>5, <2>1, ExcusesLast
    <3>3. pc'[q] = pc[q] BY <1>3, <3>1
    <3>4. pc[q] \in Ended => Excused(s)' BY <2>4, <3>2, <3>3 DEF Excused, Ended
    <3>5. pc[q] \notin Ended => Overlap(q, p)'
      BY <1>3, <1>7, <3>1, <3>3 DEF Overlap, Started
    <3> QED BY <2>4, <3>1, <3>2, <3>3, <3>4, <3>5
  <2>5. Excused(s)' \/ Pending(s)' \/ Holds(s)'
    <3>1. Pending(s) => Pending(s)' BY <2>4 DEF Pending
    <3> QED BY <2>1, <2>2, <2>3, <3>1 DEF UseOf
  <2>6. ASSUME Saves(p)', pc'[p] \in Running
        PROVE  (mem'[p].secret = s /\ mem'[p].named) \/ Excused(s)'
    <3>1. p \in Savers(s)' BY <1>13, <2>1, <2>6
    <3>2. CASE Replaces(p)' \/ given.secret # Null BY <1>4, <3>1, <3>2 DEF Excused
    <3>3. CASE ~Replaces(p)' /\ given.secret = Null
      <4>1. op = "account login" BY <1>4, <2>6, <3>3 DEF Saves, Replaces
      <4>2. mem'[p].secret = read.secret /\ (read.named => mem'[p].named)
        BY <1>3, <2>6, <3>3, <4>1 DEF Running, KeysKept
      <4>3. CASE Holds(s)
        <5>1. read = Content /\ read.secret = s /\ s # Null BY <1>1, <4>3, ReadingFacts
        <5>2. read.named BY <1>1, <5>1 DEF Pairs
        <5> QED BY <4>2, <5>1, <5>2
      <4>4. CASE Excused(s) BY <2>2, <4>4
      <4>5. CASE Pending(s)
        <5>1. PICK q \in Savers(s) : pc[q] # "done" BY <4>5 DEF Pending
        <5> QED BY <2>4, <2>6, <5>1 DEF Excused
      <4> QED BY <2>1, <4>3, <4>4, <4>5 DEF UseOf
    <3> QED BY <3>2, <3>3
  <2>7. ASSUME NEW q \in Procs, q # p, s \in before'[q], Saves(q)', pc'[q] \in Running
        PROVE  (mem'[q].secret = s /\ mem'[q].named) \/ Excused(s)'
    <3>1. s \in before[q] /\ Saves(q) /\ pc[q] \in Running /\ mem'[q] = mem[q]
      BY <1>3, <2>7 DEF Saves, Replaces
    <3> QED BY <2>1, <2>2, <3>1 DEF UseOf
  <2> QED BY <2>5, <2>6, <2>7 DEF UseOf
<1>16. FileInv' BY <1>12, <1>14, <1>15 DEF FileInv
<1> QED BY <1>6, <1>8, <1>9, <1>11, <1>16 DEF IInv

\* The settings come from the file key by key, except for what is given.
LEMMA SettingsFacts ==
  ASSUME IInv, NEW read \in Readings, NEW token \in {Null, OldToken}, NEW given \in Given,
         NEW cfg, cfg = Settings(read, token, given)
  PROVE  /\ cfg \in Config /\ KeysKept(read, cfg)
         /\ cfg.agent # Null => read.agent # Null \/ given.agent # Null
         /\ given.secret = Null => cfg.secret = read.secret
         /\ Paired(cfg) \/ Covers(given, cfg)
<1> USE NameFacts, BlankFacts
<1>1. read \in Config /\ (read = Content \/ read = NoConfig)
  BY ReadingFacts DEF IInv
<1>2. given.agent \in Agents \cup {Null} /\ given.secret \in Secrets \cup {Null} BY DEF Given
<1>3. /\ cfg \in Config /\ cfg.named = read.named
      /\ cfg.agent = IF given.agent = Null THEN read.agent ELSE given.agent
      /\ cfg.secret = IF given.secret = Null THEN read.secret ELSE given.secret
  BY <1>1, <1>2 DEF Settings, Over, Config, Tokens
<1>4. Paired(read) BY <1>1 DEF IInv, Pairs, Paired
<1>5. CASE given = Nothing
  <2>1. cfg.agent = read.agent /\ cfg.secret = read.secret BY <1>3, <1>5
  <2>2. Paired(cfg) BY <1>4, <2>1 DEF Paired, Matched, GaveHalf, Covers
  <2> QED BY <1>3, <2>1, <2>2 DEF KeysKept
<1>6. CASE given # Nothing
  <2>1. Covers(given, cfg) BY <1>3, <1>6 DEF Covers
  <2> QED BY <1>3, <2>1 DEF KeysKept
<1> QED BY <1>5, <1>6

\* Every command line.
LEMMA LaunchStep ==
  ASSUME IInv, NEW p \in Procs, Launch(p)
  PROVE  IInv'
<1> USE NameFacts, BlankFacts
<1>1. PICK read \in Readings, token \in {Null, OldToken} :
         LET cfg == Settings(read, token, Nothing)
         IN  \/ \E given \in Environments :
                   \/ StartAccountLogin(p, Settings(read, Null, given), given)
                   \/ StartAgentCall(p, Settings(read, Null, given), given)
             \/ StartAgentCreate(p, cfg)
             \/ StartUserCall(p, cfg)
             \/ StartLogout(p, cfg)
             \/ \E a \in KnownAgents, s \in shown : StartLogin(p, cfg, a, s)
             \/ \E a \in KnownAgents :
                   \/ StartAgentUse(p, cfg, a)
                   \/ StartAgentRotateSecret(p, cfg, a)
                   \/ StartAgentDelete(p, cfg, a)
  BY DEF Launch
<1>2. PICK cfg \in Config :
         /\ cfg = Settings(read, token, Nothing) /\ KeysKept(read, cfg)
         /\ cfg.agent # Null => read.agent # Null \/ Nothing.agent # Null
         /\ Nothing.secret = Null => cfg.secret = read.secret
         /\ Paired(cfg)
  BY SettingsFacts DEF Covers
<1>3. \A s \in shown : s \in Secrets /\ s # Null /\ Settled(s) BY DEF IInv, TypeOK, Pairs, Secrets
<1>4. \A s \in shown : IssuedFor(s) \in Agents \cup {Null}
  <2>1. ASSUME NEW s \in Procs, Started(s) PROVE cmd[s].agent \in Agents \cup {Null}
    <3>1. cmd[s] \in Command BY <2>1 DEF IInv, TypeOK, Control, ControlOf, Started
    <3> QED BY <3>1 DEF Command
  <2> QED BY <1>3, <2>1 DEF IssuedFor, Settled
<1>5. \A a \in KnownAgents : a \in Agents \cup {Null} BY <1>4 DEF KnownAgents
\* The commands whose snapshot is what they have read.
<1>6. ASSUME NEW given \in Environments,
             \/ StartAccountLogin(p, Settings(read, Null, given), given)
             \/ StartAgentCall(p, Settings(read, Null, given), given)
      PROVE  IInv'
  <2>1. given \in Given BY CliAssumption
  <2>2. PICK new \in Config :
           /\ new = Settings(read, Null, given) /\ KeysKept(read, new)
           /\ new.agent # Null => read.agent # Null \/ given.agent # Null
           /\ given.secret = Null => new.secret = read.secret
           /\ Paired(new) \/ Covers(given, new)
    BY <2>1, SettingsFacts
  <2>3. PICK op \in {"account login", "agent call"}, step \in {"request", "failed"} :
           Start(p, op, Null, given, step, new)
    BY <1>6, <2>2 DEF StartAccountLogin, StartAgentCall
  <2>4. op \in Operations BY DEF Operations
  <2>5. op \notin {"login", "logout"} /\ step \in {"info", "request", "stat", "failed"}
         /\ step # "stat"
    OBVIOUS
  <2> QED BY <2>1, <2>2, <2>3, <2>4, <2>5, StartStep
<1>7. ASSUME NEW a \in KnownAgents, StartAgentUse(p, cfg, a) PROVE IInv'
  <2>1. PICK step \in {"info", "failed"} : Start(p, "agent use", a, Nothing, step, cfg)
    BY <1>7 DEF StartAgentUse, TokenGuard
  <2>2. "agent use" \in Operations /\ Nothing \in Given BY DEF Operations
  <2>3. /\ step \in {"info", "request", "stat", "failed"} /\ step # "stat"
        /\ "agent use" \notin {"login", "logout"}
    OBVIOUS
  <2>4. a \in Agents \cup {Null} BY <1>5
  <2> QED BY <1>2, <2>1, <2>2, <2>3, <2>4, StartStep
\* The commands that keep nothing of it.
<1>8. ASSUME NEW op \in {"agent create", "agent rotate-secret", "agent delete", "user call"},
             NEW agent \in Agents \cup {Null}, StartAsUser(p, cfg, op, agent)
      PROVE  IInv'
  <2>1. PICK step \in {"request", "failed"} : Start(p, op, agent, Nothing, step, NoConfig)
    BY <1>8 DEF StartAsUser, TokenGuard
  <2>2. op \in Operations BY DEF Operations
  <2>3. Paired(NoConfig) BY DEF Paired
  <2> QED BY <2>1, <2>2, <2>3, StartStep
<1>9. CASE StartAgentCreate(p, cfg) \/ StartUserCall(p, cfg)
  BY <1>8, <1>9 DEF StartAgentCreate, StartUserCall
<1>10. ASSUME NEW a \in KnownAgents, StartAgentRotateSecret(p, cfg, a) \/ StartAgentDelete(p, cfg, a)
       PROVE  IInv'
  BY <1>5, <1>8, <1>10 DEF StartAgentRotateSecret, StartAgentDelete
<1>11. CASE StartLogout(p, cfg)
  <2>1. PICK new : new = Cleared(cfg) OBVIOUS
  <2>2. new \in Config /\ new.agent = Null /\ new.secret = Null /\ new.token = Null
    BY <2>1 DEF Config, Cleared
  <2>3. Start(p, "logout", Null, Nothing, "stat", new) BY <1>11, <2>1 DEF StartLogout
  <2>4. Paired(new) BY <2>2 DEF Paired, Matched
  <2> QED BY <2>2, <2>3, <2>4, StartStep DEF Operations
<1>12. ASSUME NEW a \in KnownAgents, NEW s \in shown, StartLogin(p, cfg, a, s) PROVE IInv'
  <2>1. PICK new : new = WithIdentity(cfg, a, s) OBVIOUS
  <2>2. PICK given : given = [agent |-> a, secret |-> s] OBVIOUS
  <2>3. new \in Config /\ new.agent = a /\ new.secret = s
    BY <1>3, <1>5, <2>1 DEF Config, WithIdentity
  <2>4. given \in Given /\ given.agent = a /\ given.secret = s /\ given # Nothing
    BY <1>3, <1>5, <2>2 DEF Given
  <2>5. Start(p, "login", Null, given, "stat", new) BY <1>12, <2>1, <2>2 DEF StartLogin
  <2>6. Covers(given, new) BY <2>3, <2>4 DEF Covers
  <2> QED BY <2>3, <2>4, <2>5, <2>6, StartStep DEF Operations
<1> QED BY <1>1, <1>2, <1>6, <1>7, <1>9, <1>10, <1>11, <1>12

-----------------------------------------------------------------------------
(* Theorems.                                                               *)

\* One step per action.
LEMMA StepHolds == IInv /\ [Next]_vars => IInv'
<1> SUFFICES ASSUME IInv, [Next]_vars PROVE IInv' OBVIOUS
<1>1. ASSUME NEW p \in Procs, Launch(p) PROVE IInv' BY <1>1, LaunchStep
<1>2. ASSUME NEW p \in Procs, Truncate(p) \/ Create(p) PROVE IInv'
  BY <1>2, OpenStep DEF Truncate, Create
<1>3. ASSUME NEW p \in Procs, Step(p) PROVE IInv'
  BY <1>2, <1>3, AskInfoStep, RequestStep, ReceiveStep, StatStep, FillStep DEF Step
<1>4. ASSUME NEW p \in Procs, Stop(p) PROVE IInv' BY <1>4, StopStep
<1>5. CASE UNCHANGED vars
  <2>1. TypeOK' /\ SecretsTraced'
    BY <1>5 DEF vars, IInv, TypeOK, SecretsTraced, Started
  <2>2. Control' BY <1>5 DEF vars, IInv, Control, ControlOf, Saves, Replaces
  <2>3. Pairs'
    <3>1. \A cfg : Paired(cfg) => Paired(cfg)'
      BY <1>5 DEF vars, Paired, Matched, Settled, IssuedFor, Started, GaveHalf
    <3>2. Content' = Content BY <1>5 DEF vars, Content
    <3>3. PICK c : c = Content OBVIOUS
    <3>4. Paired(Content)' BY <3>1, <3>2, <3>3 DEF IInv, Pairs
    <3>5. ASSUME NEW p \in Procs PROVE Paired(mem[p])'
      <4>1. PICK m : m = mem[p] OBVIOUS
      <4> QED BY <1>5, <3>1, <4>1 DEF vars, IInv, Pairs
    <3> QED BY <1>5, <3>2, <3>4, <3>5 DEF vars, IInv, Pairs, Settled, Started
  <2>4. FileInv'
    <3>1. \A p \in Procs : Savers(p)' = Savers(p)
      BY <1>5 DEF vars, Savers, Started, Saves, Replaces
    <3>2. \A p, q \in Procs : Overlap(p, q)' <=> Overlap(p, q)
      BY <1>5 DEF vars, Overlap, Started
    <3>3. \A p \in Procs : /\ Saves(p)' <=> Saves(p)
                           /\ Replaces(p)' <=> Replaces(p)
                           /\ Holds(p)' <=> Holds(p)
      BY <1>5 DEF vars, Saves, Replaces, Holds
    <3>4. ASSUME NEW p \in Procs
          PROVE  /\ Undone(p)' <=> Undone(p)
                 /\ Excused(p)' <=> Excused(p)
                 /\ Pending(p)' <=> Pending(p)
      <4>1. \A q \in Savers(p) : q \in Procs BY DEF Savers
      <4>2. Undone(p)' <=> Undone(p) BY <1>5, <3>1, <3>2, <4>1 DEF vars, Undone
      <4>3. Excused(p)' <=> Excused(p) BY <1>5, <3>1, <3>2, <3>3, <4>1 DEF vars, Excused
      <4>4. Pending(p)' <=> Pending(p) BY <1>5, <3>1, <4>1 DEF vars, Pending
      <4> QED BY <4>2, <4>3, <4>4
    <3>5. ASSUME NEW p \in Procs PROVE LogoutOf(p)'
      BY <1>5, <3>1, <3>3, <3>4 DEF vars, IInv, FileInv, LogoutOf, Content, Started
    <3>6. ASSUME NEW p \in Procs PROVE OpenedOf(p)'
      BY <1>5, <3>2, <3>3 DEF vars, IInv, FileInv, OpenedOf
    <3>7. ASSUME NEW p \in Procs PROVE UseOf(p)'
      BY <1>5, <3>3, <3>4 DEF vars, IInv, FileInv, UseOf, Started
    <3> QED BY <3>5, <3>6, <3>7 DEF FileInv
  <2> QED BY <2>1, <2>2, <2>3, <2>4 DEF IInv
<1> QED BY <1>1, <1>3, <1>4, <1>5 DEF Next, Idle

\* The invariant holds in every reachable state.
THEOREM Invariance == Spec => []IInv
BY InitHolds, StepHolds, PTL DEF Spec

\* The file is missing, empty or a configuration, and every snapshot is a
\* configuration (saveConfig, main).
THEOREM TypeCorrect == Spec => []TypeOK
<1>1. IInv => TypeOK BY DEF IInv
<1> QED BY <1>1, Invariance, PTL

\* If the file or a process pairs an agent with another agent's secret, the agent
\* or the secret stood in the environment of some command, or the pair was typed
\* (saveConfig, agent use, login, AutomaticEnv).
THEOREM PairsBelongTogether == Spec => []PairConsistent
<1>1. IInv => PairConsistent
  BY DEF IInv, Pairs, Paired, Matched, PairConsistent, PairExplained
<1> QED BY <1>1, Invariance, PTL

\* Whatever brings an identity back after a logout is another command that
\* saves (clearAgentCreds, saveConfig).
THEOREM LogoutsHold == Spec => []LogoutHolds
<1>1. IInv => LogoutHolds
  BY DEF IInv, FileInv, LogoutOf, LogoutHolds, Undone, Savers
<1> QED BY <1>1, Invariance, PTL

\* The current secret of an agent is out of the user's reach only for the
\* reasons LockOutExplained names (agent use, saveConfig).
THEOREM LockOutsExplained == Spec => []LockOutExplained
<1>1. IInv => LockOutExplained
  <2> SUFFICES ASSUME IInv, NEW a \in Agents,
                      secrets[a] \notin shown \cup {Null, Content.secret},
                      pc[secrets[a]] = "done"
               PROVE  \E q \in Procs \ {secrets[a]} :
                         /\ Started(q) /\ Saves(q) /\ q \notin before[secrets[a]]
                         /\ \/ Replaces(q)
                            \/ cmd[q].given.secret # Null
                            \/ pc[q] # "done"
                            \/ \E w \in Procs : Overlap(q, w) /\ Saves(w)
    BY DEF LockOutExplained
  <2> PICK s : s = secrets[a] OBVIOUS
  <2>1. /\ s \in Procs /\ Started(s)
        /\ cmd[s].op \in {"agent create", "agent use", "agent rotate-secret"}
    BY DEF IInv, SecretsTraced
  <2>2. cmd[s].op = "agent use" BY <2>1 DEF IInv, Control, ControlOf
  <2>3. ~Holds(s) BY ContentFacts DEF IInv, Holds
  <2>4. Excused(s) \/ Pending(s) BY <2>1, <2>2, <2>3 DEF IInv, FileInv, UseOf
  <2>5. CASE Excused(s) BY <2>5 DEF Excused, Savers
  <2>6. CASE Pending(s) BY <2>6 DEF Pending, Savers
  <2> QED BY <2>4, <2>5, <2>6
<1> QED BY <1>1, Invariance, PTL

=============================================================================
