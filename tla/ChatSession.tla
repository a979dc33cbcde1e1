----------------------------- MODULE ChatSession -----------------------------
(***************************************************************************)
(* The turns, messages and citations of one chat session, written by       *)
(* requests that overlap (src/backend/api/chat_router.py,                  *)
(* src/backend/core/session_store.py and handle_chat in                    *)
(* src/backend/modules/literature_search/module.py).                       *)
(*                                                                         *)
(* A request creates a turn, appends the user's message, reads the         *)
(* citations of earlier messages, streams its answer (AgentLoop, or a      *)
(* plain chat), saves it with its audit, records its citations one         *)
(* transaction at a time, and settles the turn.  The client may delete     *)
(* the newest turn meanwhile, and a request may die between any two steps: *)
(* the connection is closed, the server stops, or the database raises      *)
(* outside the handler's try block.                                        *)
(*                                                                         *)
(* Variables beside those of AgentLoop:                                    *)
(*   turn      status of the turn row of each request                      *)
(*   created   the turn rows there are, oldest first                       *)
(*   message   the assistant's message row of each                         *)
(*   citations rows of each message: alias -> evidence                     *)
(*   recent    the messages with rows, the one with the newest row first   *)
(*   deletes, deaths   how often each has happened                         *)
(***************************************************************************)
EXTENDS AgentLoop

CONSTANTS
    MaxDeletes,     \* bound: turns the client deletes
    MaxDeaths       \* bound: requests that die

ASSUME ChatAssumption == MaxDeletes \in Nat /\ MaxDeaths \in Nat

VARIABLES turn, created, message, citations, recent, deletes, deaths

chat_vars == <<stage, loop, bubble, turn, created, message, citations, recent, deletes, deaths>>
rows == <<turn, created, message, citations, recent>>
counts == <<deletes, deaths>>

NoMessage == [text |-> << >>, error |-> FALSE, audit |-> NoAudit]

ChatInit ==
    /\ stage = [s \in Streams |-> "idle"]
    /\ loop = [s \in Streams |-> Idle]
    /\ bubble = [s \in Streams |-> << >>]
    /\ turn = [s \in Streams |-> "none"]
    /\ created = << >>
    /\ message = [s \in Streams |-> NoMessage]
    /\ citations = [s \in Streams |-> << >>]
    /\ recent = << >>
    /\ deletes = 0 /\ deaths = 0

Exists(s) == \E i \in DOMAIN created : created[i] = s

(***************************************************************************)
(* Before the stream: the turn, the user's message and the context.        *)
(***************************************************************************)
create_turn(s) ==
    /\ Go(s, "idle", "created")
    /\ turn' = [turn EXCEPT ![s] = "running"]
    /\ created' = Append(created, s)
    /\ UNCHANGED <<loop, bubble, message, citations, recent, counts>>

\* get_context after the user's message: the messages that have citations.
recent_citations == [i \in DOMAIN recent |-> [message |-> recent[i], cites |-> citations[recent[i]]]]

get_context(s) ==
    \E mode \in Modes[s] :
        /\ Go(s, "created", "routed")
        /\ loop' = [loop EXCEPT ![s] = Started(mode, recent_citations)]
        /\ UNCHANGED <<bubble, rows, counts>>

(***************************************************************************)
(* The route of the message: the research loop, or an answer without it.   *)
(* "error" is an error event, which fails the turn.                        *)
(***************************************************************************)
Answered(s, pieces, to) ==
    /\ Go(s, "routed", to)
    /\ loop' = [loop EXCEPT ![s] = Idle]
    /\ bubble' = [bubble EXCEPT ![s] = pieces]
    /\ UNCHANGED <<rows, counts>>

research(s) ==
    /\ Go(s, "routed", "model")
    /\ UNCHANGED <<loop, bubble, rows, counts>>

Chat == <<Piece("chat", << >>)>>

plain_chat(s)   == Answered(s, Chat, "save")
chat_error(s)   == \E partial \in {<< >>, Chat} : Answered(s, partial, "save_failed")
llm_required(s) == Answered(s, <<Failure>>, "save")

\* The stream itself raises: what was streamed so far is saved as an error.
stream_raises(s) ==
    /\ stage[s] \in {"routed", "model", "tools", "force", "audit"}
    /\ stage' = [stage EXCEPT ![s] = "save_raised"]
    /\ loop' = [loop EXCEPT ![s] = Idle]
    /\ UNCHANGED <<bubble, rows, counts>>

research_step(s) == LoopStep(s) /\ UNCHANGED <<rows, counts>>

(***************************************************************************)
(* After the stream: the message, its citations, the status of the turn.   *)
(***************************************************************************)
\* Whether a message is saved, its text, and its error flag, for each way the
\* stream can have ended.
Saves(s) == bubble[s] # << >> \/ stage[s] = "save_failed"
Text(s) == IF bubble[s] # << >> THEN bubble[s] ELSE <<Piece("error", << >>)>>
IsError(s) == stage[s] = "save_raised" \/ bubble[s] = << >>

\* The rows to record with the message.
ToCite(s) == IF loop[s].audit = NoAudit THEN << >> ELSE loop[s].audit.rows

\* Where the request goes when it has nothing more to record.
Ending(s) == IF stage[s] \in {"save", "cite"} THEN "complete" ELSE "fail"
Cites(s) == Saves(s) /\ DOMAIN ToCite(s) # {}

\* Mutant: the turn is settled before its citations are recorded.
BugAfterSave(s) == Ending(s)

AfterSave(s) == IF Cites(s) THEN "cite" ELSE Ending(s)

append(s) ==
    /\ stage[s] \in {"save", "save_failed", "save_raised"}
    /\ stage' = [stage EXCEPT ![s] = AfterSave(s)]
    /\ message' = IF Saves(s)
                  THEN [message EXCEPT ![s] = [text |-> Text(s), error |-> IsError(s),
                                               audit |-> loop[s].audit]]
                  ELSE message
    /\ bubble' = [bubble EXCEPT ![s] = << >>]
    /\ loop' = IF AfterSave(s) = "cite" THEN loop ELSE [loop EXCEPT ![s] = Idle]
    /\ UNCHANGED <<turn, created, citations, recent, counts>>

\* The next row to record: one transaction each.
Uncited(s) == DOMAIN ToCite(s) \ DOMAIN citations[s]

Newest(m) == <<m>> \o SelectSeq(recent, LAMBDA other : other # m)

record_message_citation(s) ==
    LET a == Least(Uncited(s))
    IN  /\ stage[s] = "cite" /\ Uncited(s) # {}
        /\ message[s] # NoMessage /\ Exists(s)
        /\ citations' = [citations EXCEPT ![s] =
               [x \in DOMAIN @ \cup {a} |-> ToCite(s)[x]]]
        /\ recent' = Newest(s)
        /\ IF Uncited(s) = {a}
           THEN Go(s, "cite", "complete") /\ loop' = [loop EXCEPT ![s] = Idle]
           ELSE UNCHANGED <<stage, loop>>
        /\ UNCHANGED <<bubble, turn, created, message, counts>>

\* The message or the turn is gone: the foreign keys refuse the row, nobody
\* catches the error, and the request ends.
record_raises(s) ==
    /\ message[s] = NoMessage \/ ~ Exists(s)
    /\ Go(s, "cite", "raised")
    /\ loop' = [loop EXCEPT ![s] = Idle]
    /\ UNCHANGED <<bubble, rows, counts>>

\* complete_turn and fail_turn: an update that no longer finds a deleted turn.
SettledAs(s) == IF stage[s] = "complete" THEN "completed" ELSE "failed"

settle(s) ==
    /\ stage[s] \in {"complete", "fail"}
    /\ stage' = [stage EXCEPT ![s] = "done"]
    /\ turn' = IF Exists(s) THEN [turn EXCEPT ![s] = SettledAs(s)] ELSE turn
    /\ UNCHANGED <<loop, bubble, created, message, citations, recent, counts>>

dies(s) ==
    /\ deaths < MaxDeaths
    /\ stage[s] \notin {"idle", "done", "raised", "dead"}
    /\ stage' = [stage EXCEPT ![s] = "dead"]
    /\ deaths' = deaths + 1
    /\ loop' = [loop EXCEPT ![s] = Idle]
    /\ bubble' = [bubble EXCEPT ![s] = << >>]
    /\ UNCHANGED <<rows, deletes>>

(***************************************************************************)
(* The client deletes the newest turn, with its messages and citations,    *)
(* whether or not a request is still answering it.                         *)
(***************************************************************************)
\* The tables that delete_last_turn empties for the turn.
CitationsWithout(s) == [citations EXCEPT ![s] = << >>]

delete_last_turn ==
    /\ deletes < MaxDeletes /\ created # << >>
    /\ deletes' = deletes + 1
    /\ LET s == created[Len(created)]
       IN  /\ turn' = [turn EXCEPT ![s] = "deleted"]
           /\ created' = SubSeq(created, 1, Len(created) - 1)
           /\ message' = [message EXCEPT ![s] = NoMessage]
           /\ citations' = CitationsWithout(s)
           /\ recent' = SelectSeq(recent, LAMBDA m : m # s)
    /\ UNCHANGED <<stage, loop, bubble, deaths>>

ChatNext ==
    \/ \E s \in Streams :
           \/ create_turn(s) \/ get_context(s)
           \/ research(s) \/ plain_chat(s) \/ chat_error(s) \/ llm_required(s)
           \/ research_step(s) \/ stream_raises(s)
           \/ append(s) \/ record_message_citation(s) \/ record_raises(s) \/ settle(s)
           \/ dies(s)
    \/ delete_last_turn

ChatSpec == ChatInit /\ [][ChatNext]_chat_vars

(***************************************************************************)
(* Properties.                                                             *)
(***************************************************************************)
Steps == {"idle", "created", "routed", "model", "tools", "force", "audit", "save",
          "save_failed", "save_raised", "cite", "complete", "fail", "done", "raised", "dead"}

\* The locals of a loop: none gets past what its guard allows, and the aliases are
\* those of the evidence there is.
LocalsTyped(s, l) ==
    /\ DOMAIN l = DOMAIN Idle
    /\ l.round \in 0..Rounds[s] /\ l.used \in 0..Budget[s]
    /\ l.searches \in 0..MaxSearches
    /\ l.failures \in [Calls -> 0..MaxIdenticalFailures]
    /\ l.todo \in Seq(Calls)
    /\ l.registry.manifest \in Seq(Evidence)
    /\ l.registry.alias \in [Evidence -> {0} \cup Aliases(l.registry)]

\* The rows have their types, and the turn rows are those in "created".
ChatTypes ==
    /\ stage \in [Streams -> Steps]
    /\ turn \in [Streams -> {"none", "running", "completed", "failed", "deleted"}]
    /\ created \in Seq(Streams)
    /\ DOMAIN loop = Streams /\ DOMAIN bubble = Streams
    /\ DOMAIN message = Streams /\ DOMAIN citations = Streams
    /\ \A s \in Streams : Exists(s) <=> turn[s] \in {"running", "completed", "failed"}
    /\ \A s \in Streams : LocalsTyped(s, loop[s])

\* An alias stands for the evidence that got it first, or for evidence similar
\* to that one; compacting the aliases of an answer changes none of its
\* citations, and an alias of nothing is told as such (citations.py:100, 231).
AliasesAreTrue ==
    \A s \in Streams :
        LET l == loop[s]
        IN  /\ \A e \in Evidence : l.registry.alias[e] # 0 =>
                   LET primary == l.registry.manifest[l.registry.alias[e]]
                   IN  e = primary \/ <<e, primary>> \in Similar
            /\ l.audit # NoAudit =>
                   \A i \in DOMAIN MarksOf(l.draft) :
                       Told(l.audit, MarksOf(l.audit.text)[i]) =
                           Meaning(l.registry, l.history, MarksOf(l.draft)[i])

\* Evidence keeps its alias, and an alias its evidence, while the loop runs,
\* although the model has cited it by then (citations.py:117).
AliasesKept ==
    [][\A s \in Streams :
           stage[s] \in {"model", "tools", "force", "audit"} /\ stage'[s] \in {"tools", "force", "audit", "save"}
           => \/ loop'[s].registry = NewRegistry
              \/ \A a \in Aliases(loop[s].registry) :
                     loop'[s].registry.manifest[a] = loop[s].registry.manifest[a]]_chat_vars

\* A message with an audit is the very text that was audited: nothing that was
\* streamed before, and taken back, is in it.  A text of the model without an
\* audit is marked as an error (chat_router.py:86, 141; loop.py:210-355).
SavedIsAudited ==
    \A s \in Streams :
        LET m == message[s]
        IN  /\ m.audit # NoAudit => m.text = m.audit.text
            /\ (m.audit = NoAudit /\ ~ m.error) =>
                   \A i \in DOMAIN m.text : m.text[i].kind \notin {"answer", "narrated"}

\* What the audit promises: a verified answer cites nothing that is not there,
\* and in audit mode cites something; and without any evidence there is no
\* answer, unless the audit is off (loop.py:457; grounding.py:140).
AuditTells ==
    \A s \in Streams :
        LET l == loop[s]
        IN  l.audit # NoAudit =>
                /\ l.audit.status = "verified" =>
                       /\ \A a \in Cited(MarksOf(l.audit.text)) :
                              Told(l.audit, a) # Nothing
                       /\ l.mode = "audit" => MarksOf(l.audit.text) # << >>
                /\ (~ Available(l) /\ l.mode # "off") => l.audit.text = <<NonAnswer>>

\* A turn that is completed has all the citations its audit resolved, though
\* each was recorded in a transaction of its own, and citations outlive
\* neither their message nor their turn (chat_router.py:165; session_store.py
\* :364, 621).
CompletedIsCited ==
    \A s \in Streams :
        /\ (turn[s] = "completed" /\ message[s].audit # NoAudit) =>
               citations[s] = message[s].audit.rows
        /\ citations[s] # << >> => Exists(s) /\ message[s] # NoMessage

\* A turn is running only while a request answers it, or when that request has
\* died: no error that the handler or the database raises, and no deletion,
\* leaves a running turn behind (chat_router.py:127-170).
RunningIsServed ==
    \A s \in Streams : turn[s] = "running" => stage[s] \notin {"idle", "done", "raised"}

\* A text the model wrote, and a draft: nothing, or one piece with its aliases.
ModelText(text) == \E i \in DOMAIN text : text[i].kind \in {"answer", "narrated"}
IsDraft(text) ==
    \/ text = << >>
    \/ /\ text = <<Piece(text[1].kind, text[1].marks)>>
       /\ DOMAIN text[1].marks \subseteq Nat

\* What a stream relies on where it stands: the reader has nothing before the
\* first round, the draft before the audit, and then the audited text.
StreamInOrder(s) ==
    LET l == loop[s]
    IN  /\ stage[s] \in {"idle", "created", "routed"} => l.round = 0
        /\ stage[s] \in {"idle", "created", "routed", "model"} /\ l.round = 0 => bubble[s] = << >>
        /\ stage[s] \in {"model", "tools"} => l.round < Rounds[s]
        /\ stage[s] = "tools" => l.todo # << >>
        /\ stage[s] = "audit" => IsDraft(l.draft) /\ bubble[s] = l.draft
        /\ l.audit # NoAudit => stage[s] \in {"save", "cite"}
        /\ stage[s] = "save" =>
               IF l.audit = NoAudit THEN ~ ModelText(bubble[s]) ELSE bubble[s] = l.audit.text
        /\ stage[s] = "save_failed" => ~ ModelText(bubble[s])

\* What a request relies on about its rows: none but the turn before it saves,
\* then a part of the citations of its audit, then all of them; a message that
\* is missing went with its turn.
Unsaved == Steps \ {"cite", "complete", "fail", "done", "raised", "dead"}

RowsInOrder(s) ==
    LET resolved == loop[s].audit.rows
    IN  /\ stage[s] = "idle" <=> turn[s] = "none"
        /\ turn[s] = "completed" => stage[s] = "done"
        /\ stage[s] \in Unsaved => message[s] = NoMessage /\ citations[s] = << >>
        /\ loop[s].audit # NoAudit =>
               DOMAIN resolved \subseteq Nat /\ resolved = [a \in DOMAIN resolved |-> resolved[a]]
        /\ stage[s] = "cite" =>
               /\ loop[s].audit # NoAudit
               /\ IF message[s] = NoMessage THEN turn[s] = "deleted"
                  ELSE message[s].audit = loop[s].audit
               /\ Uncited(s) # {} /\ DOMAIN citations[s] \subseteq DOMAIN resolved
               /\ \A a \in DOMAIN citations[s] : citations[s][a] = resolved[a]
        /\ stage[s] = "complete" /\ message[s].audit # NoAudit =>
               citations[s] = message[s].audit.rows

\* A turn has one row, and streams and rows are as the requests rely on.
SessionOrder ==
    /\ \A i, j \in DOMAIN created : created[i] = created[j] => i = j
    /\ \A s \in Streams : StreamInOrder(s) /\ RowsInOrder(s)

\* Turns, messages and citations agree.
SessionInv == ChatTypes /\ SessionOrder /\ CompletedIsCited /\ RunningIsServed

\* The audit is of the text that is saved, and what it says of it is true.
AuditHolds == SavedIsAudited /\ AuditTells

=============================================================================
