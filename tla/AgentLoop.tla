------------------------------ MODULE AgentLoop ------------------------------
(***************************************************************************)
(* The research loop of one chat turn                                      *)
(* (src/backend/modules/literature_search/agent/loop.py with its guard in  *)
(* orchestration.py, its tools in tools.py and its auditor in              *)
(* grounding.py).                                                          *)
(*                                                                         *)
(* In each round the model streams text and may call tools; a round        *)
(* without tool calls ends the loop, and when the rounds run out, or the   *)
(* text is blank, one more synthesis without tools is forced.  What the    *)
(* model streams goes to the reader at once; "answer_reset" takes back     *)
(* what turned out not to be the answer.  The draft is then cleaned,       *)
(* audited, possibly replaced, and its citations are finalised.            *)
(*                                                                         *)
(* Variables, each a function on Streams (the requests that stream a       *)
(* turn):                                                                  *)
(*   stage   where the stream is; this module moves it from "model" to     *)
(*           "save", the module that saves the turn does the rest          *)
(*   loop    the locals of AgentLoop.run                                   *)
(*   bubble  the pieces of text that the reader has now                    *)
(* A piece of text is a record [kind, marks]: its aliases in order.        *)
(***************************************************************************)
EXTENDS Citations

CONSTANTS
    Streams,        \* the requests, one turn each
    Rounds,         \* max_iterations of each
    Budget,         \* tool_budget of each
    MaxSearches,    \* max_searches
    MaxIdenticalFailures,   \* MAX_IDENTICAL_FAILURES
    Modes,          \* the grounding modes each may run in
    Calls,          \* tool calls (name and arguments) the model may make
    Tool,           \* the name of the tool of each call
    MaxBatch,       \* bound: calls in one round
    MaxFound,       \* bound: evidence a call returns
    MaxMarks        \* bound: aliases a text of each cites

ASSUME LoopAssumption ==
    /\ Rounds \in [Streams -> Nat \ {0}]
    /\ Budget \in [Streams -> Nat]
    /\ Modes \in [Streams -> SUBSET {"off", "audit", "warn", "strict"}]
    /\ MaxMarks \in [Streams -> Nat]
    /\ {MaxSearches, MaxIdenticalFailures, MaxBatch, MaxFound} \subseteq Nat

VARIABLES stage, loop, bubble

loopVars == <<stage, loop, bubble>>

Piece(kind, marks) == [kind |-> kind, marks |-> marks]
NonAnswer == Piece("non_answer", << >>)
Narration == Piece("narration", << >>)
Failure   == Piece("failure", << >>)

NoAudit == [status |-> "none"]

(***************************************************************************)
(* The locals at the start of run: the registry is new, the guard has      *)
(* seen nothing, "history" holds the citations of earlier messages.        *)
(***************************************************************************)
Idle ==
    [mode |-> "off", history |-> << >>, registry |-> NewRegistry, round |-> 0,
     todo |-> << >>, used |-> 0, searches |-> 0, failures |-> [c \in Calls |-> 0],
     late |-> {}, draft |-> << >>, audit |-> NoAudit]

Started(mode, history) == [Idle EXCEPT !.mode = mode, !.history = history]

\* The texts a model can write: it cites aliases it was shown (of this turn or
\* of the history) or the next one, which it invents.
Known(l) ==
    Aliases(l.registry) \cup UNION {DOMAIN l.history[g].cites : g \in DOMAIN l.history}
Texts(s) ==
    UNION {[1..n -> Known(loop[s]) \cup {Len(loop[s].registry.manifest) + 1}] :
               n \in 0..MaxMarks[s]}

\* The reader's text after an answer_reset.
Reset == << >>

\* A new round takes back what the last one streamed.
Kept(s) == IF loop[s].round > 0 THEN Reset ELSE bubble[s]

Go(s, from, to) == stage[s] = from /\ stage' = [stage EXCEPT ![s] = to]

\* The draft is there: the guard's counts matter no more.
Drafted(l, draft) == [Started(l.mode, l.history) EXCEPT !.registry = l.registry, !.draft = draft]

(***************************************************************************)
(* A round of the model.                                                   *)
(***************************************************************************)
\* It streams an answer, perhaps after some narration of its process.
answers(s) ==
    \E marks \in Texts(s), kind \in {"answer", "narrated"} :
        /\ Go(s, "model", "audit")
        /\ loop' = [loop EXCEPT ![s] = Drafted(@, <<Piece(kind, marks)>>)]
        /\ bubble' = [bubble EXCEPT ![s] = Append(Kept(s), Piece(kind, marks))]

\* It stops without a word.
blank(s) ==
    /\ Go(s, "model", "force")
    /\ bubble' = [bubble EXCEPT ![s] = Kept(s)]
    /\ UNCHANGED loop

\* It calls tools, perhaps with some narration first.
calls_tools(s) ==
    /\ Go(s, "model", "tools")
    /\ \E n \in 1..MaxBatch : \E todo \in [1..n -> Calls] :
           loop' = [loop EXCEPT ![s].todo = todo]
    /\ \/ bubble' = [bubble EXCEPT ![s] = Append(Kept(s), Narration)]
       \/ bubble' = [bubble EXCEPT ![s] = Kept(s)]

(***************************************************************************)
(* The tool calls of the round, in order.  TurnGuard refuses some, and     *)
(* what a call that ran returned is registered or counted.                 *)
(***************************************************************************)
block_reason(l, c) ==
    \/ Tool[c] = "search" /\ l.searches >= MaxSearches
    \/ Tool[c] \in {"search", "paper_chunks"} /\ Tool[c] \in l.late
    \/ l.failures[c] >= MaxIdenticalFailures

CallRefused(s) == loop[s].used >= Budget[s] \/ block_reason(loop[s], Head(loop[s].todo))

\* The first call is dealt with and left the locals l; the round, and the loop,
\* may be over.
Called(s, l) ==
    LET rest == Tail(l.todo)
        round == IF rest = << >> THEN l.round + 1 ELSE l.round
    IN  /\ Go(s, "tools", IF rest # << >> THEN "tools"
                          ELSE IF round < Rounds[s] THEN "model" ELSE "force")
        /\ loop' = [loop EXCEPT ![s] = [l EXCEPT !.todo = rest, !.round = round]]
        /\ UNCHANGED bubble

skip(s) == stage[s] = "tools" /\ CallRefused(s) /\ Called(s, loop[s])

Counted(l, c) ==
    [l EXCEPT !.used = @ + 1,
              !.searches = IF Tool[c] = "search" THEN @ + 1 ELSE @]

\* The call returns evidence, which gets its aliases.
succeeds(s) ==
    /\ stage[s] = "tools" /\ ~ CallRefused(s)
    /\ \E n \in 0..MaxFound : \E items \in [1..n -> Evidence] :
           Called(s, [Counted(loop[s], Head(loop[s].todo)) EXCEPT
                         !.registry = register_tool_evidence(@, items)])

\* The call fails, perhaps because its time is up.
fails(s) ==
    /\ stage[s] = "tools" /\ ~ CallRefused(s)
    /\ LET c == Head(loop[s].todo)
       IN  \E late \in SUBSET {Tool[c]} :
               Called(s, [Counted(loop[s], c) EXCEPT
                             !.failures[c] = @ + 1, !.late = @ \cup late])

(***************************************************************************)
(* The forced synthesis: what was streamed is taken back, and what the     *)
(* model writes now, if anything, is the draft.                            *)
(***************************************************************************)
Synthesis(s) == Reset

Drafts(s) == {<< >>} \cup {<<Piece(k, m)>> : k \in {"answer", "narrated"}, m \in Texts(s)}

force(s) ==
    \E draft \in Drafts(s) :
        /\ Go(s, "force", "audit")
        /\ loop' = [loop EXCEPT ![s] = Drafted(@, draft)]
        /\ bubble' = [bubble EXCEPT ![s] = Synthesis(s) \o draft]

\* A model call fails: handle_chat appends a failure message to what was
\* streamed so far, and the turn is saved without an audit.
model_fails(s) ==
    \E partial \in {<< >>, <<Narration>>} :
        /\ stage[s] \in {"model", "force"}
        /\ stage' = [stage EXCEPT ![s] = "save"]
        /\ loop' = [loop EXCEPT ![s] = Idle]
        /\ bubble' = [bubble EXCEPT ![s] =
               (IF stage[s] = "model" THEN Kept(s) ELSE Synthesis(s)) \o partial \o <<Failure>>]

(***************************************************************************)
(* The audit of the draft.                                                 *)
(***************************************************************************)
\* _strip_process_narration.
Cleaned(draft) == [i \in DOMAIN draft |-> Piece("answer", draft[i].marks)]

Available(l) == l.registry.manifest # << >> \/ l.history # << >>

\* What run_grounding may return: nothing, or a permission, whether a claim
\* oversteps the evidence, and a rewritten answer ("<< >>" when there is none).
NoGrounding == [permission |-> "none", oversteps |-> FALSE, rewritten |-> << >>]
NotAnswerable == [NoGrounding EXCEPT !.permission = "not_answerable"]

run_grounding(s, l) ==
    IF l.mode = "off" THEN {NoGrounding}
    ELSE IF ~ Available(l) THEN {NotAnswerable}
    ELSE IF l.mode = "audit" THEN {NoGrounding}
    ELSE {NoGrounding} \cup
         [permission : {"grounded", "partially_grounded", "not_answerable"},
          oversteps : BOOLEAN,
          rewritten : {<< >>} \cup {<<Piece("answer", m)>> : m \in Texts(s)}]

needs_rewrite(l, g) ==
    /\ l.mode = "strict"
    /\ g.rewritten # << >>
    /\ g.permission # "grounded" \/ g.oversteps

\* Mutant: only strict mode replaces an answer without any evidence.
BugGated(l, g) ==
    IF l.mode = "strict" /\ g.permission = "not_answerable" THEN <<NonAnswer>>
    ELSE Cleaned(l.draft)

\* The text that passes the gate.
Gated(l, g) ==
    CASE g.permission = "not_answerable" ->
             IF g.rewritten # << >> THEN g.rewritten ELSE <<NonAnswer>>
      [] g.permission # "not_answerable" /\ needs_rewrite(l, g) -> g.rewritten
      [] OTHER -> Cleaned(l.draft)

MarksOf(text) == IF text = << >> THEN << >> ELSE text[1].marks

Finalized(l, text) == finalize_answer(l.registry, l.history, MarksOf(text))

Final(text, f) == [i \in DOMAIN text |-> Piece(text[i].kind, f.answer)]

audit_status(l, g, f) ==
    IF g = NoGrounding /\ l.mode \in {"warn", "strict"} THEN "unverified"
    ELSE IF f.missing # {} THEN "unverified"
    ELSE IF g = NoGrounding /\ Available(l) /\ f.answer = << >> THEN "uncited"
    ELSE IF g = NoGrounding /\ l.mode = "audit" THEN "verified"
    ELSE IF g = NoGrounding THEN "off"
    ELSE IF l.mode = "strict" THEN "verified" ELSE "advisory"

\* Whatever differs from what was streamed replaces it, after an answer_reset.
Shown(s, l, gated, final) ==
    IF l.draft # Cleaned(l.draft) \/ gated # Cleaned(l.draft) \/ final # gated
    THEN Reset \o final
    ELSE bubble[s]

audit(s) ==
    LET l == loop[s]
    IN  \E g \in run_grounding(s, l) :
            LET gated == Gated(l, g)
                f == Finalized(l, gated)
                final == Final(gated, f)
            IN  /\ Go(s, "audit", "save")
                /\ bubble' = [bubble EXCEPT ![s] = Shown(s, l, gated, final)]
                /\ loop' = [loop EXCEPT ![s].draft = gated, ![s].audit =
                       [status |-> audit_status(l, g, f), text |-> final,
                        rows |-> f.rows, reused |-> f.reused, missing |-> f.missing]]

LoopStep(s) ==
    \/ answers(s) \/ blank(s) \/ calls_tools(s)
    \/ skip(s) \/ succeeds(s) \/ fails(s)
    \/ force(s) \/ model_fails(s) \/ audit(s)

=============================================================================
