-------------------------- MODULE EvidenceSelection --------------------------
(***************************************************************************)
(* From a search to the evidence a report rests on: build_packet with its  *)
(* repeated searches and select_evidence (literature_search/retrieval),    *)
(* the conversion of passages and assets into evidence cards and           *)
(* select_representative_evidence (evidence_workflow).                     *)
(*                                                                         *)
(* Both selections are loops over a ranked list with quotas, and each turn *)
(* of a loop is a step.  The lists are given in the order that sorting     *)
(* makes of them: a passage or a card is its position.  Scores of passages *)
(* are in tenths; the score of a card plays no part beyond the order, and  *)
(* any order is possible.  A sub-theme is what the passages of one paper   *)
(* are about.                                                              *)
(***************************************************************************)
EXTENDS Integers, Sequences, FiniteSets, SequencesExt

CONSTANTS
    Papers,
    Scores,         \* scores of passages, in tenths
    Texts,          \* what abstracts say: alike when next to each other
    MaxFound,       \* bound: passages of a search
    MaxAssets,      \* bound: figures linked to the passages
    MaxCards,       \* bound: cards
    PerArticle, LlmContext, PoolSize,  \* the budgets of the intent
    Asked,          \* the limits on papers a caller asks for
    MinPapers,      \* papers that are enough for the intent
    Broad,          \* the intent is a broad one
    Budgets,        \* the limits on cards that rank_evidence is given
    RequiredRoles,  \* of the task profile, in its order
    OtherRole       \* any role that is not required

ASSUME ConstantsAssumption ==
    /\ Scores \subseteq Nat /\ Texts \subseteq Nat
    /\ MaxFound \in Nat /\ MaxAssets \in Nat /\ MaxCards \in Nat
    /\ PerArticle \in Nat \ {0} /\ LlmContext \in Nat \ {0} /\ PoolSize \in Nat
    /\ Asked \subseteq Nat \ {0} /\ MinPapers \in Nat /\ Broad \in BOOLEAN
    /\ Budgets \subseteq Nat
    /\ RequiredRoles \in Seq({r : r \in ToSet(RequiredRoles)}) /\ RequiredRoles # <<>>
    /\ \A i, j \in DOMAIN RequiredRoles : i # j => RequiredRoles[i] # RequiredRoles[j]
    /\ OtherRole \notin ToSet(RequiredRoles)

VARIABLES
    pc,
    asked, attempts,          \* the limit asked for, searches made so far
    results, found,           \* the papers, their passages, the best first
    at,                       \* the turn of a loop
    pool, context,            \* select_evidence: the pool, the passages in context
    packet,                   \* what the packet says of itself
    seeds, cards,             \* passages and assets; cards in ranking order
    limit, reason, relaxed    \* select_representative_evidence

search_vars == <<asked, attempts, results, found, pool, context>>
card_vars == <<seeds, cards, limit, reason, relaxed>>
vars == <<pc, search_vars, at, packet, card_vars>>

Roles == ToSet(RequiredRoles) \cup {OtherRole}
Larger(a, b) == IF a < b THEN b ELSE a
Smaller(a, b) == IF a < b THEN a ELSE b

-----------------------------------------------------------------------------
(* The selection from a search.                                            *)

(* A passage has text 0 when it is not from an abstract.                   *)
Passages == [paper : Papers, score : Scores, text : Texts \cup {0}]

(* evidence_equivalent: abstracts of one paper that read almost alike.     *)
Equivalent(c, d) ==
    /\ c.paper = d.paper
    /\ c.text # 0 /\ d.text # 0
    /\ c.text - d.text \in -1 .. 1

(* _dedupe_scored: what is like something retained is passed over.         *)
Dedupes(K) ==
    \A i \in DOMAIN found : i \in K <=> \A k \in K : k < i => ~Equivalent(found[i], found[k])

Retained(i) == i \in CHOOSE K \in SUBSET DOMAIN found : Dedupes(K)

(* budgets_for.                                                            *)
SelectionPool == Larger(LlmContext, Smaller(PoolSize, asked))

PooledOf(p) == {i \in DOMAIN pool : found[pool[i].id].paper = p}

BugMayTake(i) == Retained(i) /\ Cardinality(PooledOf(found[i].paper)) <= PerArticle

MayTake(i) == Retained(i) /\ Cardinality(PooledOf(found[i].paper)) < PerArticle

(* A first passage of a paper is worth more, a later one less.             *)
SelectionScore(i) ==
    LET count == Cardinality(PooledOf(found[i].paper))
    IN  found[i].score + (IF count = 0 THEN 5 ELSE 0) - 3 * count

(* The stable sort of the pool.                                            *)
ByScore(s) ==
    LET before(i, j) == s[i].score > s[j].score \/ (s[i].score = s[j].score /\ i <= j)
        place(j) == CHOOSE i \in DOMAIN s : Cardinality({k \in DOMAIN s : before(k, i)}) = j
    IN  [j \in DOMAIN s |-> s[place(j)]]

ContextCap == IF LlmContext < Len(pool) THEN Larger(1, PerArticle - 1) ELSE PerArticle

InContextOf(p) == context \cap PooledOf(p)

-----------------------------------------------------------------------------
(* The selection of cards.                                                 *)

Cards == [paper : Papers, type : {"text", "figure"}, primary : Roles,
          secondary : SUBSET ToSet(RequiredRoles)]

Has(i, r) == cards[i].primary = r \/ r \in cards[i].secondary

Selected == {i \in DOMAIN reason : reason[i] # "none"}
SelectedOf(p) == {i \in Selected : cards[i].paper = p}
SelectedAs(t) == {i \in Selected : cards[i].type = t}

(* EvidenceRankingConfig.resolved: 40 and 60 per cent of the limit.        *)
MaxPerPaper == IF limit = 0 THEN 0 ELSE (2 * limit + 4) \div 5
MaxPerSource == IF limit = 0 THEN 0 ELSE (3 * limit + 4) \div 5

Full == Cardinality(Selected) >= limit

PaperFits(i) == Cardinality(SelectedOf(cards[i].paper)) < MaxPerPaper
SourceFits(i) == Cardinality(SelectedAs(cards[i].type)) < MaxPerSource

BugRoleOrder == Tail(RequiredRoles)

(* _selection_required_role_order: the first role of a profile,            *)
(* "background", comes last.                                               *)
RoleOrder == Tail(RequiredRoles) \o <<Head(RequiredRoles)>>

(* _best_for_role: cards of which it is the primary role come first.       *)
Better(i, j, r) ==
    LET secondary(k) == IF cards[k].primary = r THEN 0 ELSE 1
    IN  secondary(i) < secondary(j) \/ (secondary(i) = secondary(j) /\ i <= j)

Best(S, r) == CHOOSE i \in S : \A j \in S : Better(i, j, r)

-----------------------------------------------------------------------------
NoPacket == [status |-> "none", fallback |-> "none", limited |-> FALSE]
NoSeeds == [k \in Papers \X {"text", "figure"} |-> 0]

CardsOK ==
    /\ cards \in Seq(Cards) /\ at \in Nat \ {0}
    /\ limit \in 0 .. Len(cards) /\ relaxed \in BOOLEAN
    /\ reason \in [1 .. Len(cards) -> {"none", "role", "strict", "source", "any"}]

TypeOK ==
    /\ pc \in {"search", "take", "flag", "convert", "rank",
               "role", "strict", "source", "any", "done"}
    /\ asked \in Asked /\ attempts \in 0 .. 3
    /\ results \subseteq Papers
    /\ found \in Seq(Passages)
    /\ pool \in Seq([id : Nat, score : Int]) /\ \A i \in DOMAIN pool : pool[i].id \in DOMAIN found
    /\ context \subseteq DOMAIN pool
    /\ packet \in [status : {"none", "weak", "partial", "sufficient"},
                   fallback : {"none", "no_results", "vector", "low_evidence_count"},
                   limited : BOOLEAN]
    /\ seeds \in [Papers \X {"text", "figure"} -> Nat]
    /\ CardsOK

Init ==
    /\ pc = "search"
    /\ asked \in Asked /\ attempts = 0
    /\ results = {} /\ found = <<>> /\ at = 1 /\ pool = <<>> /\ context = {}
    /\ packet = NoPacket
    /\ seeds = NoSeeds /\ cards = <<>> /\ limit = 0 /\ reason = <<>> /\ relaxed = FALSE

Ordered(s) == \A i \in 1 .. Len(s) - 1 : s[i].score >= s[i + 1].score

(* The first search and, while no paper is found, up to MAX_RECOVERY more. *)
(* A paper may be found without a passage.                                 *)
search ==
    /\ pc = "search"
    /\ attempts' = attempts + 1
    /\ \E R \in SUBSET Papers : \E n \in 0 .. MaxFound : \E s \in [1 .. n -> Passages] :
         /\ Cardinality(R) <= asked
         /\ \A i \in 1 .. n : s[i].paper \in R
         /\ Ordered(s)
         /\ results' = R /\ found' = s
         /\ pc' = IF R = {} /\ attempts' < 3 THEN "search" ELSE "take"
    /\ UNCHANGED <<asked, at, pool, context, packet, card_vars>>

(* A turn of the loop of select_evidence.                                  *)
take ==
    /\ pc = "take" /\ at <= Len(found) /\ Len(pool) < SelectionPool
    /\ at' = at + 1
    /\ pool' = IF MayTake(at) THEN Append(pool, [id |-> at, score |-> SelectionScore(at)]) ELSE pool
    /\ UNCHANGED <<pc, asked, attempts, results, found, context, packet, card_vars>>

sort_pool ==
    /\ pc = "take" /\ (at > Len(found) \/ Len(pool) >= SelectionPool)
    /\ pool' = ByScore(pool)
    /\ at' = 1 /\ pc' = "flag"
    /\ UNCHANGED <<asked, attempts, results, found, context, packet, card_vars>>

(* The passages that enter the model's context: first a few of each paper, *)
(* then whatever comes.                                                    *)
flag ==
    /\ pc = "flag" /\ at <= Len(pool) /\ Cardinality(context) < LlmContext
    /\ at' = at + 1
    /\ context' = IF Cardinality(InContextOf(found[pool[at].id].paper)) < ContextCap
                  THEN context \cup {at} ELSE context
    /\ UNCHANGED <<pc, asked, attempts, results, found, pool, packet, card_vars>>

top_up ==
    /\ pc = "flag" /\ at > Len(pool)
    /\ Cardinality(context) < LlmContext /\ context # DOMAIN pool
    /\ context' = context \cup {Min(DOMAIN pool \ context)}
    /\ UNCHANGED <<pc, asked, attempts, results, found, at, pool, packet, card_vars>>

(* judge_coverage: the papers of the pool, and less when the evidence has  *)
(* a gap (no result or table, nothing recent) or is adjacent to the topic. *)
Status(gap, adjacent) ==
    LET papers == Cardinality({found[pool[i].id].paper : i \in DOMAIN pool})
        base == IF papers >= MinPapers THEN "sufficient"
                ELSE IF papers >= Larger(1, MinPapers - 1) THEN "partial" ELSE "weak"
    IN  IF pool = <<>> THEN "none"
        ELSE IF base # "sufficient" THEN base
        ELSE IF gap THEN "partial"
        ELSE IF adjacent THEN (IF papers >= 2 THEN "partial" ELSE "weak")
        ELSE base

(* The fallback reason of the packet.                                      *)
Fallback(status, vector_unavailable) ==
    IF results = {} THEN "no_results"
    ELSE IF vector_unavailable THEN "vector"
    ELSE IF status \in {"weak", "none"} THEN "low_evidence_count" ELSE "none"

(* judge_breadth: a broad question is answered from a sample.              *)
BreadthLimited(lower_bound) ==
    /\ Broad /\ Len(found) > Cardinality(context)
    /\ lower_bound \/ \E p \in Papers : PooledOf(p) # {} /\ InContextOf(p) = {}

judge ==
    /\ pc = "flag"
    /\ Cardinality(context) >= LlmContext \/ context = DOMAIN pool
    /\ \E gap, adjacent, vector_unavailable, lower_bound \in BOOLEAN :
         packet' = [status |-> Status(gap, adjacent),
                    fallback |-> Fallback(Status(gap, adjacent), vector_unavailable),
                    limited |-> BreadthLimited(lower_bound)]
    /\ pc' = "convert"
    /\ UNCHANGED <<search_vars, at, card_vars>>

(* retrieve_source_candidates and create_evidence_seeds: the passages of   *)
(* the pool and, of every passage that was found, the linked figures.  The *)
(* rest of the packet is filed and not read again.                         *)
convert ==
    /\ pc = "convert"
    /\ \E linked \in SUBSET DOMAIN found :
         /\ Cardinality(linked) <= MaxAssets
         /\ seeds' = [k \in DOMAIN NoSeeds |->
                        IF k[2] = "text" THEN Cardinality(PooledOf(k[1]))
                        ELSE Cardinality({i \in linked : found[i].paper = k[1]})]
    /\ pc' = "rank"
    /\ attempts' = 0 /\ results' = {} /\ found' = <<>> /\ at' = 1 /\ pool' = <<>> /\ context' = {}
    /\ packet' = NoPacket
    /\ UNCHANGED <<asked, cards, limit, reason, relaxed>>

(* Extraction, enrichment and ranking, a card at a time in the order of    *)
(* the ranking: the classifier gives it its roles.                         *)
rank_card ==
    /\ pc = "rank" /\ Len(cards) < MaxCards
    /\ \E c \in Cards :
         /\ seeds[<<c.paper, c.type>>] > 0
         /\ c.primary \notin c.secondary
         /\ cards' = Append(cards, c)
         /\ reason' = Append(reason, "none")
         /\ seeds' = [seeds EXCEPT ![<<c.paper, c.type>>] = @ - 1]
    /\ UNCHANGED <<pc, search_vars, at, packet, limit, relaxed>>

(* What is left had no text, or its card did not validate.                 *)
resolve_config ==
    /\ pc = "rank"
    /\ seeds' = NoSeeds
    /\ \E b \in Budgets : limit' = Smaller(b, Len(cards))
    /\ pc' = "role"
    /\ UNCHANGED <<search_vars, at, packet, cards, reason, relaxed>>

Take(i, why) == reason' = [reason EXCEPT ![i] = why]

(* A turn of the loop over the required roles.                             *)
select_role ==
    /\ pc = "role" /\ at <= Len(RoleOrder)
    /\ at' = at + 1
    /\ LET r == RoleOrder[at]
           having == {i \in DOMAIN cards : Has(i, r)}
           free == having \ Selected
           fitting == {i \in free : PaperFits(i) /\ SourceFits(i)}
       IN  IF having = {} \/ Full THEN UNCHANGED <<reason, relaxed>>
           ELSE IF fitting # {} THEN Take(Best(fitting, r), "role") /\ UNCHANGED relaxed
           ELSE /\ relaxed' = TRUE
                /\ IF free = {} THEN UNCHANGED reason ELSE Take(Best(free, r), "role")
    /\ UNCHANGED <<pc, search_vars, packet, seeds, cards, limit>>

(* The three loops that fill the budget: within both quotas, within that   *)
(* of the paper, without any.                                              *)
Fits(i) ==
    CASE pc = "strict" -> PaperFits(i) /\ SourceFits(i)
      [] pc = "source" -> PaperFits(i)
      [] OTHER -> TRUE

select_card ==
    /\ pc \in {"strict", "source", "any"} /\ at <= Len(cards) /\ ~Full
    /\ at' = at + 1
    /\ IF at \notin Selected /\ Fits(at)
       THEN Take(at, pc) /\ relaxed' = (relaxed \/ pc # "strict")
       ELSE UNCHANGED <<reason, relaxed>>
    /\ UNCHANGED <<pc, search_vars, packet, seeds, cards, limit>>

next_loop ==
    /\ \/ pc = "role" /\ at > Len(RoleOrder)
       \/ pc \in {"strict", "source", "any"} /\ (at > Len(cards) \/ Full)
    /\ pc' = IF Full THEN "done"
             ELSE CASE pc = "role" -> "strict" [] pc = "strict" -> "source"
                    [] pc = "source" -> "any" [] OTHER -> "done"
    /\ at' = 1
    /\ UNCHANGED <<search_vars, packet, card_vars>>

Next ==
    \/ search \/ take \/ sort_pool \/ flag \/ top_up \/ judge
    \/ convert \/ rank_card \/ resolve_config \/ select_role \/ select_card \/ next_loop

Spec == Init /\ [][Next]_vars

-----------------------------------------------------------------------------
(* Properties.                                                             *)

(* One paper never takes the pool over, near duplicates included: the cap  *)
(* is hard.                                                                *)
HardCap == \A p \in Papers : Cardinality(PooledOf(p)) <= PerArticle

NoDuplicates == \A i, j \in DOMAIN pool : i # j => ~Equivalent(found[pool[i].id], found[pool[j].id])

(* What the pool passes over is no better than what it has, unless it is a *)
(* duplicate or its paper has had its share.                               *)
BestArePooled ==
    pc = "flag" =>
      \A i \in DOMAIN found : Retained(i) /\ (\A j \in DOMAIN pool : pool[j].id # i) =>
        \/ Cardinality(PooledOf(found[i].paper)) = PerArticle
        \/ Len(pool) = SelectionPool /\ \A j \in DOMAIN pool : pool[j].id < i

(* The context is as full as it may be, and a paper has more than its      *)
(* share only when no other passage could take the place.                  *)
ContextIsDiverse ==
    pc = "convert" =>
      /\ Cardinality(context) = Smaller(LlmContext, Len(pool))
      /\ (\E p \in Papers : Cardinality(InContextOf(p)) > ContextCap) =>
           \A q \in Papers : Cardinality(InContextOf(q)) < ContextCap => PooledOf(q) \subseteq context

(* A packet without evidence says so.                                      *)
NothingIsTold == pc = "convert" /\ pool = <<>> => packet.status = "none" /\ packet.fallback # "none"

(* Why these hold: a passage is taken once, the loops look at one position  *)
(* after the other, and what a loop has passed it has taken, or the paper of *)
(* it has had its share.                                                   *)
TakenInOrder ==
    /\ \A i \in DOMAIN pool : Retained(pool[i].id)
    /\ \A i, j \in DOMAIN pool : i # j => pool[i].id # pool[j].id
    /\ Len(pool) <= SelectionPool
    /\ pc = "search" => pool = <<>> /\ at = 1 /\ attempts < 3
    /\ pc \in {"search", "take"} => context = {}
    /\ pc = "take" =>
         /\ at <= Len(found) + 1 /\ \A j \in DOMAIN pool : pool[j].id < at
         /\ \A i \in DOMAIN found : i < at /\ Retained(i) /\ (\A j \in DOMAIN pool : pool[j].id # i) =>
              Cardinality(PooledOf(found[i].paper)) = PerArticle

FlaggedInOrder ==
    pc = "flag" =>
      /\ at <= Len(pool) + 1 /\ Cardinality(context) <= LlmContext
      /\ at <= Len(pool) => \A i \in context : i < at
      /\ \A i \in DOMAIN pool : i < at /\ i \notin context =>
           Cardinality(InContextOf(found[pool[i].id].paper)) >= ContextCap
      /\ (\E p \in Papers : Cardinality(InContextOf(p)) > ContextCap) => at > Len(pool)

PoolInv ==
    /\ TypeOK /\ HardCap /\ NoDuplicates /\ BestArePooled /\ ContextIsDiverse /\ NothingIsTold
    /\ TakenInOrder /\ FlaggedInOrder

Available == {r \in ToSet(RequiredRoles) : \E i \in DOMAIN cards : Has(i, r)}
RolesBefore(n) == {RoleOrder[j] : j \in {k \in DOMAIN RoleOrder : k < n}}
Represented(r) == \E i \in Selected : Has(i, r)

(* A role costs one card at most, so room for one card of each is enough.   *)
RolesInTurn ==
    /\ pc = "rank" => at = 1
    /\ pc = "role" =>
         /\ at <= Len(RoleOrder) + 1
         /\ Cardinality(Selected) <= Cardinality(Available \cap RolesBefore(at))
         /\ Cardinality(Available) <= limit => \A r \in Available \cap RolesBefore(at) : Represented(r)
    /\ pc \in {"strict", "source", "any"} /\ Cardinality(Available) <= limit =>
         \A r \in Available : Represented(r)

(* Every required role that some card has is among the selected cards,     *)
(* when there is room for one card for each.                               *)
RolesKept ==
    /\ pc = "done" /\ Cardinality(Available) <= limit => \A r \in Available : Represented(r)
    /\ RolesInTurn

(* The budget is never exceeded and in the end used up, whatever quotas    *)
(* stand in the way.                                                       *)
BudgetUsed ==
    /\ Cardinality(Selected) <= limit
    /\ pc = "done" => Cardinality(Selected) = limit

(* A paper or a kind of source beyond its quota is told                    *)
(* ("selection_caps_relaxed_to_fill_budget").                              *)
CapsTold ==
    ~relaxed =>
      /\ \A p \in Papers : Cardinality(SelectedOf(p)) <= MaxPerPaper
      /\ \A t \in {"text", "figure"} : Cardinality(SelectedAs(t)) <= MaxPerSource

(* The last loop takes a card only when every card of a paper within its   *)
(* quota is taken.                                                         *)
AnyTaken == \E i \in DOMAIN reason : reason[i] = "any"
WithinQuotaFirst == AnyTaken => \A i \in DOMAIN cards : PaperFits(i) => i \in Selected

(* Why these hold: what the loops have passed they have taken, or its      *)
(* paper has had its share, and a share once used up stays so.             *)
NothingChosenYet ==
    pc \in {"search", "take", "flag", "convert", "rank"} =>
      ~relaxed /\ limit = 0 /\ Selected = {}

LoopsTookAll ==
    /\ AnyTaken => pc \in {"any", "done"}
    /\ pc = "source" => \A i \in DOMAIN cards : i < at /\ PaperFits(i) => i \in Selected
    /\ pc = "any" => \A i \in DOMAIN cards : (i < at \/ PaperFits(i)) => i \in Selected

SelectionInv ==
    CardsOK /\ BudgetUsed /\ CapsTold /\ WithinQuotaFirst /\ NothingChosenYet /\ LoopsTookAll

(* The cards chosen, by quota and by role: roles are kept because the      *)
(* selection is sound.                                                     *)
RolesInv == SelectionInv /\ RolesKept

(* A sub-theme that was found and is not in the context makes the answer a *)
(* sample.  Refuted: judge_breadth looks for sub-themes in the pool.       *)
EveryThemeCounts ==
    pc = "convert" /\ Broad /\ (\E i \in DOMAIN found : InContextOf(found[i].paper) = {}) => packet.limited

(* A figure becomes one card.  Refuted: it becomes one for each passage    *)
(* that links to it.                                                       *)
OneCardPerFigure == \A p \in Papers : seeds[<<p, "figure">>] <= 1

(* The warning is given only when a quota is exceeded.  Refuted: it is     *)
(* also given when the one card of a role is selected already.             *)
RelaxedIsNeeded ==
    pc = "done" /\ relaxed =>
      \/ \E p \in Papers : Cardinality(SelectedOf(p)) > MaxPerPaper
      \/ \E t \in {"text", "figure"} : Cardinality(SelectedAs(t)) > MaxPerSource
=============================================================================
