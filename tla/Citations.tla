------------------------------ MODULE Citations ------------------------------
(***************************************************************************)
(* The citation registry of one answer                                     *)
(* (src/backend/modules/literature_search/agent/citations.py).             *)
(*                                                                         *)
(* Evidence that enters the model's context gets a short alias, "[1]",     *)
(* "[2]", ..., and the model cites it by that alias.  When the answer is   *)
(* final the aliases it uses are compacted to first-seen order, and each   *)
(* is resolved to the evidence it stands for: of this turn, of an earlier  *)
(* message (the history), or of nothing at all (an invented alias).        *)
(*                                                                         *)
(* An answer is the sequence of the aliases it cites: its text plays no    *)
(* part.  Evidence is a physical place in a paper (physical and source key *)
(* are one); two abstracts of one paper that read almost alike are         *)
(* "Similar", which is not transitive.  A registry is a record of          *)
(*   manifest   the primary evidence of alias 1, 2, ... (current_manifest) *)
(*   alias      the alias of each evidence, 0 when it has none             *)
(* and a history is a sequence of messages, the newest first, each with a  *)
(* function "cites" from its aliases to their evidence.                    *)
(***************************************************************************)
EXTENDS Naturals, Sequences, FiniteSets

CONSTANTS
    Evidence,   \* places in papers that a tool may return
    Similar     \* pairs of abstracts of one paper that read almost alike

ASSUME SimilarAssumption == Similar \subseteq Evidence \X Evidence

(***************************************************************************)
(* Registration.                                                           *)
(***************************************************************************)
NewRegistry == [manifest |-> << >>, alias |-> [e \in Evidence |-> 0]]

Aliases(reg) == DOMAIN reg.manifest

Least(S) == CHOOSE x \in S : \A y \in S : x <= y

\* The alias that evidence e gets: the one it has, else the first alias whose
\* evidence is similar, else the next number.
AliasFor(reg, e) ==
    LET near == {a \in Aliases(reg) : <<e, reg.manifest[a]>> \in Similar}
    IN  IF reg.alias[e] # 0 THEN reg.alias[e]
        ELSE IF near # {} THEN Least(near) ELSE Len(reg.manifest) + 1

\* Mutant: evidence that joins an alias becomes its primary evidence.
Bugregister_evidence(reg, e) ==
    LET a == AliasFor(reg, e)
    IN  [manifest |-> IF a \in Aliases(reg) THEN [reg.manifest EXCEPT ![a] = e]
                      ELSE Append(reg.manifest, e),
         alias |-> [reg.alias EXCEPT ![e] = a]]

register_evidence(reg, e) ==
    LET a == AliasFor(reg, e)
    IN  [manifest |-> IF a \in Aliases(reg) THEN reg.manifest
                      ELSE Append(reg.manifest, e),
         alias |-> [reg.alias EXCEPT ![e] = a]]

register_tool_evidence(reg, items) ==
    LET after[n \in 0 .. Len(items)] ==
            IF n = 0 THEN reg ELSE register_evidence(after[n - 1], items[n])
    IN  after[Len(items)]

(***************************************************************************)
(* Resolution.                                                             *)
(***************************************************************************)
Cited(answer) == {answer[i] : i \in DOMAIN answer}

FirstSeen(answer, a) == Least({i \in DOMAIN answer : answer[i] = a})

\* The messages of the history that cite something as alias a.
Citing(hist, a) == {g \in DOMAIN hist : a \in DOMAIN hist[g].cites}

\* The newest of them wins.
FindHistorical(hist, a) == hist[Least(Citing(hist, a))].cites[a]

\* An answer that reuses an alias of an earlier message is left as it is;
\* otherwise the aliases of this turn are renamed 1, 2, ... as first seen.
Renamed(reg, hist, answer) ==
    IF \E a \in Cited(answer) \ Aliases(reg) : Citing(hist, a) # {}
    THEN {}
    ELSE Cited(answer) \cap Aliases(reg)

NewAlias(reg, answer, a) ==
    Cardinality({b \in Cited(answer) \cap Aliases(reg) :
                    FirstSeen(answer, b) <= FirstSeen(answer, a)})

Renaming(reg, hist, answer) ==
    [a \in Renamed(reg, hist, answer) |-> NewAlias(reg, answer, a)]

Rewritten(answer, renaming) ==
    [i \in DOMAIN answer |->
        IF answer[i] \in DOMAIN renaming THEN renaming[answer[i]]
        ELSE answer[i]]

\* Mutant: the audit takes the new alias for the old one.
BugOrigin(renaming, a) == a

\* The alias the registry knew a final alias by.
Origin(renaming, a) ==
    IF \E o \in DOMAIN renaming : renaming[o] = a
    THEN CHOOSE o \in DOMAIN renaming : renaming[o] = a
    ELSE a

(***************************************************************************)
(* The final answer with its audit: the rows to store with the message,    *)
(* the evidence reused from earlier messages, and the aliases of nothing.  *)
(***************************************************************************)
finalize_answer(reg, hist, answer) ==
    LET renaming == Renaming(reg, hist, answer)
        final == Rewritten(answer, renaming)
        current == {a \in Cited(final) : Origin(renaming, a) \in Aliases(reg)}
        reused == {a \in Cited(final) \ current : Citing(hist, a) # {}}
    IN  [answer |-> final,
         rows |-> [a \in current |-> reg.manifest[Origin(renaming, a)]],
         reused |-> [a \in reused |-> FindHistorical(hist, a)],
         missing |-> (Cited(final) \ current) \ reused]

(***************************************************************************)
(* What an alias stands for while the model writes, and what the audit     *)
(* tells a reader about an alias of the final answer.                      *)
(***************************************************************************)
Nothing == << >>

Meaning(reg, hist, a) ==
    IF a \in Aliases(reg) THEN <<reg.manifest[a]>>
    ELSE IF Citing(hist, a) # {} THEN <<FindHistorical(hist, a)>>
    ELSE Nothing

Told(audit, a) ==
    IF a \in DOMAIN audit.rows THEN <<audit.rows[a]>>
    ELSE IF a \in DOMAIN audit.reused THEN <<audit.reused[a]>>
    ELSE Nothing

=============================================================================
