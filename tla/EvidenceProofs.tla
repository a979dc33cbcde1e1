--------------------------- MODULE EvidenceProofs ---------------------------
(* Proofs about the selection of evidence, from a search and from the cards of *)
(* a run, and about the builds that stage, publish and cancel an evidence      *)
(* packet: for any passages, cards, budgets and profile, and for any number of *)
(* items, requests, builds, cancellations and crashes.                         *)
EXTENDS EvidenceSelection, PacketBuild, FiniteSetTheorems, TLAPS

(* A set of positions that is not empty has a least one.                      *)
LEMMA LeastPosition ==
  ASSUME NEW S, S \subseteq Nat, S # {}
  PROVE  \E i \in S : \A j \in S : i <= j
<1>1. PICK i \in S : \A j \in S : <<j, i>> \notin OpToRel(<, Nat)
  BY WFMin, NatLessThanWellFounded, Zenon
<1>2. \A j \in S : ~ (j < i)
  BY <1>1, Zenon DEF OpToRel
<1> QED BY <1>2

(* _best_for_role returns one of the candidates it is given.                  *)
LEMMA BestIsOne ==
  ASSUME NEW S, S \subseteq DOMAIN cards, S # {}, CardsOK, NEW r
  PROVE  Best(S, r) \in S
<1>1. DOMAIN cards \subseteq Nat
  BY DEF CardsOK
<1> DEFINE P == {k \in S : cards[k].primary = r}
<1>2. CASE P # {}
  <2>1. PICK i \in P : \A j \in P : i <= j
    BY <1>1, <1>2, LeastPosition
  <2>2. \A j \in S : Better(i, j, r)
    BY <1>1, <2>1 DEF Better
  <2> QED BY <2>1, <2>2 DEF Best
<1>3. CASE P = {}
  <2>1. PICK i \in S : \A j \in S : i <= j
    BY <1>1, LeastPosition
  <2>2. \A j \in S : Better(i, j, r)
    BY <1>1, <1>3, <2>1 DEF Better
  <2> QED BY <2>1, <2>2 DEF Best
<1> QED BY <1>2, <1>3

(* The selected cards can be counted.                                         *)
LEMMA Countable ==
  ASSUME CardsOK, NEW S, S \subseteq 1 .. Len(cards)
  PROVE  IsFiniteSet(S) /\ Cardinality(S) \in Nat /\ Cardinality(S) <= Len(cards)
<1>1. Len(cards) \in Nat
  BY DEF CardsOK
<1>2. IsFiniteSet(1 .. Len(cards)) /\ Cardinality(1 .. Len(cards)) = Len(cards)
  BY <1>1, FS_Interval
<1> QED BY <1>2, FS_Subset, FS_CardinalityType

(* The quotas are numbers.                                                    *)
LEMMA Quotas == ASSUME CardsOK PROVE MaxPerPaper \in Nat /\ MaxPerSource \in Nat
<1>1. limit \in Nat
  BY DEF CardsOK
<1>2. ((2 * limit + 4) \div 5) \in Nat /\ ((3 * limit + 4) \div 5) \in Nat
  BY <1>1
<1> QED BY <1>2 DEF MaxPerPaper, MaxPerSource

(* Taking a card that is not selected adds it, and nothing else, to what is   *)
(* selected, in its paper and of its kind.                                    *)
LEMMA TakeAdds ==
  ASSUME CardsOK, cards' = cards, limit' = limit,
         NEW i \in DOMAIN cards, i \notin Selected,
         NEW w \in {"role", "strict", "source", "any"}, Take(i, w)
  PROVE  /\ reason' \in [1 .. Len(cards) -> {"none", "role", "strict", "source", "any"}]
         /\ Selected' = Selected \cup {i}
         /\ Cardinality(Selected') = Cardinality(Selected) + 1
         /\ \A p : Cardinality(SelectedOf(p)') =
              Cardinality(SelectedOf(p)) + (IF cards[i].paper = p THEN 1 ELSE 0)
         /\ \A t : Cardinality(SelectedAs(t)') =
              Cardinality(SelectedAs(t)) + (IF cards[i].type = t THEN 1 ELSE 0)
<1>1. DOMAIN cards = 1 .. Len(cards)
  BY DEF CardsOK
<1>2. reason' = [reason EXCEPT ![i] = w]
  BY DEF Take
<1>3. reason' \in [1 .. Len(cards) -> {"none", "role", "strict", "source", "any"}]
  BY <1>1, <1>2 DEF CardsOK
<1>4. Selected' = Selected \cup {i}
  BY <1>1, <1>2 DEF CardsOK, Selected
<1>5. Selected \subseteq 1 .. Len(cards)
  BY DEF CardsOK, Selected
<1>6. Cardinality(Selected') = Cardinality(Selected) + 1
  BY <1>4, <1>5, Countable, FS_AddElement
<1>7. ASSUME NEW p
      PROVE Cardinality(SelectedOf(p)') =
              Cardinality(SelectedOf(p)) + (IF cards[i].paper = p THEN 1 ELSE 0)
  <2>1. IsFiniteSet(SelectedOf(p)) /\ Cardinality(SelectedOf(p)) \in Nat /\ i \notin SelectedOf(p)
    BY <1>5, Countable DEF SelectedOf
  <2>2. CASE cards[i].paper = p
    <3>1. SelectedOf(p)' = SelectedOf(p) \cup {i}
      BY <1>4, <2>2 DEF SelectedOf
    <3> QED BY <2>1, <2>2, <3>1, FS_AddElement
  <2>3. CASE cards[i].paper # p
    <3>1. SelectedOf(p)' = SelectedOf(p)
      BY <1>4, <2>3 DEF SelectedOf
    <3> QED BY <2>1, <2>3, <3>1
  <2> QED BY <2>2, <2>3
<1>8. ASSUME NEW t
      PROVE Cardinality(SelectedAs(t)') =
              Cardinality(SelectedAs(t)) + (IF cards[i].type = t THEN 1 ELSE 0)
  <2>1. IsFiniteSet(SelectedAs(t)) /\ Cardinality(SelectedAs(t)) \in Nat /\ i \notin SelectedAs(t)
    BY <1>5, Countable DEF SelectedAs
  <2>2. CASE cards[i].type = t
    <3>1. SelectedAs(t)' = SelectedAs(t) \cup {i}
      BY <1>4, <2>2 DEF SelectedAs
    <3> QED BY <2>1, <2>2, <3>1, FS_AddElement
  <2>3. CASE cards[i].type # t
    <3>1. SelectedAs(t)' = SelectedAs(t)
      BY <1>4, <2>3 DEF SelectedAs
    <3> QED BY <2>1, <2>3, <3>1
  <2> QED BY <2>2, <2>3
<1> QED BY <1>3, <1>4, <1>6, <1>7, <1>8

(* Every count of selected cards is a number.                                 *)
LEMMA Counts ==
  ASSUME CardsOK
  PROVE  /\ Selected \subseteq DOMAIN cards /\ Cardinality(Selected) \in Nat
         /\ \A p : Cardinality(SelectedOf(p)) \in Nat
         /\ \A t : Cardinality(SelectedAs(t)) \in Nat
<1>1. Selected \subseteq 1 .. Len(cards) /\ DOMAIN cards = 1 .. Len(cards)
  BY DEF CardsOK, Selected
<1> QED BY <1>1, Countable DEF SelectedOf, SelectedAs

(* A turn of a loop takes a card or leaves things as they are, so no paper    *)
(* has less of its share afterwards.                                          *)
LEMMA SharesGrow ==
  ASSUME CardsOK, cards' = cards, limit' = limit,
         \/ UNCHANGED reason
         \/ \E i \in DOMAIN cards \ Selected, w \in {"role", "strict", "source", "any"} : Take(i, w)
  PROVE  /\ Selected \subseteq Selected'
         /\ \A k \in DOMAIN cards : PaperFits(k)' => PaperFits(k)
<1>1. CASE UNCHANGED reason
  BY <1>1 DEF Selected, SelectedOf, PaperFits, MaxPerPaper
<1>2. ASSUME NEW i \in DOMAIN cards \ Selected, NEW w \in {"role", "strict", "source", "any"}, Take(i, w)
      PROVE  /\ Selected \subseteq Selected'
             /\ \A k \in DOMAIN cards : PaperFits(k)' => PaperFits(k)
  <2>1. Selected' = Selected \cup {i}
    BY <1>2, TakeAdds
  <2>2. ASSUME NEW k \in DOMAIN cards, PaperFits(k)' PROVE PaperFits(k)
    <3> DEFINE q == cards[k].paper
    <3>1. Cardinality(SelectedOf(q)') = Cardinality(SelectedOf(q)) + (IF cards[i].paper = q THEN 1 ELSE 0)
      BY <1>2, TakeAdds
    <3>2. Cardinality(SelectedOf(q)) \in Nat /\ MaxPerPaper \in Nat
      BY Counts, Quotas
    <3>3. MaxPerPaper' = MaxPerPaper
      BY DEF MaxPerPaper
    <3>4. Cardinality(SelectedOf(q)') < MaxPerPaper
      BY <2>2, <3>3 DEF PaperFits
    <3> QED BY <3>1, <3>2, <3>4 DEF PaperFits
  <2> QED BY <2>1, <2>2
<1> QED BY <1>1, <1>2

(* While nothing is chosen the invariant holds whatever else changes.         *)
LEMMA Unchosen ==
  /\ CardsOK /\ NothingChosenYet
  /\ pc \in {"search", "take", "flag", "convert", "rank", "role"}
  /\ Selected = {}
  => SelectionInv
<1> SUFFICES ASSUME CardsOK, NothingChosenYet, Selected = {},
                    pc \in {"search", "take", "flag", "convert", "rank", "role"}
             PROVE  SelectionInv
  OBVIOUS
<1>1. \A S : S \subseteq Selected => Cardinality(S) = 0
  BY FS_EmptySet
<1>2. Cardinality(Selected) = 0 /\ (\A p : Cardinality(SelectedOf(p)) = 0)
      /\ (\A t : Cardinality(SelectedAs(t)) = 0)
  BY <1>1 DEF SelectedOf, SelectedAs
<1>3. MaxPerPaper \in Nat /\ MaxPerSource \in Nat /\ limit \in Nat
  BY Quotas DEF CardsOK
<1>4. BudgetUsed /\ CapsTold
  BY <1>2, <1>3 DEF BudgetUsed, CapsTold
<1>5. ~ AnyTaken
  BY DEF AnyTaken, Selected
<1> QED BY <1>4, <1>5 DEF SelectionInv, WithinQuotaFirst, LoopsTookAll

(* The search, the packet and its conversion do not touch the selection.      *)
LEMMA PacketStep ==
  ASSUME SelectionInv,
         search \/ take \/ sort_pool \/ flag \/ top_up \/ judge \/ convert
  PROVE  SelectionInv'
<1>1. /\ UNCHANGED card_vars \/ convert
      /\ pc \in {"search", "take", "flag", "convert"}
      /\ pc' \in {"search", "take", "flag", "convert", "rank"}
  BY DEF search, take, sort_pool, flag, top_up, judge, convert
<1>2. UNCHANGED <<cards, limit, reason, relaxed>>
  BY <1>1 DEF card_vars, convert
<1>3. at' \in Nat \ {0}
  BY DEF search, take, sort_pool, flag, top_up, judge, convert, SelectionInv, CardsOK
<1>4. CardsOK'
  BY <1>2, <1>3 DEF SelectionInv, CardsOK
<1>5. ~relaxed /\ limit = 0 /\ Selected = {} /\ relaxed \in BOOLEAN
  BY <1>1 DEF SelectionInv, NothingChosenYet, CardsOK
<1>6. Selected' = {} /\ relaxed' = FALSE /\ limit' = 0
  BY <1>2, <1>5 DEF Selected
<1>7. NothingChosenYet'
  BY <1>6 DEF NothingChosenYet
<1>8. (/\ CardsOK /\ NothingChosenYet
       /\ pc \in {"search", "take", "flag", "convert", "rank", "role"}
       /\ Selected = {}
       => SelectionInv)'
  BY Unchosen, PTL
<1> QED BY <1>1, <1>4, <1>6, <1>7, <1>8

(* A card is added to the ranking, not to the selection.                      *)
LEMMA RankStep ==
  ASSUME SelectionInv, rank_card \/ resolve_config
  PROVE  SelectionInv'
<1>1. /\ pc = "rank" /\ pc' \in {"rank", "role"} /\ at \in Nat \ {0} /\ UNCHANGED <<at, relaxed>>
      /\ cards \in Seq(Cards) /\ relaxed \in BOOLEAN /\ limit = 0 /\ ~relaxed /\ Selected = {}
      /\ reason \in [1 .. Len(cards) -> {"none", "role", "strict", "source", "any"}]
  BY DEF rank_card, resolve_config, SelectionInv, CardsOK, NothingChosenYet
<1>2. \A i \in 1 .. Len(cards) : reason[i] = "none"
  BY <1>1 DEF Selected
<1>3. /\ cards' \in Seq(Cards) /\ limit' \in 0 .. Len(cards')
      /\ reason' \in [1 .. Len(cards') -> {"none", "role", "strict", "source", "any"}]
      /\ \A i \in 1 .. Len(cards') : reason'[i] = "none"
      /\ pc' = "rank" => limit' = 0
  <2>1. CASE rank_card
    <3>1. PICK c \in Cards : cards' = Append(cards, c) /\ reason' = Append(reason, "none")
      BY <2>1 DEF rank_card
    <3>2. reason \in Seq({"none", "role", "strict", "source", "any"}) /\ Len(reason) = Len(cards)
      BY <1>1
    <3>3. /\ cards' \in Seq(Cards) /\ Len(cards') = Len(cards) + 1 /\ Len(cards) \in Nat
          /\ reason' \in Seq({"none", "role", "strict", "source", "any"})
          /\ Len(reason') = Len(cards) + 1
      BY <1>1, <3>1, <3>2
    <3>4. \A i \in 1 .. Len(cards') : reason'[i] = "none"
      BY <1>2, <3>1, <3>2, <3>3
    <3>5. reason' \in [1 .. Len(cards') -> {"none", "role", "strict", "source", "any"}]
      BY <3>3
    <3>6. limit' = 0
      BY <1>1, <2>1 DEF rank_card
    <3> QED BY <3>3, <3>4, <3>5, <3>6
  <2>2. CASE resolve_config
    <3>1. PICK b \in Budgets : limit' = Smaller(b, Len(cards))
      BY <2>2 DEF resolve_config
    <3>2. limit' \in 0 .. Len(cards)
      BY <1>1, <3>1, ConstantsAssumption DEF Smaller
    <3> QED BY <1>1, <1>2, <2>2, <3>2 DEF resolve_config
  <2> QED BY <2>1, <2>2
<1>4. CardsOK' /\ NothingChosenYet' /\ Selected' = {}
  BY <1>1, <1>3 DEF CardsOK, NothingChosenYet, Selected
<1>5. (/\ CardsOK /\ NothingChosenYet
       /\ pc \in {"search", "take", "flag", "convert", "rank", "role"}
       /\ Selected = {}
       => SelectionInv)'
  BY Unchosen, PTL
<1> QED BY <1>1, <1>4, <1>5

(* What a turn of a loop comes to, in terms of the card it takes.             *)
LEMMA TurnStep ==
  ASSUME SelectionInv, UNCHANGED <<pc, cards, limit>>, at' = at + 1,
         pc \in {"role", "strict", "source", "any"},
         relaxed' \in BOOLEAN, ~relaxed' => ~relaxed,
         \/ UNCHANGED reason /\ (pc = "source" => at \in Selected \/ ~PaperFits(at))
                             /\ (pc = "any" => at \in Selected)
         \/ \E i \in DOMAIN cards \ Selected :
              /\ Take(i, pc) /\ ~Full /\ (pc # "role" => i = at)
              /\ ~relaxed' => PaperFits(i) /\ SourceFits(i)
  PROVE  SelectionInv'
<1> USE DEF SelectionInv
<1>1. SelectionInv /\ CardsOK /\ DOMAIN cards = 1 .. Len(cards)
  BY DEF CardsOK
<1>2. /\ Selected \subseteq Selected'
      /\ \A k \in DOMAIN cards : PaperFits(k)' => PaperFits(k)
  BY <1>1, SharesGrow
<1>3. CASE UNCHANGED reason /\ (pc = "source" => at \in Selected \/ ~PaperFits(at))
                            /\ (pc = "any" => at \in Selected)
  <2>1. Selected' = Selected /\ (AnyTaken' <=> AnyTaken)
    BY <1>3 DEF Selected, AnyTaken
  <2>2. CardsOK' /\ BudgetUsed' /\ NothingChosenYet'
    BY <1>1, <1>3, <2>1 DEF CardsOK, BudgetUsed, NothingChosenYet
  <2>3. CapsTold'
    BY <1>3, <2>1 DEF CapsTold, SelectedOf, SelectedAs, MaxPerPaper, MaxPerSource
  <2>4. WithinQuotaFirst'
    BY <1>2, <2>1 DEF WithinQuotaFirst
  <2>5. LoopsTookAll'
    BY <1>1, <1>2, <2>1, <1>3 DEF LoopsTookAll, CardsOK
  <2> QED BY <2>2, <2>3, <2>4, <2>5
<1>4. ASSUME NEW i \in DOMAIN cards \ Selected, Take(i, pc), ~Full, pc # "role" => i = at,
             ~relaxed' => PaperFits(i) /\ SourceFits(i)
      PROVE  SelectionInv'
  <2>1. /\ reason' \in [1 .. Len(cards) -> {"none", "role", "strict", "source", "any"}]
        /\ Selected' = Selected \cup {i}
        /\ Cardinality(Selected') = Cardinality(Selected) + 1
        /\ \A p : Cardinality(SelectedOf(p)') =
             Cardinality(SelectedOf(p)) + (IF cards[i].paper = p THEN 1 ELSE 0)
        /\ \A t : Cardinality(SelectedAs(t)') =
             Cardinality(SelectedAs(t)) + (IF cards[i].type = t THEN 1 ELSE 0)
    BY <1>1, <1>4, TakeAdds
  <2>2. CardsOK' /\ NothingChosenYet'
    BY <1>1, <2>1 DEF CardsOK, NothingChosenYet
  <2>3. BudgetUsed'
    <3>1. Cardinality(Selected) \in Nat /\ limit \in Nat
      BY <1>1, Counts DEF CardsOK
    <3>2. Cardinality(Selected) + 1 <= limit
      BY <1>4, <3>1 DEF Full
    <3>3. Cardinality(Selected') <= limit'
      BY <2>1, <3>2
    <3>4. pc' # "done"
      OBVIOUS
    <3> QED BY <3>3, <3>4 DEF BudgetUsed
  <2>4. CapsTold'
    <3>1. MaxPerPaper' = MaxPerPaper /\ MaxPerSource' = MaxPerSource
          /\ MaxPerPaper \in Nat /\ MaxPerSource \in Nat
      BY <1>1, Quotas DEF MaxPerPaper, MaxPerSource
    <3>2. \A p : Cardinality(SelectedOf(p)) \in Nat /\ Cardinality(SelectedAs(p)) \in Nat
      BY <1>1, Counts
    <3> SUFFICES ASSUME ~relaxed'
                 PROVE  /\ \A p \in Papers : Cardinality(SelectedOf(p)') <= MaxPerPaper
                        /\ \A t \in {"text", "figure"} : Cardinality(SelectedAs(t)') <= MaxPerSource
      BY <3>1 DEF CapsTold
    <3>3. PaperFits(i) /\ SourceFits(i) /\ CapsTold /\ ~relaxed
      BY <1>4
    <3>4. ASSUME NEW p \in Papers PROVE Cardinality(SelectedOf(p)') <= MaxPerPaper
      BY <2>1, <3>1, <3>2, <3>3 DEF CapsTold, PaperFits
    <3>5. ASSUME NEW t \in {"text", "figure"} PROVE Cardinality(SelectedAs(t)') <= MaxPerSource
      BY <2>1, <3>1, <3>2, <3>3 DEF CapsTold, SourceFits
    <3> QED BY <3>4, <3>5
  <2>5. AnyTaken' => pc = "any"
    BY <1>1, <1>4 DEF AnyTaken, Take, LoopsTookAll, CardsOK
  <2>6. WithinQuotaFirst'
    BY <1>2, <2>5 DEF WithinQuotaFirst, LoopsTookAll
  <2>7. LoopsTookAll'
    BY <1>1, <1>2, <1>4, <2>1, <2>5 DEF LoopsTookAll, CardsOK
  <2> QED BY <2>2, <2>3, <2>4, <2>6, <2>7
<1> QED BY <1>3, <1>4

(* A turn of the loop over the roles.                                         *)
LEMMA RoleStep == ASSUME SelectionInv, select_role PROVE SelectionInv'
<1> DEFINE r == RoleOrder[at]
           having == {i \in DOMAIN cards : Has(i, r)}
           free == having \ Selected
           fitting == {i \in free : PaperFits(i) /\ SourceFits(i)}
<1>1. pc = "role" /\ CardsOK /\ UNCHANGED <<pc, cards, limit>> /\ at' = at + 1
  BY DEF select_role, SelectionInv
<1>2. CASE having = {} \/ Full
  <2>1. UNCHANGED <<reason, relaxed>>
    BY <1>2 DEF select_role
  <2> QED BY <1>1, <2>1, TurnStep DEF CardsOK
<1>3. CASE ~(having = {} \/ Full) /\ fitting # {}
  <2>1. Best(fitting, r) \in fitting
    BY <1>1, <1>3, BestIsOne
  <2>2. Take(Best(fitting, r), "role") /\ UNCHANGED relaxed
    BY <1>3 DEF select_role
  <2> QED BY <1>1, <1>3, <2>1, <2>2, TurnStep DEF CardsOK
<1>4. CASE ~(having = {} \/ Full) /\ fitting = {} /\ free = {}
  <2>1. relaxed' = TRUE /\ UNCHANGED reason
    BY <1>4 DEF select_role
  <2> QED BY <1>1, <2>1, TurnStep
<1>5. CASE ~(having = {} \/ Full) /\ fitting = {} /\ free # {}
  <2>1. Best(free, r) \in free
    BY <1>1, <1>5, BestIsOne
  <2>2. Take(Best(free, r), "role") /\ relaxed' = TRUE
    BY <1>5 DEF select_role
  <2> QED BY <1>1, <1>5, <2>1, <2>2, TurnStep
<1> QED BY <1>2, <1>3, <1>4, <1>5

(* A turn of a loop that fills the budget.                                    *)
LEMMA CardStep == ASSUME SelectionInv, select_card PROVE SelectionInv'
<1>1. /\ pc \in {"strict", "source", "any"} /\ at \in DOMAIN cards /\ ~Full /\ CardsOK
      /\ UNCHANGED <<pc, cards, limit>> /\ at' = at + 1
  BY DEF select_card, SelectionInv, CardsOK
<1>2. CASE at \notin Selected /\ Fits(at)
  <2>1. Take(at, pc) /\ relaxed' = (relaxed \/ pc # "strict")
    BY <1>2 DEF select_card
  <2>2. ~relaxed' => pc = "strict"
    BY <2>1
  <2>3. ~relaxed' => PaperFits(at) /\ SourceFits(at)
    BY <1>2, <2>2 DEF Fits
  <2>4. relaxed' \in BOOLEAN /\ (~relaxed' => ~relaxed)
    BY <1>1, <2>1 DEF CardsOK
  <2> QED BY <1>1, <1>2, <2>1, <2>3, <2>4, TurnStep
<1>3. CASE ~(at \notin Selected /\ Fits(at))
  <2>1. UNCHANGED <<reason, relaxed>>
    BY <1>3 DEF select_card
  <2>2. (pc = "source" => at \in Selected \/ ~PaperFits(at)) /\ (pc = "any" => at \in Selected)
    BY <1>3 DEF Fits
  <2> QED BY <1>1, <2>1, <2>2, TurnStep DEF CardsOK
<1> QED BY <1>2, <1>3

(* The end of a loop: what it has passed is taken, or its paper is full.      *)
LEMMA LoopStep == ASSUME SelectionInv, next_loop PROVE SelectionInv'
<1> USE DEF SelectionInv
<1>1. /\ CardsOK /\ DOMAIN cards = 1 .. Len(cards) /\ UNCHANGED <<cards, limit, reason, relaxed>>
      /\ at' = 1 /\ pc \in {"role", "strict", "source", "any"}
      /\ pc' \in {"strict", "source", "any", "done"}
  BY DEF next_loop, CardsOK, card_vars
<1>2. Selected' = Selected /\ (AnyTaken' <=> AnyTaken) /\ (\A k : PaperFits(k)' <=> PaperFits(k))
  BY <1>1 DEF Selected, AnyTaken, PaperFits, SelectedOf, MaxPerPaper
<1>3. CardsOK' /\ NothingChosenYet'
  BY <1>1 DEF CardsOK, NothingChosenYet
<1>4. CapsTold' /\ WithinQuotaFirst'
  BY <1>1, <1>2 DEF CapsTold, WithinQuotaFirst, SelectedOf, SelectedAs, MaxPerPaper, MaxPerSource
<1>5. BudgetUsed'
  <2>1. Cardinality(Selected) \in Nat /\ limit \in 0 .. Len(cards) /\ Len(cards) \in Nat
    BY <1>1, Counts DEF CardsOK
  <2>2. CASE Full
    BY <1>1, <1>2, <2>1, <2>2 DEF BudgetUsed, Full
  <2>3. CASE ~Full /\ pc # "any"
    <3>1. pc' # "done"
      BY <2>3, <1>1 DEF next_loop
    <3> QED BY <1>1, <1>2, <3>1 DEF BudgetUsed
  <2>4. CASE ~Full /\ pc = "any"
    <3>1. at > Len(cards)
      BY <2>4 DEF next_loop
    <3>2. Selected = 1 .. Len(cards)
      <4>1. Selected \subseteq 1 .. Len(cards)
        BY <1>1, Counts
      <4>2. \A i \in 1 .. Len(cards) : i < at
        BY <2>1, <3>1, <1>1 DEF CardsOK
      <4>3. \A i \in 1 .. Len(cards) : i \in Selected
        <5>1. \A i \in DOMAIN cards : i < at \/ PaperFits(i) => i \in Selected
          BY <2>4 DEF LoopsTookAll
        <5> QED BY <1>1, <4>2, <5>1
      <4> QED BY <4>1, <4>3
    <3>3. Len(cards) \in Nat
      BY <2>1
    <3>4. Cardinality(1 .. Len(cards)) = Len(cards)
      BY <3>3, FS_Interval
    <3> QED BY <2>1, <2>4, <3>2, <3>4 DEF Full
  <2> QED BY <2>2, <2>3, <2>4
<1>6. LoopsTookAll'
  <2>1. AnyTaken' => pc' \in {"any", "done"}
    BY <1>1, <1>2 DEF LoopsTookAll, next_loop
  <2>2. pc' = "source" => \A i \in DOMAIN cards' : i < at' /\ PaperFits(i)' => i \in Selected'
    BY <1>1
  <2>3. ASSUME pc' = "any"
        PROVE  \A i \in DOMAIN cards' : (i < at' \/ PaperFits(i)') => i \in Selected'
    <3>1. pc = "source" /\ at > Len(cards) /\ Len(cards) \in Nat
      BY <1>1, <2>3 DEF next_loop, CardsOK
    <3> QED BY <1>1, <1>2, <3>1 DEF LoopsTookAll, CardsOK
  <2> QED BY <2>1, <2>2, <2>3 DEF LoopsTookAll
<1> QED BY <1>3, <1>4, <1>5, <1>6

(* The steps that leave everything as it is.                                  *)
LEMMA StutterStep == ASSUME SelectionInv, UNCHANGED vars PROVE SelectionInv'
BY DEF vars, card_vars, SelectionInv, CardsOK, BudgetUsed, CapsTold, WithinQuotaFirst,
   NothingChosenYet, LoopsTookAll, AnyTaken, Selected, SelectedOf, SelectedAs, PaperFits,
   MaxPerPaper, MaxPerSource

(* Nothing is selected at first.                                             *)
LEMMA SelectionStarts == ASSUME Init PROVE SelectionInv
<1>1. CardsOK /\ NothingChosenYet /\ pc = "search" /\ Selected = {}
  <2>1. cards = <<>> /\ at = 1 /\ limit = 0 /\ reason = <<>> /\ relaxed = FALSE /\ pc = "search"
    BY DEF Init
  <2>2. cards \in Seq(Cards) /\ Len(cards) = 0 /\ DOMAIN reason = {}
    BY <2>1
  <2>3. Selected = {}
    BY <2>2 DEF Selected
  <2>4. reason \in [1 .. Len(cards) -> {"none", "role", "strict", "source", "any"}]
    BY <2>1, <2>2
  <2>5. limit \in 0 .. Len(cards) /\ at \in Nat \ {0}
    BY <2>1, <2>2
  <2>6. relaxed \in BOOLEAN
    BY Zenon DEF Init
  <2>7. CardsOK
    BY <2>2, <2>4, <2>5, <2>6 DEF CardsOK
  <2> QED BY <2>1, <2>3, <2>7 DEF NothingChosenYet
<1> QED BY <1>1, Unchosen

(* Every step keeps the invariant.                                            *)
LEMMA SelectionSteps == ASSUME SelectionInv, [Next]_vars PROVE SelectionInv'
BY PacketStep, RankStep, RoleStep, CardStep, LoopStep, StutterStep DEF Next

(* The selection of cards, for any ranking, budget and profile: the budget is *)
(* used up and not exceeded, a quota that is exceeded is told, and no quota   *)
(* of a paper is exceeded while a card within one is left.                    *)
THEOREM SelectionCorrect == Spec => []SelectionInv
BY SelectionStarts, SelectionSteps, PTL DEF Spec

(* Quotas are exceeded only with a warning.                                   *)
THEOREM CapsAreTold == Spec => []CapsTold
<1>1. SelectionInv => CapsTold
  BY DEF SelectionInv
<1> QED BY <1>1, SelectionCorrect, PTL

(* A finished selection has as many cards as the budget has room for.         *)
THEOREM BudgetIsUsed == Spec => []BudgetUsed
<1>1. SelectionInv => BudgetUsed
  BY DEF SelectionInv
<1> QED BY <1>1, SelectionCorrect, PTL

-----------------------------------------------------------------------------
(* The required roles.                                                        *)

(* The order of the loop is the roles of the profile, each once.              *)
LEMMA RolesOnce ==
  /\ RoleOrder \in Seq(ToSet(RequiredRoles)) /\ Len(RoleOrder) \in Nat
  /\ DOMAIN RoleOrder = 1 .. Len(RoleOrder)
  /\ \A r \in ToSet(RequiredRoles) : \E j \in DOMAIN RoleOrder : r = RoleOrder[j]
  /\ \A i, j \in DOMAIN RoleOrder : i # j => RoleOrder[i] # RoleOrder[j]
<1> DEFINE q == RequiredRoles
           S == ToSet(q)
<1>1. q \in Seq(S) /\ q # <<>> /\ \A i, j \in DOMAIN q : i # j => q[i] # q[j]
  <2>1. S = {r : r \in S}
    OBVIOUS
  <2> QED BY <2>1, ConstantsAssumption
<1>2. S = {q[i] : i \in DOMAIN q}
  BY DEF ToSet
<1> HIDE DEF q, S
<1>3. Len(q) \in Nat \ {0} /\ DOMAIN q = 1 .. Len(q) /\ Head(q) = q[1]
  BY <1>1
<1>4. /\ Tail(q) \in Seq(S) /\ Len(Tail(q)) = Len(q) - 1
      /\ \A i \in 1 .. Len(q) - 1 : Tail(q)[i] = q[i + 1]
  BY <1>1
<1>5. RoleOrder = Tail(q) \o <<q[1]>>
  BY <1>3 DEF RoleOrder, q
<1>6. q[1] \in S /\ <<q[1]>> \in Seq(S)
  BY <1>1, <1>2, <1>3
<1>7. /\ RoleOrder \in Seq(S) /\ Len(RoleOrder) = Len(q)
      /\ \A i \in 1 .. Len(q) - 1 : RoleOrder[i] = q[i + 1]
      /\ RoleOrder[Len(q)] = q[1]
  <2>1. ASSUME NEW t \in Seq(S), NEW x \in S
        PROVE  /\ t \o <<x>> \in Seq(S) /\ Len(t \o <<x>>) = Len(t) + 1
               /\ \A i \in 1 .. Len(t) : (t \o <<x>>)[i] = t[i]
               /\ (t \o <<x>>)[Len(t) + 1] = x
    OBVIOUS
  <2>2. q[1] \in S
    BY <1>6
  <2>3. PICK t \in Seq(S) : t = Tail(q)
    BY <1>4
  <2>4. PICK m \in Nat : m = Len(q) - 1
    <3>1. \A l \in Nat \ {0} : l - 1 \in Nat
      OBVIOUS
    <3> QED BY <1>3, <3>1, Zenon
  <2>5. Len(t) = m /\ \A i \in 1 .. m : t[i] = q[i + 1]
    BY <1>4, <2>3, <2>4
  <2>6. RoleOrder = t \o <<q[1]>>
    BY <1>5, <2>3
  <2>7. RoleOrder \in Seq(S) /\ Len(RoleOrder) = m + 1 /\ RoleOrder[m + 1] = q[1]
        /\ \A i \in 1 .. m : RoleOrder[i] = t[i]
    BY <2>1, <2>2, <2>5, <2>6
  <2>8. m + 1 = Len(q)
    BY <1>3, <2>4
  <2> QED BY <2>4, <2>5, <2>7, <2>8
<1>8. DOMAIN RoleOrder = 1 .. Len(q)
  BY <1>7
<1>9. ASSUME NEW r \in S PROVE \E j \in DOMAIN RoleOrder : r = RoleOrder[j]
  <2>1. PICK i \in 1 .. Len(q) : r = q[i]
    BY <1>2, <1>3
  <2>2. CASE i = 1
    BY <1>3, <1>7, <1>8, <2>1, <2>2
  <2>3. CASE i # 1
    <3>1. i - 1 \in 1 .. Len(q) - 1 /\ (i - 1) + 1 = i
      BY <1>3, <2>3
    <3>2. i - 1 \in DOMAIN RoleOrder /\ RoleOrder[i - 1] = r
      BY <1>3, <1>7, <1>8, <2>1, <3>1
    <3> QED BY <3>2
  <2> QED BY <2>2, <2>3
<1>10. ASSUME NEW i \in DOMAIN RoleOrder, NEW j \in DOMAIN RoleOrder, i # j
       PROVE  RoleOrder[i] # RoleOrder[j]
  <2> DEFINE at_(k) == IF k = Len(q) THEN 1 ELSE k + 1
  <2>1. \A k \in DOMAIN RoleOrder : at_(k) \in DOMAIN q /\ RoleOrder[k] = q[at_(k)]
    BY <1>3, <1>7, <1>8
  <2>2. at_(i) # at_(j)
    BY <1>3, <1>8, <1>10
  <2> HIDE DEF at_
  <2> QED BY <1>1, <2>1, <2>2
<1> QED BY <1>3, <1>7, <1>8, <1>9, <1>10 DEF S, q

(* The roles that some card has can be counted.                               *)
LEMMA RolesCounted ==
  ASSUME NEW n \in Nat
  PROVE  /\ IsFiniteSet(Available) /\ Cardinality(Available) \in Nat
         /\ IsFiniteSet(Available \cap RolesBefore(n))
         /\ Cardinality(Available \cap RolesBefore(n)) \in Nat
         /\ Cardinality(Available \cap RolesBefore(n)) <= Cardinality(Available)
<1>1. IsFiniteSet(1 .. Len(RoleOrder))
  BY RolesOnce, FS_Interval
<1> DEFINE f == [j \in 1 .. Len(RoleOrder) |-> RoleOrder[j]]
           T == {RoleOrder[j] : j \in 1 .. Len(RoleOrder)}
<1>2. f \in Surjection(1 .. Len(RoleOrder), T)
  BY DEF Surjection
<1>3. IsFiniteSet(T)
  BY <1>1, <1>2, FS_Surjection
<1>4. Available \subseteq T
  BY RolesOnce DEF Available
<1>5. IsFiniteSet(Available)
  BY <1>3, <1>4, FS_Subset
<1> QED BY <1>5, FS_Subset, FS_CardinalityType

(* What the role of a turn adds to those before it.                           *)
LEMMA NextRole ==
  ASSUME NEW n \in DOMAIN RoleOrder
  PROVE  /\ RolesBefore(n + 1) = RolesBefore(n) \cup {RoleOrder[n]}
         /\ RoleOrder[n] \notin RolesBefore(n)
         /\ RoleOrder[n] \in Available <=> {i \in DOMAIN cards : Has(i, RoleOrder[n])} # {}
<1>1. DOMAIN RoleOrder = 1 .. Len(RoleOrder) /\ Len(RoleOrder) \in Nat
  BY RolesOnce
<1>2. {k \in DOMAIN RoleOrder : k < n + 1} = {k \in DOMAIN RoleOrder : k < n} \cup {n}
  BY <1>1
<1>3. RolesBefore(n + 1) = RolesBefore(n) \cup {RoleOrder[n]}
  BY <1>2 DEF RolesBefore
<1>4. RoleOrder[n] \notin RolesBefore(n)
  BY <1>1, RolesOnce DEF RolesBefore
<1>5. RoleOrder[n] \in ToSet(RequiredRoles)
  BY <1>1, RolesOnce
<1> QED BY <1>3, <1>4, <1>5 DEF Available

(* No role comes before the first turn, and every role before the end.        *)
LEMMA RolesThen ==
  ASSUME NEW n \in Nat
  PROVE  /\ RolesBefore(1) = {}
         /\ n > Len(RoleOrder) => Available \subseteq RolesBefore(n)
BY RolesOnce DEF RolesBefore, Available

(* What a step that takes a card or leaves things as they are keeps.          *)
LEMMA RolesStand ==
  ASSUME cards' = cards, Selected \subseteq Selected'
  PROVE  /\ Available' = Available /\ \A n : RolesBefore(n)' = RolesBefore(n)
         /\ \A r : Represented(r) => Represented(r)'
<1>1. \A i, r : Has(i, r)' = Has(i, r)
  BY DEF Has
<1>2. Available' = Available
  BY <1>1 DEF Available, Has
<1>3. \A n : RolesBefore(n)' = RolesBefore(n)
  BY DEF RolesBefore, RoleOrder
<1>4. ASSUME NEW r, Represented(r) PROVE Represented(r)'
  BY <1>4 DEF Represented, Has
<1> QED BY <1>2, <1>3, <1>4

(* A turn for a role represents it, when a card has it and there is room.     *)
LEMMA RoleTurn ==
  ASSUME RolesInv, select_role
  PROVE  RolesKept'
<1>0. PICK r : r = RoleOrder[at]
  OBVIOUS
<1> DEFINE having == {i \in DOMAIN cards : Has(i, r)}
           free == having \ Selected
           fitting == {i \in free : PaperFits(i) /\ SourceFits(i)}
<1>1. /\ pc = "role" /\ CardsOK /\ cards' = cards /\ limit' = limit /\ pc' = pc /\ at' = at + 1
      /\ at <= Len(RoleOrder) /\ at \in Nat \ {0} /\ at \in DOMAIN RoleOrder /\ limit \in Nat
  <2>1. at <= Len(RoleOrder) /\ at \in Nat \ {0} /\ CardsOK
    BY DEF select_role, RolesInv, SelectionInv, CardsOK
  <2> QED BY <2>1, RolesOnce DEF select_role, CardsOK
<1>2. /\ RolesBefore(at + 1) = RolesBefore(at) \cup {r} /\ r \notin RolesBefore(at)
      /\ r \in Available <=> having # {}
  BY <1>0, <1>1, NextRole
<1>3. /\ Cardinality(Available) \in Nat /\ IsFiniteSet(Available \cap RolesBefore(at))
      /\ Cardinality(Available \cap RolesBefore(at)) \in Nat
  BY <1>1, RolesCounted
<1>4. Cardinality(Available \cap RolesBefore(at + 1)) =
        Cardinality(Available \cap RolesBefore(at)) + (IF having # {} THEN 1 ELSE 0)
  <2>1. CASE having = {}
    <3>1. Available \cap RolesBefore(at + 1) = Available \cap RolesBefore(at)
      BY <1>2, <2>1
    <3>2. \A n \in Nat : n + 0 = n
      OBVIOUS
    <3> QED BY <1>3, <2>1, <3>1, <3>2
  <2>2. CASE having # {}
    <3>1. Available \cap RolesBefore(at + 1) = (Available \cap RolesBefore(at)) \cup {r}
      BY <1>2, <2>2
    <3>2. r \notin Available \cap RolesBefore(at)
      BY <1>2
    <3> QED BY <1>3, <2>2, <3>1, <3>2, FS_AddElement
  <2> QED BY <2>1, <2>2
<1>5. /\ Cardinality(Selected) <= Cardinality(Available \cap RolesBefore(at))
      /\ Cardinality(Available) <= limit =>
           \A q \in Available \cap RolesBefore(at) : Represented(q)
      /\ Cardinality(Selected) \in Nat /\ Selected \subseteq DOMAIN cards
  BY <1>1, Counts DEF RolesInv, RolesKept, RolesInTurn
<1>6. Cardinality(Available \cap RolesBefore(at + 1)) <= Cardinality(Available)
  <2>1. at + 1 \in Nat
    BY <1>1
  <2> QED BY <2>1, RolesCounted
<1>7. ASSUME \/ Cardinality(Selected') = Cardinality(Selected)
             \/ Cardinality(Selected') = Cardinality(Selected) + 1 /\ having # {},
             Selected \subseteq Selected',
             Cardinality(Available) <= limit /\ having # {} => \E i \in having : i \in Selected'
      PROVE  RolesKept'
  <2>1. /\ Available' = Available /\ RolesBefore(at)' = RolesBefore(at + 1)
        /\ \A q : Represented(q) => Represented(q)'
    <3>1. RolesBefore(at)' = RolesBefore(at + 1)
      BY <1>1 DEF RolesBefore, RoleOrder
    <3> QED BY <1>1, <1>7, <3>1, RolesStand
  <2>2. Cardinality(Selected') <= Cardinality(Available \cap RolesBefore(at + 1))
    BY <1>3, <1>4, <1>5, <1>7
  <2>3. having # {} /\ Cardinality(Available) <= limit => Represented(r)'
    BY <1>1, <1>7 DEF Represented, Has
  <2>4. Cardinality(Available) <= limit =>
          \A q \in Available \cap RolesBefore(at + 1) : Represented(q)'
    BY <1>2, <1>5, <2>1, <2>3
  <2>5. at + 1 <= Len(RoleOrder) + 1 /\ Len(RoleOrder') = Len(RoleOrder)
    BY <1>1, RolesOnce DEF RoleOrder
  <2>6. RolesInTurn'
    BY <1>1, <2>1, <2>2, <2>4, <2>5 DEF RolesInTurn
  <2> QED BY <1>1, <2>6 DEF RolesKept
<1>8. CASE having = {}
  <2>1. reason' = reason
    BY <1>0, <1>8 DEF select_role
  <2>2. Selected' = Selected
    BY <2>1 DEF Selected
  <2> QED BY <1>7, <1>8, <2>2
<1>9. CASE having # {} /\ Full
  <2>1. reason' = reason
    BY <1>0, <1>9 DEF select_role
  <2>2. Selected' = Selected
    BY <2>1 DEF Selected
  <2>3. ~(Cardinality(Available) <= limit)
    BY <1>1, <1>3, <1>4, <1>5, <1>6, <1>9 DEF Full
  <2> QED BY <1>7, <2>2, <2>3
<1>10. CASE having # {} /\ ~Full /\ free = {}
  <2>1. reason' = reason
    BY <1>0, <1>10 DEF select_role
  <2>2. Selected' = Selected /\ \E i \in having : i \in Selected'
    BY <1>10, <2>1 DEF Selected
  <2> QED BY <1>7, <2>2
<1>11. ASSUME NEW i \in free, Take(i, "role"), having # {} PROVE RolesKept'
  <2>1. Selected' = Selected \cup {i} /\ Cardinality(Selected') = Cardinality(Selected) + 1
    BY <1>1, <1>11, TakeAdds
  <2> QED BY <1>7, <1>11, <2>1
<1>12. CASE having # {} /\ ~Full /\ free # {}
  <2>1. CASE fitting # {}
    <3>1. Best(fitting, r) \in fitting
      BY <1>1, <2>1, BestIsOne
    <3>2. Take(Best(fitting, r), "role")
      BY <1>0, <1>12, <2>1 DEF select_role
    <3> QED BY <1>11, <1>12, <3>1, <3>2
  <2>2. CASE fitting = {}
    <3>1. Best(free, r) \in free
      BY <1>1, <1>12, BestIsOne
    <3>2. Take(Best(free, r), "role")
      BY <1>0, <1>12, <2>2 DEF select_role
    <3> QED BY <1>11, <1>12, <3>1, <3>2
  <2> QED BY <2>1, <2>2
<1> QED BY <1>8, <1>9, <1>10, <1>12

(* The loops that fill the budget keep what the roles have.                   *)
LEMMA RolesStay ==
  ASSUME RolesInv, select_card \/ next_loop \/ UNCHANGED vars
  PROVE  RolesKept'
<1>1. /\ CardsOK /\ cards' = cards /\ limit' = limit /\ Selected \subseteq Selected'
  <2>1. CASE select_card
    <3>1. at \in DOMAIN cards /\ CardsOK /\ cards' = cards /\ limit' = limit
          /\ pc \in {"strict", "source", "any"}
      BY <2>1 DEF select_card, RolesInv, SelectionInv, CardsOK
    <3>2. UNCHANGED reason \/ (at \in DOMAIN cards \ Selected /\ Take(at, pc))
      BY <2>1, <3>1 DEF select_card
    <3> QED BY <3>1, <3>2, SharesGrow
  <2>2. CASE next_loop \/ UNCHANGED vars
    BY <2>2 DEF next_loop, vars, card_vars, RolesInv, SelectionInv, Selected
  <2> QED BY <2>1, <2>2
<1>2. /\ Available' = Available /\ \A r : Represented(r) => Represented(r)'
  BY <1>1, RolesStand
<1>3. CASE pc \in {"strict", "source", "any", "done"}
  <2>1. pc' \in {"strict", "source", "any", "done"}
    BY <1>3 DEF select_card, next_loop, vars
  <2>2. Cardinality(Available) <= limit => \A r \in Available : Represented(r)
    BY <1>3 DEF RolesInv, RolesKept, RolesInTurn
  <2> QED BY <1>1, <1>2, <2>1, <2>2 DEF RolesKept, RolesInTurn
<1>4. CASE next_loop /\ pc = "role"
  <2>1. at > Len(RoleOrder) /\ at \in Nat /\ pc' \in {"strict", "done"}
    BY <1>1, <1>4 DEF next_loop, CardsOK
  <2>2. Available \subseteq RolesBefore(at)
    BY <2>1, RolesThen
  <2>3. Cardinality(Available) <= limit => \A r \in Available : Represented(r)
    BY <1>4, <2>2 DEF RolesInv, RolesKept, RolesInTurn
  <2> QED BY <1>1, <1>2, <2>1, <2>3 DEF RolesKept, RolesInTurn
<1>5. CASE UNCHANGED vars
  BY <1>5 DEF vars, card_vars, RolesInv, RolesKept, RolesInTurn, Available, RolesBefore, RoleOrder,
     Represented, Has, Selected
<1>6. CASE select_card
  BY <1>3, <1>6 DEF select_card
<1>7. CASE next_loop
  BY <1>3, <1>4, <1>7 DEF next_loop
<1> QED BY <1>5, <1>6, <1>7

(* Nothing before the loops touches what the roles have.                      *)
LEMMA RolesUntouched ==
  ASSUME RolesInv,
         search \/ take \/ sort_pool \/ flag \/ top_up \/ judge \/ convert \/ rank_card \/ resolve_config
  PROVE  RolesKept'
<1>1. pc' \in {"search", "take", "flag", "convert", "rank"} \/ resolve_config
  BY DEF search, take, sort_pool, flag, top_up, judge, convert, rank_card
<1>2. CASE pc' \in {"search", "take", "flag", "convert", "rank"} /\ ~resolve_config
  <2>1. pc' = "rank" => at' = 1
    BY <1>2 DEF search, take, sort_pool, flag, top_up, judge, convert, rank_card, RolesInv,
       RolesKept, RolesInTurn
  <2> QED BY <1>2, <2>1 DEF RolesKept, RolesInTurn
<1>3. CASE resolve_config
  <2>1. /\ pc = "rank" /\ pc' = "role" /\ at' = 1 /\ cards' = cards /\ reason' = reason
        /\ Selected = {}
    BY <1>3 DEF resolve_config, search_vars, RolesInv, SelectionInv, NothingChosenYet, RolesKept,
       RolesInTurn
  <2>2. Selected' = {} /\ Cardinality(Selected') = 0
    BY <2>1, FS_EmptySet DEF Selected
  <2>3. RolesBefore(at)' = {} /\ Len(RoleOrder') \in Nat
    BY <2>1, RolesThen, RolesOnce DEF RolesBefore, RoleOrder
  <2>4. Cardinality((Available \cap RolesBefore(at))') = 0
    BY <2>3, FS_EmptySet
  <2>5. at' <= Len(RoleOrder') + 1
    BY <2>1, <2>3
  <2> QED BY <2>1, <2>2, <2>3, <2>4, <2>5 DEF RolesKept, RolesInTurn
<1> QED BY <1>1, <1>2, <1>3

(* Whatever the cards and the budget: when there is room for a card of each   *)
(* required role that some card has, every such role is represented.          *)
THEOREM RolesCorrect == Spec => []RolesInv
<1>1. Init => RolesInv
  <2> SUFFICES ASSUME Init PROVE RolesInv
    OBVIOUS
  <2>1. pc = "search" /\ SelectionInv
    BY SelectionStarts DEF Init
  <2> QED BY <2>1 DEF RolesInv, RolesKept, RolesInTurn
<1>2. RolesInv /\ [Next]_vars => RolesInv'
  <2> SUFFICES ASSUME RolesInv, [Next]_vars PROVE RolesInv'
    OBVIOUS
  <2>1. SelectionInv'
    BY SelectionSteps DEF RolesInv
  <2>2. RolesKept'
    BY RoleTurn, RolesStay, RolesUntouched DEF Next
  <2> QED BY <2>1, <2>2 DEF RolesInv
<1> QED BY <1>1, <1>2, PTL DEF Spec

(* In particular a required role that some card has is not lost.              *)
THEOREM RolesAreKept == Spec => []RolesKept
<1>1. RolesInv => RolesKept
  BY DEF RolesInv
<1> QED BY <1>1, RolesCorrect, PTL

-----------------------------------------------------------------------------
(* The passages.                                                              *)

(* There is a set of passages that _dedupe_scored retains.  The proof is by    *)
(* the least search result, as a length, that would have none.                *)
LEMMA DedupesExists ==
  ASSUME found \in Seq(Passages)
  PROVE  \E K \in SUBSET DOMAIN found : Dedupes(K)
<1> DEFINE like(i, k) == Equivalent(found[i], found[k])
           Upto(n, K) == \A i \in 1 .. n : i \in K <=> \A k \in K : k < i => ~like(i, k)
           bad == {n \in 0 .. Len(found) : \A K \in SUBSET (1 .. n) : ~Upto(n, K)}
<1>1. Len(found) \in Nat /\ DOMAIN found = 1 .. Len(found)
  OBVIOUS
<1>2. SUFFICES ASSUME bad # {} PROVE FALSE
  <2>1. Len(found) \notin bad => \E K \in SUBSET (1 .. Len(found)) : Upto(Len(found), K)
    BY <1>1
  <2> QED BY <1>1, <2>1 DEF Dedupes
<1> HIDE DEF like
<1>3. bad \subseteq Nat
  OBVIOUS
<1>4. PICK n \in bad : \A m \in bad : n <= m
  BY <1>2, <1>3, LeastPosition
<1>5. n # 0
  <2>1. Upto(0, {}) /\ {} \in SUBSET (1 .. 0)
    OBVIOUS
  <2>2. 0 \notin bad
    BY <2>1
  <2> HIDE DEF bad
  <2> QED BY <2>2, <1>4
<1>6. n \in Nat /\ n \in 1 .. Len(found) /\ n - 1 \in 0 .. Len(found) /\ n - 1 \notin bad
  <2>1. n \in 0 .. Len(found)
    BY <1>4
  <2> HIDE DEF bad
  <2>2. n - 1 \notin bad
    <3>1. \A a, b \in Int : b = a - 1 => ~(a <= b)
      OBVIOUS
    <3> QED BY <1>1, <1>4, <2>1, <3>1
  <2> QED BY <1>1, <1>5, <2>1, <2>2
<1>7. PICK K \in SUBSET (1 .. n - 1) : Upto(n - 1, K)
  BY <1>6
<1> DEFINE L == IF \A k \in K : ~like(n, k) THEN K \cup {n} ELSE K
<1>8. L \in SUBSET (1 .. n) /\ (\A k \in L : k # n => k \in K) /\ K \subseteq L
      /\ n \notin K /\ (n \in L <=> \A k \in K : ~like(n, k))
  BY <1>6
<1> HIDE DEF L
<1>9. Upto(n, L)
  <2>1. ASSUME NEW i \in 1 .. n - 1 PROVE i \in L <=> \A k \in L : k < i => ~like(i, k)
    BY <1>6, <1>7, <1>8
  <2>2. n \in L <=> \A k \in L : k < n => ~like(n, k)
    BY <1>6, <1>7, <1>8
  <2> QED BY <1>6, <2>1, <2>2
<1> QED BY <1>4, <1>8, <1>9

(* Of two passages that are alike the later one is not retained.              *)
LEMMA RetainedIs ==
  ASSUME found \in Seq(Passages), NEW i \in DOMAIN found, Retained(i),
         NEW k \in DOMAIN found, Retained(k), k < i
  PROVE  ~Equivalent(found[i], found[k])
<1> DEFINE K == CHOOSE K \in SUBSET DOMAIN found : Dedupes(K)
<1>1. Dedupes(K)
  BY DedupesExists
<1>2. i \in K /\ k \in K
  BY DEF Retained
<1> QED BY <1>1, <1>2 DEF Dedupes

(* Likeness goes both ways.                                                   *)
LEMMA EquivalentBack ==
  ASSUME NEW c \in Passages, NEW d \in Passages, Equivalent(c, d)
  PROVE  Equivalent(d, c)
<1>1. c.text \in Nat /\ d.text \in Nat
  <2>1. c.text \in Texts \cup {0} /\ d.text \in Texts \cup {0}
    BY DEF Passages
  <2>2. Texts \subseteq Nat
    BY ConstantsAssumption
  <2>3. 0 \in Nat
    OBVIOUS
  <2> QED BY <2>1, <2>2, <2>3, Zenon
<1>2. \A a, b \in Nat : a - b \in -1 .. 1 => b - a \in -1 .. 1
  OBVIOUS
<1> QED BY <1>1, <1>2 DEF Equivalent

-----------------------------------------------------------------------------
(* The stable sort is a permutation.                                          *)

(* What the pool holds.                                                       *)
Entries == [id : Nat, score : Int]

(* ByScore lists the same entries in some order.                              *)
LEMMA SortPermutes ==
  ASSUME NEW s \in Seq(Entries)
  PROVE  \E f \in Bijection(DOMAIN s, DOMAIN s) : ByScore(s) = [j \in DOMAIN s |-> s[f[j]]]
<1> DEFINE D == DOMAIN s
           before(i, j) == s[i].score > s[j].score \/ (s[i].score = s[j].score /\ i <= j)
           upto(i) == {k \in D : before(k, i)}
           rank == [i \in D |-> Cardinality(upto(i))]
           f == [j \in D |-> CHOOSE i \in D : rank[i] = j]
<1>1. Len(s) \in Nat /\ D = 1 .. Len(s) /\ \A i \in D : s[i].score \in Int /\ i \in Nat
  <2>1. s \in [1 .. Len(s) -> Entries] /\ Len(s) \in Nat
    OBVIOUS
  <2> HIDE DEF D
  <2>2. D = 1 .. Len(s) /\ \A i \in D : s[i] \in Entries
    BY <2>1 DEF D
  <2> QED BY <2>1, <2>2 DEF Entries
<1>2. IsFiniteSet(D) /\ Cardinality(D) = Len(s)
  BY <1>1, FS_Interval
<1>3. \A i, j \in D : before(i, j) \/ before(j, i)
  BY <1>1
<1>4. \A i, j, k \in D : before(i, j) /\ before(j, k) => before(i, k)
  BY <1>1
<1>5. \A i, j \in D : before(i, j) /\ before(j, i) => i = j
  BY <1>1
<1>6. \A i \in D : before(i, i)
  BY <1>1
<1>7. ByScore(s) = [j \in D |-> s[CHOOSE i \in D : Cardinality(upto(i)) = j]]
  BY DEF ByScore
<1>8. \A j : (CHOOSE i \in D : Cardinality(upto(i)) = j) = (CHOOSE i \in D : rank[i] = j)
  <2>1. \A i \in D : rank[i] = Cardinality(upto(i))
    OBVIOUS
  <2> HIDE DEF rank
  <2> QED BY <2>1
<1> HIDE DEF before
<1>9. \A i \in D : IsFiniteSet(upto(i)) /\ rank[i] \in Nat /\ rank[i] \in D
  <2> TAKE i \in D
  <2>1. IsFiniteSet(upto(i)) /\ Cardinality(upto(i)) <= Len(s) /\ Cardinality(upto(i)) \in Nat
    BY <1>2, FS_Subset, FS_CardinalityType
  <2>2. upto(i) # {}
    BY <1>6
  <2>3. Cardinality(upto(i)) # 0
    BY <2>1, <2>2, FS_EmptySet
  <2>4. rank[i] = Cardinality(upto(i))
    OBVIOUS
  <2> HIDE DEF rank, upto
  <2> QED BY <1>1, <2>1, <2>3, <2>4
<1>10. ASSUME NEW i \in D, NEW j \in D, before(i, j), i # j PROVE rank[i] < rank[j]
  <2>1. upto(i) \subseteq upto(j)
    BY <1>4, <1>10
  <2>2. j \in upto(j) /\ j \notin upto(i)
    BY <1>5, <1>6, <1>10
  <2>3. Cardinality(upto(i)) <= Cardinality(upto(j)) /\ Cardinality(upto(i)) # Cardinality(upto(j))
    BY <1>9, <2>1, <2>2, FS_Subset
  <2>4. rank[i] = Cardinality(upto(i)) /\ rank[j] = Cardinality(upto(j))
    OBVIOUS
  <2> HIDE DEF rank, upto
  <2> QED BY <1>9, <2>3, <2>4
<1> HIDE DEF upto, rank
<1>11. \A i, j \in D : rank[i] = rank[j] => i = j
  <2> SUFFICES ASSUME NEW i \in D, NEW j \in D, rank[i] = rank[j], i # j PROVE FALSE
    OBVIOUS
  <2>1. rank[i] < rank[j] \/ rank[j] < rank[i]
    BY <1>3, <1>10
  <2>2. rank[i] \in Nat /\ rank[j] \in Nat
    BY <1>9
  <2> QED BY <2>1, <2>2
<1>12. rank \in Injection(D, D)
  <2>1. rank \in [D -> D]
    BY <1>9 DEF rank
  <2> QED BY <1>11, <2>1 DEF Injection, IsInjective
<1>13. rank \in Surjection(D, D)
  BY <1>2, <1>12, FS_Injection
<1>14. \A j \in D : f[j] \in D /\ rank[f[j]] = j
  BY <1>13 DEF Surjection
<1>15. \A i \in D : f[rank[i]] = i
  BY <1>9, <1>11, <1>14
<1>16. f \in [D -> D]
  BY <1>14
<1> HIDE DEF f
<1>17. f \in Bijection(D, D)
  <2>1. \A i, j \in D : f[i] = f[j] => i = j
    BY <1>14
  <2>2. \A i \in D : \E j \in D : f[j] = i
    BY <1>9, <1>15
  <2> QED BY <1>16, <2>1, <2>2 DEF Bijection, Injection, IsInjective, Surjection
<1>18. ByScore(s) = [j \in D |-> s[f[j]]]
  <2>1. \A j \in D : f[j] = CHOOSE i \in D : rank[i] = j
    BY DEF f
  <2>2. \A j \in D : (CHOOSE i \in D : Cardinality(upto(i)) = j) = f[j]
    BY <1>8, <2>1
  <2> QED BY <1>7, <2>2
<1> QED BY <1>17, <1>18

-----------------------------------------------------------------------------
(* The pool.                                                                  *)

(* The types of what a packet is selected from.                               *)
PoolTyped ==
  /\ found \in Seq(Passages)
  /\ pool \in Seq(Entries) /\ \A i \in DOMAIN pool : pool[i].id \in DOMAIN found
  /\ context \subseteq DOMAIN pool

(* What the type says of the pool and the context.                            *)
LEMMA PoolIsTyped ==
  ASSUME TypeOK
  PROVE  /\ PoolTyped
         /\ Len(found) \in Nat /\ DOMAIN found = 1 .. Len(found)
         /\ Len(pool) \in Nat /\ DOMAIN pool = 1 .. Len(pool)
         /\ \A i \in DOMAIN found : found[i] \in Passages
         /\ \A i \in DOMAIN pool : pool[i] \in Entries /\ pool[i].id \in Nat /\ pool[i].id \in DOMAIN found
         /\ at \in Nat \ {0} /\ asked \in Nat \ {0}
<1>1. PoolTyped
  BY DEF TypeOK, PoolTyped, Entries
<1>2. found \in Seq(Passages) /\ pool \in Seq(Entries)
  BY <1>1 DEF PoolTyped
<1>3. /\ Len(found) \in Nat /\ DOMAIN found = 1 .. Len(found)
      /\ Len(pool) \in Nat /\ DOMAIN pool = 1 .. Len(pool)
      /\ \A i \in DOMAIN found : found[i] \in Passages
      /\ \A i \in DOMAIN pool : pool[i] \in Entries
  BY <1>2
<1>4. \A i \in DOMAIN pool : pool[i].id \in Nat /\ pool[i].id \in DOMAIN found
  BY <1>1, <1>3 DEF PoolTyped, Entries
<1>5. at \in Nat \ {0} /\ asked \in Asked
  BY DEF TypeOK, CardsOK
<1>6. Asked \subseteq Nat \ {0}
  BY ConstantsAssumption
<1> QED BY <1>1, <1>3, <1>4, <1>5, <1>6

(* The budgets.                                                               *)
LEMMA PoolBudgets ==
  ASSUME TypeOK
  PROVE  /\ LlmContext \in Nat \ {0} /\ PerArticle \in Nat \ {0}
         /\ SelectionPool \in Nat /\ ContextCap \in Nat \ {0}
<1>1. LlmContext \in Nat \ {0} /\ PerArticle \in Nat \ {0} /\ PoolSize \in Nat
  BY ConstantsAssumption
<1>2. SelectionPool \in Nat
  BY <1>1, PoolIsTyped DEF SelectionPool, Larger, Smaller
<1>3. ContextCap \in Nat \ {0}
  BY <1>1 DEF ContextCap, Larger
<1> QED BY <1>1, <1>2, <1>3

(* Sets of positions of the pool can be counted.                              *)
LEMMA PoolCounted ==
  ASSUME TypeOK
  PROVE  /\ IsFiniteSet(DOMAIN pool) /\ Cardinality(DOMAIN pool) = Len(pool)
         /\ \A S \in SUBSET DOMAIN pool :
              IsFiniteSet(S) /\ Cardinality(S) \in Nat /\ Cardinality(S) <= Len(pool)
         /\ \A p : PooledOf(p) \in SUBSET DOMAIN pool /\ InContextOf(p) \in SUBSET DOMAIN pool
         /\ \A p : /\ IsFiniteSet(PooledOf(p)) /\ Cardinality(PooledOf(p)) \in Nat
                   /\ IsFiniteSet(InContextOf(p)) /\ Cardinality(InContextOf(p)) \in Nat
<1>1. Len(pool) \in Nat /\ DOMAIN pool = 1 .. Len(pool)
  BY PoolIsTyped
<1>2. IsFiniteSet(DOMAIN pool) /\ Cardinality(DOMAIN pool) = Len(pool)
  <2>1. \A n \in Nat : IsFiniteSet(1 .. n) /\ Cardinality(1 .. n) = n
    BY FS_Interval
  <2> QED BY <1>1, <2>1, Zenon
<1>3. \A S \in SUBSET DOMAIN pool :
        IsFiniteSet(S) /\ Cardinality(S) \in Nat /\ Cardinality(S) <= Len(pool)
  BY <1>2, FS_Subset, FS_CardinalityType
<1>4. \A p : PooledOf(p) \in SUBSET DOMAIN pool /\ InContextOf(p) \in SUBSET DOMAIN pool
  BY DEF PooledOf, InContextOf
<1> QED BY <1>2, <1>3, <1>4

(* A pool without passages has nothing to count.                              *)
LEMMA EmptyPool ==
  ASSUME pool = <<>>
  PROVE  DOMAIN pool = {} /\ Len(pool) = 0 /\ \A p : PooledOf(p) = {} /\ Cardinality(PooledOf(p)) = 0
<1>1. DOMAIN pool = {} /\ Len(pool) = 0
  OBVIOUS
<1>2. \A p : PooledOf(p) = {}
  BY <1>1 DEF PooledOf
<1> QED BY <1>1, <1>2, FS_EmptySet

(* A search leaves the pool empty.                                            *)
LEMMA SearchStep ==
  ASSUME PoolInv, search
  PROVE  PoolInv'
<1> USE DEF PoolInv
<1>1. pool = <<>> /\ context = {} /\ at = 1 /\ pc = "search"
  BY DEF search, TakenInOrder
<1>2. \E R \in SUBSET Papers : \E n \in 0 .. MaxFound : \E s \in [1 .. n -> Passages] :
        results' = R /\ found' = s /\ pc' = IF R = {} /\ attempts' < 3 THEN "search" ELSE "take"
  BY DEF search
<1>3. found' \in Seq(Passages) /\ results' \in SUBSET Papers
  <2>1. MaxFound \in Nat
    BY ConstantsAssumption
  <2>2. PICK n \in 0 .. MaxFound : found' \in [1 .. n -> Passages] /\ results' \in SUBSET Papers
    BY <1>2
  <2>3. n \in Nat
    BY <2>1
  <2> QED BY <2>2, <2>3
<1>4. /\ pc' \in {"search", "take"} /\ pool' = <<>> /\ context' = {} /\ at' = 1
      /\ UNCHANGED <<asked, packet, card_vars>>
  BY <1>1 DEF search
<1>5. attempts' \in 0 .. 3 /\ (pc' = "search" => attempts' < 3)
  <2>1. attempts \in 0 .. 3 /\ attempts < 3 /\ attempts' = attempts + 1
    BY <1>1 DEF TypeOK, TakenInOrder, search
  <2> QED BY <1>2, <2>1
<1>6. TypeOK'
  <2>1. pool' \in Seq([id : Nat, score : Int]) /\ DOMAIN pool' = {}
    BY <1>4
  <2>2. CardsOK'
    BY <1>1, <1>4 DEF TypeOK, CardsOK, card_vars
  <2>3. /\ asked' \in Asked /\ seeds' \in [Papers \X {"text", "figure"} -> Nat]
        /\ packet' \in [status : {"none", "weak", "partial", "sufficient"},
                        fallback : {"none", "no_results", "vector", "low_evidence_count"},
                        limited : BOOLEAN]
    BY <1>4 DEF TypeOK, card_vars
  <2> QED BY <1>3, <1>4, <1>5, <2>1, <2>2, <2>3 DEF TypeOK
<1>7. DOMAIN pool' = {} /\ Len(pool') = 0 /\ \A p : Cardinality(PooledOf(p)') = 0
  <2>1. pool' = <<>>
    BY <1>4
  <2>2. DOMAIN pool' = {} /\ Len(pool') = 0
    BY <2>1
  <2>3. \A p : PooledOf(p)' = {}
    BY <2>2 DEF PooledOf
  <2> QED BY <2>2, <2>3, FS_EmptySet
<1>8. PerArticle \in Nat
  BY ConstantsAssumption
<1>9. HardCap' /\ NoDuplicates'
  BY <1>7, <1>8 DEF HardCap, NoDuplicates
<1>10. Len(pool') <= SelectionPool'
  <2>1. (TypeOK => SelectionPool \in Nat)'
    BY PoolBudgets, PTL
  <2> QED BY <1>6, <1>7, <2>1
<1>11. TakenInOrder'
  <2>1. Len(found') \in Nat
    BY <1>3
  <2> QED BY <1>4, <1>5, <1>7, <1>10, <2>1 DEF TakenInOrder
<1> QED BY <1>4, <1>6, <1>9, <1>11 DEF BestArePooled, ContextIsDiverse, NothingIsTold, FlaggedInOrder

(* What the pool has of a paper when a passage is added.                      *)
LEMMA PoolGrows ==
  ASSUME TypeOK, found' = found, NEW i \in DOMAIN found, NEW x \in Int,
         pool' = Append(pool, [id |-> i, score |-> x])
  PROVE  /\ pool' \in Seq(Entries) /\ Len(pool') = Len(pool) + 1
         /\ DOMAIN pool' = DOMAIN pool \cup {Len(pool) + 1}
         /\ \A j \in DOMAIN pool : pool'[j] = pool[j]
         /\ pool'[Len(pool) + 1].id = i /\ Len(pool) + 1 \notin DOMAIN pool
         /\ \A p : Cardinality(PooledOf(p)') =
              Cardinality(PooledOf(p)) + (IF found[i].paper = p THEN 1 ELSE 0)
<1> DEFINE e == [id |-> i, score |-> x]
           n == Len(pool) + 1
<1>1. /\ pool \in Seq(Entries) /\ Len(pool) \in Nat /\ DOMAIN pool = 1 .. Len(pool) /\ i \in Nat
      /\ found \in Seq(Passages)
  BY PoolIsTyped DEF PoolTyped
<1>2. e \in Entries /\ e.id = i
  BY <1>1 DEF Entries
<1> HIDE DEF e
<1>3. /\ pool' \in Seq(Entries) /\ Len(pool') = n
      /\ \A j \in 1 .. Len(pool) : pool'[j] = pool[j]
      /\ pool'[n] = e
  <2>1. pool' = Append(pool, e)
    BY DEF e
  <2> QED BY <1>1, <1>2, <2>1
<1>4. DOMAIN pool' = DOMAIN pool \cup {n} /\ n \notin DOMAIN pool
  <2>1. DOMAIN pool' = 1 .. n
    BY <1>3
  <2>2. \A m \in Nat : 1 .. m + 1 = (1 .. m) \cup {m + 1} /\ m + 1 \notin 1 .. m
    OBVIOUS
  <2> QED BY <1>1, <2>1, <2>2
<1> HIDE DEF n
<1>5. ASSUME NEW p
      PROVE Cardinality(PooledOf(p)') = Cardinality(PooledOf(p)) + (IF found[i].paper = p THEN 1 ELSE 0)
  <2>1. IsFiniteSet(PooledOf(p)) /\ Cardinality(PooledOf(p)) \in Nat /\ n \notin PooledOf(p)
    BY <1>4, PoolCounted
  <2>2. \A j \in DOMAIN pool : found'[pool'[j].id].paper = found[pool[j].id].paper
    BY <1>1, <1>3
  <2>3. CASE found[i].paper = p
    <3>1. PooledOf(p)' = PooledOf(p) \cup {n}
      BY <1>2, <1>3, <1>4, <2>2, <2>3 DEF PooledOf
    <3> QED BY <2>1, <2>3, <3>1, FS_AddElement
  <2>4. CASE found[i].paper # p
    <3>1. PooledOf(p)' = PooledOf(p)
      BY <1>2, <1>3, <1>4, <2>2, <2>4 DEF PooledOf
    <3> QED BY <2>1, <2>4, <3>1
  <2> QED BY <2>3, <2>4
<1> QED BY <1>1, <1>2, <1>3, <1>4, <1>5 DEF n

(* The rest of the type, where only the pool or the context changes.          *)
LEMMA PoolTypeKept ==
  ASSUME TypeOK, UNCHANGED <<asked, attempts, results, found, packet, card_vars>>,
         pc' \in {"take", "flag"}, at' \in Nat \ {0},
         pool' \in Seq(Entries), \A i \in DOMAIN pool' : pool'[i].id \in DOMAIN found,
         context' \in SUBSET DOMAIN pool'
  PROVE  TypeOK'
<1>1. CardsOK'
  BY DEF TypeOK, CardsOK, card_vars
<1>2. asked' \in Asked /\ attempts' \in 0 .. 3 /\ results' \subseteq Papers /\ found' \in Seq(Passages)
      /\ seeds' \in [Papers \X {"text", "figure"} -> Nat]
  BY DEF TypeOK, card_vars
<1>3. packet' \in [status : {"none", "weak", "partial", "sufficient"},
                   fallback : {"none", "no_results", "vector", "low_evidence_count"},
                   limited : BOOLEAN]
  BY DEF TypeOK
<1>4. pool' \in Seq([id : Nat, score : Int]) /\ \A i \in DOMAIN pool' : pool'[i].id \in DOMAIN found'
  BY DEF Entries
<1> QED BY <1>1, <1>2, <1>3, <1>4 DEF TypeOK

(* What is retained depends on the passages alone.                            *)
LEMMA RetainedStays == ASSUME found' = found PROVE \A i : Retained(i)' <=> Retained(i)
BY DEF Retained, Dedupes

(* Retained passages are not alike, whichever comes first.                    *)
LEMMA RetainedDiffer ==
  ASSUME TypeOK, NEW i \in DOMAIN found, NEW k \in DOMAIN found, Retained(i), Retained(k), i # k
  PROVE  ~Equivalent(found[i], found[k])
<1>1. found \in Seq(Passages) /\ i \in Nat /\ k \in Nat /\ found[i] \in Passages /\ found[k] \in Passages
  BY PoolIsTyped DEF PoolTyped
<1>2. CASE k < i
  BY <1>1, <1>2, RetainedIs
<1>3. CASE i < k
  <2>1. ~Equivalent(found[k], found[i])
    BY <1>1, <1>3, RetainedIs
  <2> QED BY <1>1, <2>1, EquivalentBack
<1> QED BY <1>1, <1>2, <1>3

(* A turn of the loop that fills the pool.                                    *)
LEMMA TakeStep ==
  ASSUME PoolInv, take
  PROVE  PoolInv'
<1> USE DEF PoolInv
<1>1. /\ pc = "take" /\ pc' = "take" /\ at <= Len(found) /\ Len(pool) < SelectionPool /\ at' = at + 1
      /\ UNCHANGED <<asked, attempts, results, found, context, packet, card_vars>>
      /\ context = {} /\ at' \in Nat \ {0} /\ at \in DOMAIN found /\ context' = {}
  BY PoolIsTyped DEF take, TakenInOrder
<1>2. \A i : Retained(i)' <=> Retained(i)
  BY <1>1, RetainedStays
<1>3. SelectionPool' = SelectionPool
  BY <1>1 DEF SelectionPool
<1>4. /\ SelectionPool \in Nat /\ PerArticle \in Nat /\ Len(pool) \in Nat /\ Len(found) \in Nat
      /\ at \in Nat \ {0} /\ \A p : Cardinality(PooledOf(p)) \in Nat
      /\ \A i \in DOMAIN found : i \in Nat /\ found[i] \in Passages /\ found[i].paper \in Papers
      /\ \A i \in DOMAIN pool : pool[i].id \in Nat /\ pool[i].id \in DOMAIN found
  BY PoolIsTyped, PoolBudgets, PoolCounted DEF Passages
<1>5. /\ \A j \in DOMAIN pool : pool[j].id < at
      /\ \A i \in DOMAIN found : i < at /\ Retained(i) /\ (\A j \in DOMAIN pool : pool[j].id # i) =>
           Cardinality(PooledOf(found[i].paper)) = PerArticle
  BY <1>1 DEF TakenInOrder
<1>6. CASE ~MayTake(at)
  <2>1. pool' = pool
    BY <1>1, <1>6 DEF take
  <2>2. \A p : PooledOf(p)' = PooledOf(p)
    BY <1>1, <2>1 DEF PooledOf
  <2>3. TypeOK'
    <3>1. pool' \in Seq(Entries) /\ \A i \in DOMAIN pool' : pool'[i].id \in DOMAIN found
      BY <2>1, PoolIsTyped DEF PoolTyped
    <3> QED BY <1>1, <3>1, PoolTypeKept
  <2>4. HardCap' /\ NoDuplicates'
    BY <1>1, <2>1, <2>2 DEF HardCap, NoDuplicates
  <2>5. Retained(at) => Cardinality(PooledOf(found[at].paper)) = PerArticle
    <3>1. Retained(at) => ~(Cardinality(PooledOf(found[at].paper)) < PerArticle)
      BY <1>6 DEF MayTake
    <3>2. Cardinality(PooledOf(found[at].paper)) <= PerArticle
      BY <1>1, <1>4 DEF HardCap
    <3> QED BY <1>4, <3>1, <3>2
  <2>6. \A i \in DOMAIN found :
          i < at + 1 /\ Retained(i) /\ (\A j \in DOMAIN pool : pool[j].id # i) =>
            Cardinality(PooledOf(found[i].paper)) = PerArticle
    <3>1. \A i \in DOMAIN found : i < at + 1 => i < at \/ i = at
      BY <1>4
    <3> QED BY <1>5, <2>5, <3>1
  <2>7. at + 1 <= Len(found) + 1 /\ \A j \in DOMAIN pool : pool[j].id < at + 1
    BY <1>1, <1>4, <1>5
  <2>8. TakenInOrder'
    BY <1>1, <1>2, <1>3, <2>1, <2>2, <2>6, <2>7 DEF TakenInOrder
  <2> QED BY <1>1, <2>3, <2>4, <2>8 DEF BestArePooled, ContextIsDiverse, NothingIsTold, FlaggedInOrder
<1>7. CASE MayTake(at)
  <2> DEFINE n == Len(pool) + 1
  <2>1. pool' = Append(pool, [id |-> at, score |-> SelectionScore(at)])
    BY <1>1, <1>7 DEF take
  <2>2. SelectionScore(at) \in Int
    <3>1. found[at].score \in Nat
      <4>1. found[at].score \in Scores /\ Scores \subseteq Nat
        BY <1>1, <1>4, ConstantsAssumption DEF Passages
      <4> QED BY <4>1
    <3> QED BY <1>4, <3>1 DEF SelectionScore
  <2>3. /\ pool' \in Seq(Entries) /\ Len(pool') = n
        /\ DOMAIN pool' = DOMAIN pool \cup {n}
        /\ \A j \in DOMAIN pool : pool'[j] = pool[j]
        /\ pool'[n].id = at /\ n \notin DOMAIN pool
        /\ \A p : Cardinality(PooledOf(p)') =
             Cardinality(PooledOf(p)) + (IF found[at].paper = p THEN 1 ELSE 0)
    BY <1>1, <2>1, <2>2, PoolGrows
  <2> HIDE DEF n
  <2>4. Retained(at) /\ Cardinality(PooledOf(found[at].paper)) < PerArticle
    BY <1>7 DEF MayTake
  <2>5. HardCap'
    <3>1. ASSUME NEW p \in Papers PROVE Cardinality(PooledOf(p)') <= PerArticle
      <4>1. Cardinality(PooledOf(p)) <= PerArticle /\ Cardinality(PooledOf(p)) \in Nat
        BY <1>4 DEF HardCap
      <4>2. CASE found[at].paper = p
        <5>1. Cardinality(PooledOf(p)) < PerArticle
          BY <2>4, <4>2
        <5> QED BY <1>4, <2>3, <4>1, <4>2, <5>1
      <4>3. CASE found[at].paper # p
        BY <2>3, <4>1, <4>3
      <4> QED BY <4>2, <4>3
    <3> QED BY <3>1 DEF HardCap
  <2>6. \A j \in DOMAIN pool' : pool'[j].id \in DOMAIN found /\ Retained(pool'[j].id) /\ pool'[j].id < at + 1
    <3>1. \A j \in DOMAIN pool : Retained(pool[j].id)
      BY DEF TakenInOrder
    <3> QED BY <1>1, <1>4, <1>5, <2>3, <2>4, <3>1
  <2>7. \A i, j \in DOMAIN pool' : i # j => pool'[i].id # pool'[j].id
    <3>1. \A i, j \in DOMAIN pool : i # j => pool[i].id # pool[j].id
      BY DEF TakenInOrder
    <3>2. \A i \in DOMAIN pool : pool[i].id # at
      BY <1>4, <1>5
    <3> QED BY <2>3, <3>1, <3>2
  <2>8. TypeOK'
    BY <1>1, <2>3, <2>6, PoolTypeKept
  <2>9. NoDuplicates'
    <3>1. ASSUME NEW i \in DOMAIN pool', NEW j \in DOMAIN pool', i # j
          PROVE ~Equivalent(found[pool'[i].id], found[pool'[j].id])
      <4>1. pool'[i].id \in DOMAIN found /\ pool'[j].id \in DOMAIN found /\ pool'[i].id # pool'[j].id
            /\ Retained(pool'[i].id) /\ Retained(pool'[j].id)
        BY <2>6, <2>7, <3>1
      <4> QED BY <4>1, RetainedDiffer
    <3> QED BY <1>1, <3>1 DEF NoDuplicates, Equivalent
  <2>10. ASSUME NEW i \in DOMAIN found, i < at + 1, Retained(i), \A j \in DOMAIN pool' : pool'[j].id # i
         PROVE  Cardinality(PooledOf(found[i].paper)') = PerArticle
    <3>1. i # at
      BY <2>3, <2>10
    <3>2. i < at /\ \A j \in DOMAIN pool : pool[j].id # i
      BY <1>4, <2>3, <2>10, <3>1
    <3>3. Cardinality(PooledOf(found[i].paper)) = PerArticle
      BY <1>5, <2>10, <3>2
    <3>4. found[i].paper # found[at].paper
      BY <1>4, <2>4, <3>3
    <3>5. PICK q : q = found[i].paper
      OBVIOUS
    <3>6. q = (found[i].paper)'
      BY <1>1, <3>5
    <3>7. Cardinality(PooledOf(q)') = PerArticle
      BY <1>4, <2>3, <3>3, <3>4, <3>5
    <3> QED BY <3>6, <3>7
  <2>11. Len(pool') <= SelectionPool /\ at + 1 <= Len(found) + 1
    BY <1>1, <1>4, <2>3 DEF n
  <2>12. TakenInOrder'
    <3>1. \A i \in DOMAIN found' :
            i < at' /\ Retained(i)' /\ (\A j \in DOMAIN pool' : pool'[j].id # i) =>
              Cardinality(PooledOf(found[i].paper)') = PerArticle
      BY <1>1, <1>2, <2>10
    <3> QED BY <1>1, <1>2, <1>3, <2>6, <2>7, <2>11, <3>1 DEF TakenInOrder, PooledOf
  <2> QED BY <1>1, <2>5, <2>8, <2>9, <2>12 DEF BestArePooled, ContextIsDiverse, NothingIsTold, FlaggedInOrder
<1> QED BY <1>6, <1>7

(* What sorting keeps of the pool.                                            *)
LEMMA SortKeeps ==
  ASSUME TypeOK, found' = found, pool' = ByScore(pool)
  PROVE  /\ pool' \in Seq(Entries) /\ Len(pool') = Len(pool) /\ DOMAIN pool' = DOMAIN pool
         /\ \A i \in DOMAIN pool : \E j \in DOMAIN pool : pool'[i] = pool[j]
         /\ \A i \in DOMAIN pool : \E j \in DOMAIN pool : pool'[j] = pool[i]
         /\ (\A i, j \in DOMAIN pool : i # j => pool[i].id # pool[j].id)
              => \A i, j \in DOMAIN pool : i # j => pool'[i].id # pool'[j].id
         /\ \A p : Cardinality(PooledOf(p)') = Cardinality(PooledOf(p))
<1> DEFINE D == DOMAIN pool
<1>1. pool \in Seq(Entries) /\ Len(pool) \in Nat /\ D = 1 .. Len(pool) /\ \A i \in D : pool[i] \in Entries
  BY PoolIsTyped DEF PoolTyped
<1>2. PICK f \in Bijection(D, D) : pool' = [j \in D |-> pool[f[j]]]
  BY <1>1, SortPermutes
<1>3. /\ f \in [D -> D] /\ \A i, j \in D : i # j => f[i] # f[j]
      /\ \A i \in D : \E j \in D : f[j] = i
  BY <1>2 DEF Bijection, Injection, IsInjective, Surjection
<1> HIDE DEF D
<1>4. /\ DOMAIN pool' = D /\ \A j \in D : f[j] \in D /\ pool'[j] = pool[f[j]]
  BY <1>2, <1>3
<1>5. pool' \in Seq(Entries) /\ Len(pool') = Len(pool)
  <2>1. pool' \in [1 .. Len(pool) -> Entries]
    BY <1>1, <1>2, <1>3
  <2> QED BY <1>1, <2>1
<1>6. /\ \A i \in D : \E j \in D : pool'[i] = pool[j]
      /\ \A i \in D : \E j \in D : pool'[j] = pool[i]
  BY <1>3, <1>4
<1>7. (\A i, j \in D : i # j => pool[i].id # pool[j].id)
        => \A i, j \in D : i # j => pool'[i].id # pool'[j].id
  BY <1>3, <1>4
<1>8. ASSUME NEW p PROVE Cardinality(PooledOf(p)') = Cardinality(PooledOf(p))
  <2> DEFINE A == {j \in D : found[pool'[j].id].paper = p}
             B == {j \in D : found[pool[j].id].paper = p}
             g == [j \in A |-> f[j]]
  <2>1. PooledOf(p)' = A /\ PooledOf(p) = B
    BY <1>4 DEF PooledOf, D
  <2>2. \A j \in D : j \in A <=> f[j] \in B
    BY <1>4
  <2>3. g \in [A -> B] /\ (\A i, j \in A : i # j => g[i] # g[j]) /\ \A i \in B : \E j \in A : g[j] = i
    <3>1. \A j \in A : j \in D /\ g[j] = f[j] /\ f[j] \in B
      BY <2>2
    <3>2. \A i \in B : \E j \in D : f[j] = i /\ j \in A
      BY <1>3, <2>2
    <3> QED BY <1>3, <3>1, <3>2
  <2>4. IsFiniteSet(B)
    BY <2>1, PoolCounted
  <2>5. IsFiniteSet(A)
    <3>1. A \subseteq D /\ IsFiniteSet(D)
      BY PoolCounted DEF D
    <3> QED BY <3>1, FS_Subset
  <2> HIDE DEF A, B, g
  <2>6. g \in Bijection(A, B)
    BY <2>3 DEF Bijection, Injection, IsInjective, Surjection
  <2>7. Cardinality(A) = Cardinality(B)
    BY <2>5, <2>6, FS_Bijection DEF ExistsBijection
  <2> QED BY <2>1, <2>7
<1> QED BY <1>4, <1>5, <1>6, <1>7, <1>8 DEF D

(* The sorting of the pool, after which the loop has passed what it could.    *)
LEMMA SortStep ==
  ASSUME PoolInv, sort_pool
  PROVE  PoolInv'
<1> USE DEF PoolInv
<1>1. /\ pc = "take" /\ pc' = "flag" /\ at' = 1 /\ pool' = ByScore(pool)
      /\ at > Len(found) \/ Len(pool) >= SelectionPool
      /\ UNCHANGED <<asked, attempts, results, found, context, packet, card_vars>>
      /\ context = {} /\ context' = {}
  BY DEF sort_pool, TakenInOrder
<1>2. /\ pool' \in Seq(Entries) /\ Len(pool') = Len(pool) /\ DOMAIN pool' = DOMAIN pool
      /\ \A i \in DOMAIN pool : \E j \in DOMAIN pool : pool'[i] = pool[j]
      /\ \A i \in DOMAIN pool : \E j \in DOMAIN pool : pool'[j] = pool[i]
      /\ \A i, j \in DOMAIN pool : i # j => pool'[i].id # pool'[j].id
      /\ \A p : Cardinality(PooledOf(p)') = Cardinality(PooledOf(p))
  <2>1. \A i, j \in DOMAIN pool : i # j => pool[i].id # pool[j].id
    BY DEF TakenInOrder
  <2> QED BY <1>1, <2>1, SortKeeps
<1>3. (\A i : Retained(i)' <=> Retained(i)) /\ SelectionPool' = SelectionPool
  BY <1>1, RetainedStays DEF SelectionPool
<1>4. /\ SelectionPool \in Nat /\ PerArticle \in Nat /\ Len(pool) \in Nat /\ Len(found) \in Nat
      /\ at \in Nat \ {0} /\ LlmContext \in Nat
      /\ DOMAIN found = 1 .. Len(found)
      /\ \A i \in DOMAIN pool : pool[i].id \in Nat /\ pool[i].id \in DOMAIN found
  BY PoolIsTyped, PoolBudgets
<1>5. /\ \A i \in DOMAIN pool : Retained(pool[i].id) /\ pool[i].id < at
      /\ \A i \in DOMAIN found : i < at /\ Retained(i) /\ (\A j \in DOMAIN pool : pool[j].id # i) =>
           Cardinality(PooledOf(found[i].paper)) = PerArticle
      /\ Len(pool) <= SelectionPool
  BY <1>1 DEF TakenInOrder
<1>6. \A i \in DOMAIN pool : pool'[i].id \in DOMAIN found /\ Retained(pool'[i].id) /\ pool'[i].id < at
  BY <1>2, <1>4, <1>5
<1>7. TypeOK'
  BY <1>1, <1>2, <1>6, PoolTypeKept
<1>8. HardCap'
  BY <1>2 DEF HardCap
<1>9. NoDuplicates'
  <2>1. ASSUME NEW i \in DOMAIN pool, NEW j \in DOMAIN pool, i # j
        PROVE ~Equivalent(found[pool'[i].id], found[pool'[j].id])
    <3>1. pool'[i].id \in DOMAIN found /\ pool'[j].id \in DOMAIN found /\ pool'[i].id # pool'[j].id
          /\ Retained(pool'[i].id) /\ Retained(pool'[j].id)
      BY <1>2, <1>6, <2>1
    <3> QED BY <3>1, RetainedDiffer
  <2> QED BY <1>1, <1>2, <2>1 DEF NoDuplicates, Equivalent
<1>10. TakenInOrder'
  BY <1>1, <1>2, <1>3, <1>5, <1>6 DEF TakenInOrder
<1>11. BestArePooled'
  <2> SUFFICES ASSUME NEW i \in DOMAIN found, Retained(i), \A j \in DOMAIN pool' : pool'[j].id # i
               PROVE  \/ Cardinality(PooledOf(found[i].paper)') = PerArticle
                      \/ Len(pool') = SelectionPool /\ \A j \in DOMAIN pool' : pool'[j].id < i
    BY <1>1, <1>3 DEF BestArePooled
  <2>1. ASSUME NEW k \in DOMAIN pool PROVE pool[k].id # i
    <3>1. PICK j \in DOMAIN pool : pool'[j] = pool[k]
      BY <1>2
    <3>2. pool'[j].id # i
      BY <1>2
    <3> QED BY <3>1, <3>2
  <2>2. CASE i < at
    <3>1. PICK q : q = found[i].paper
      OBVIOUS
    <3>2. q = (found[i].paper)'
      BY <1>1, <3>1
    <3>3. Cardinality(PooledOf(q)') = PerArticle
      BY <1>2, <1>5, <2>1, <2>2, <3>1
    <3> QED BY <3>2, <3>3
  <2>3. CASE ~(i < at)
    <3>1. at <= i /\ at <= Len(found)
      BY <1>4, <2>3
    <3>2. Len(pool) = SelectionPool
      BY <1>1, <1>4, <1>5, <3>1
    <3>3. \A j \in DOMAIN pool : pool'[j].id < i
      BY <1>4, <1>6, <3>1
    <3> QED BY <1>2, <3>2, <3>3
  <2> QED BY <2>2, <2>3
<1>12. FlaggedInOrder'
  <2>1. \A p : InContextOf(p)' = {} /\ Cardinality(InContextOf(p)') = 0
    <3>1. \A p : InContextOf(p)' = {}
      BY <1>1 DEF InContextOf
    <3> QED BY <3>1, FS_EmptySet
  <2>2. Cardinality(context') = 0
    BY <1>1, FS_EmptySet
  <2>3. ContextCap' \in Nat
    <3>1. (TypeOK => ContextCap \in Nat \ {0})'
      BY PoolBudgets, PTL
    <3> QED BY <1>7, <3>1
  <2>4. \A i \in DOMAIN pool : ~(i < 1)
    BY PoolIsTyped
  <2>5. ~\E p \in Papers : Cardinality(InContextOf(p)') > ContextCap'
    BY <2>1, <2>3
  <2>6. 1 <= Len(pool') + 1 /\ Cardinality(context') <= LlmContext
    BY <1>2, <1>4, <2>2
  <2> QED BY <1>1, <1>2, <2>4, <2>5, <2>6 DEF FlaggedInOrder
<1> QED BY <1>1, <1>7, <1>8, <1>9, <1>10, <1>11, <1>12 DEF ContextIsDiverse, NothingIsTold

(* What one more passage in the context does.                                 *)
LEMMA ContextGrows ==
  ASSUME PoolInv, pc = "flag", pc' = "flag", UNCHANGED <<asked, attempts, results, found, pool, packet, card_vars>>,
         at' \in Nat \ {0}, NEW i \in DOMAIN pool \ context, context' = context \cup {i}
  PROVE  /\ TypeOK' /\ HardCap' /\ NoDuplicates' /\ TakenInOrder' /\ BestArePooled'
         /\ ContextIsDiverse' /\ NothingIsTold' /\ ContextCap' = ContextCap
         /\ Cardinality(context') = Cardinality(context) + 1
         /\ \A p : Cardinality(InContextOf(p)') =
              Cardinality(InContextOf(p)) + (IF found[pool[i].id].paper = p THEN 1 ELSE 0)
<1> USE DEF PoolInv
<1>1. TypeOK'
  <2>1. PoolTyped
    BY PoolIsTyped
  <2> QED BY <2>1, PoolTypeKept DEF PoolTyped
<1>2. \A p : PooledOf(p)' = PooledOf(p)
  BY DEF PooledOf
<1>3. \A j : Retained(j)' <=> Retained(j)
  BY RetainedStays
<1>4. SelectionPool' = SelectionPool /\ ContextCap' = ContextCap
  BY DEF SelectionPool, ContextCap
<1>5. HardCap' /\ NoDuplicates'
  BY <1>2 DEF HardCap, NoDuplicates
<1>6. TakenInOrder'
  BY <1>2, <1>3, <1>4 DEF TakenInOrder
<1>7. BestArePooled'
  BY <1>2, <1>3, <1>4 DEF BestArePooled
<1>8. IsFiniteSet(context) /\ i \notin context
  BY PoolCounted, PoolIsTyped DEF PoolTyped
<1>9. Cardinality(context') = Cardinality(context) + 1
  BY <1>8, FS_AddElement
<1>10. ASSUME NEW p
       PROVE  Cardinality(InContextOf(p)') =
                Cardinality(InContextOf(p)) + (IF found[pool[i].id].paper = p THEN 1 ELSE 0)
  <2>1. IsFiniteSet(InContextOf(p)) /\ Cardinality(InContextOf(p)) \in Nat /\ i \notin InContextOf(p)
    BY <1>8, PoolCounted DEF InContextOf
  <2>2. CASE found[pool[i].id].paper = p
    <3>1. InContextOf(p)' = InContextOf(p) \cup {i}
      BY <2>2 DEF InContextOf, PooledOf
    <3> QED BY <2>1, <2>2, <3>1, FS_AddElement
  <2>3. CASE found[pool[i].id].paper # p
    <3>1. InContextOf(p)' = InContextOf(p)
      BY <2>3 DEF InContextOf, PooledOf
    <3> QED BY <2>1, <2>3, <3>1
  <2> QED BY <2>2, <2>3
<1> QED BY <1>1, <1>4, <1>5, <1>6, <1>7, <1>9, <1>10 DEF ContextIsDiverse, NothingIsTold

(* The numbers that the turns for the context compare.                        *)
LEMMA ContextFacts ==
  ASSUME PoolInv
  PROVE  /\ LlmContext \in Nat \ {0} /\ ContextCap \in Nat \ {0} /\ Len(pool) \in Nat /\ at \in Nat \ {0}
         /\ Cardinality(context) \in Nat /\ \A p : Cardinality(InContextOf(p)) \in Nat
         /\ DOMAIN pool = 1 .. Len(pool) /\ context \subseteq DOMAIN pool
         /\ \A i \in DOMAIN pool : i \in Nat /\ found[pool[i].id].paper \in Papers
<1>1. TypeOK
  BY DEF PoolInv
<1>2. context \subseteq DOMAIN pool
  BY <1>1, PoolIsTyped DEF PoolTyped
<1>3. Cardinality(context) \in Nat /\ \A p : Cardinality(InContextOf(p)) \in Nat
  BY <1>1, <1>2, PoolCounted
<1>4. /\ DOMAIN pool = 1 .. Len(pool) /\ Len(pool) \in Nat /\ at \in Nat \ {0}
      /\ \A i \in DOMAIN pool : found[pool[i].id].paper \in Papers
  BY <1>1, PoolIsTyped DEF Passages
<1> QED BY <1>1, <1>2, <1>3, <1>4, PoolBudgets

(* A turn of the loop that flags a passage while its paper has a share left.  *)
LEMMA FlagStep ==
  ASSUME PoolInv, flag
  PROVE  PoolInv'
<1> USE DEF PoolInv
<1>1. /\ pc = "flag" /\ pc' = "flag" /\ at <= Len(pool) /\ at' = at + 1 /\ Cardinality(context) < LlmContext
      /\ UNCHANGED <<asked, attempts, results, found, pool, packet, card_vars>>
  BY DEF flag
<1>2. /\ LlmContext \in Nat \ {0} /\ ContextCap \in Nat \ {0} /\ Len(pool) \in Nat /\ at \in Nat \ {0}
      /\ Cardinality(context) \in Nat /\ (\A p : Cardinality(InContextOf(p)) \in Nat)
      /\ DOMAIN pool = 1 .. Len(pool) /\ context \subseteq DOMAIN pool
      /\ \A i \in DOMAIN pool : i \in Nat /\ found[pool[i].id].paper \in Papers
  BY ContextFacts
<1>3. /\ at \in DOMAIN pool /\ at' \in Nat \ {0} /\ at \notin context
      /\ \A i \in context : i < at
      /\ \A i \in DOMAIN pool : i < at /\ i \notin context =>
           Cardinality(InContextOf(found[pool[i].id].paper)) >= ContextCap
      /\ \A p \in Papers : ~(Cardinality(InContextOf(p)) > ContextCap)
  <2>1. /\ \A i \in context : i < at
        /\ \A i \in DOMAIN pool : i < at /\ i \notin context =>
             Cardinality(InContextOf(found[pool[i].id].paper)) >= ContextCap
        /\ (\E p \in Papers : Cardinality(InContextOf(p)) > ContextCap) => at > Len(pool)
    BY <1>1 DEF FlaggedInOrder
  <2>2. ~(at > Len(pool)) /\ ~(at < at) /\ at \in DOMAIN pool /\ at' \in Nat \ {0}
    BY <1>1, <1>2
  <2> QED BY <2>1, <2>2
<1>4. PICK q : q = found[pool[at].id].paper
  OBVIOUS
<1>5. \A i \in DOMAIN pool : i < at + 1 => i < at \/ i = at
  BY <1>2
<1>6. CASE Cardinality(InContextOf(q)) < ContextCap
  <2>1. context' = context \cup {at}
    BY <1>1, <1>4, <1>6 DEF flag
  <2>2. PICK k : k = at
    OBVIOUS
  <2>3. /\ TypeOK' /\ HardCap' /\ NoDuplicates' /\ TakenInOrder' /\ BestArePooled'
        /\ ContextIsDiverse' /\ NothingIsTold' /\ ContextCap' = ContextCap
        /\ Cardinality(context') = Cardinality(context) + 1
        /\ \A p : Cardinality(InContextOf(p)') = Cardinality(InContextOf(p)) + (IF q = p THEN 1 ELSE 0)
    BY <1>1, <1>3, <1>4, <2>1, <2>2, ContextGrows
  <2>4. \A i \in context' : i < at + 1
    BY <1>2, <1>3, <2>1
  <2>5. ASSUME NEW i \in DOMAIN pool, i < at + 1, i \notin context'
        PROVE  Cardinality(InContextOf(found[pool[i].id].paper)') >= ContextCap
    <3>1. i < at /\ i \notin context
      BY <1>5, <2>1, <2>5
    <3>2. PICK p : p = found[pool[i].id].paper
      OBVIOUS
    <3>3. p = (found[pool[i].id].paper)'
      BY <1>1, <3>2
    <3>4. Cardinality(InContextOf(p)) >= ContextCap
      BY <1>3, <3>1, <3>2
    <3>5. Cardinality(InContextOf(p)') >= ContextCap
      BY <1>2, <2>3, <3>4
    <3> QED BY <3>3, <3>5
  <2>6. ASSUME NEW p \in Papers PROVE ~(Cardinality(InContextOf(p)') > ContextCap)
    <3>1. Cardinality(InContextOf(p)) \in Nat /\ ~(Cardinality(InContextOf(p)) > ContextCap)
      BY <1>2, <1>3
    <3>2. CASE q = p
      BY <1>2, <1>6, <2>3, <3>1, <3>2
    <3>3. CASE q # p
      BY <1>2, <2>3, <3>1, <3>3
    <3> QED BY <3>2, <3>3
  <2>7. at + 1 <= Len(pool) + 1 /\ Cardinality(context') <= LlmContext
    BY <1>1, <1>2, <2>3
  <2>8. FlaggedInOrder'
    BY <1>1, <2>3, <2>4, <2>5, <2>6, <2>7 DEF FlaggedInOrder
  <2> QED BY <2>3, <2>8
<1>7. CASE ~(Cardinality(InContextOf(q)) < ContextCap)
  <2>1. context' = context
    BY <1>1, <1>4, <1>7 DEF flag
  <2>2. TypeOK'
    <3>1. PoolTyped
      BY PoolIsTyped
    <3> QED BY <1>1, <1>3, <2>1, <3>1, PoolTypeKept DEF PoolTyped
  <2>3. /\ (\A p : PooledOf(p)' = PooledOf(p) /\ InContextOf(p)' = InContextOf(p))
        /\ SelectionPool' = SelectionPool /\ ContextCap' = ContextCap
        /\ \A j : Retained(j)' <=> Retained(j)
    BY <1>1, <2>1, RetainedStays DEF PooledOf, InContextOf, SelectionPool, ContextCap
  <2>4. HardCap' /\ NoDuplicates' /\ TakenInOrder' /\ BestArePooled'
    BY <1>1, <2>3 DEF HardCap, NoDuplicates, TakenInOrder, BestArePooled
  <2>5. Cardinality(InContextOf(q)) >= ContextCap
    BY <1>2, <1>7
  <2>6. \A i \in DOMAIN pool : i < at + 1 /\ i \notin context =>
          Cardinality(InContextOf(found[pool[i].id].paper)) >= ContextCap
    BY <1>3, <1>4, <1>5, <2>5
  <2>7. /\ at + 1 <= Len(pool) + 1 /\ Cardinality(context') <= LlmContext
        /\ \A i \in context : i < at + 1
    BY <1>1, <1>2, <1>3, <2>1
  <2>8. FlaggedInOrder'
    BY <1>1, <1>3, <2>1, <2>3, <2>6, <2>7 DEF FlaggedInOrder
  <2> QED BY <1>1, <2>2, <2>4, <2>8 DEF ContextIsDiverse, NothingIsTold
<1> QED BY <1>6, <1>7

(* A passage that fills the context up once every paper had its turn.         *)
LEMMA TopUpStep ==
  ASSUME PoolInv, top_up
  PROVE  PoolInv'
<1> USE DEF PoolInv
<1>1. /\ pc = "flag" /\ pc' = "flag" /\ at > Len(pool) /\ at' = at /\ Cardinality(context) < LlmContext
      /\ UNCHANGED <<asked, attempts, results, found, pool, packet, card_vars>>
      /\ context # DOMAIN pool /\ context' = context \cup {Min(DOMAIN pool \ context)}
  BY DEF top_up
<1>2. /\ LlmContext \in Nat \ {0} /\ ContextCap \in Nat \ {0} /\ Len(pool) \in Nat /\ at \in Nat \ {0}
      /\ Cardinality(context) \in Nat /\ (\A p : Cardinality(InContextOf(p)) \in Nat)
      /\ DOMAIN pool = 1 .. Len(pool) /\ context \subseteq DOMAIN pool
      /\ \A i \in DOMAIN pool : i \in Nat /\ found[pool[i].id].paper \in Papers
  BY ContextFacts
<1>3. PICK k \in DOMAIN pool \ context : context' = context \cup {k}
  <2> DEFINE S == DOMAIN pool \ context
  <2>1. S # {} /\ S \subseteq Nat
    BY <1>1, <1>2
  <2> HIDE DEF S
  <2>2. Min(S) \in S
    <3>1. PICK i \in S : \A j \in S : i <= j
      BY <2>1, LeastPosition
    <3> QED BY <3>1 DEF Min
  <2>3. context' = context \cup {Min(S)}
    BY <1>1 DEF S
  <2> QED BY <2>2, <2>3 DEF S
<1>4. PICK q : q = found[pool[k].id].paper
  OBVIOUS
<1>5. /\ TypeOK' /\ HardCap' /\ NoDuplicates' /\ TakenInOrder' /\ BestArePooled'
      /\ ContextIsDiverse' /\ NothingIsTold' /\ ContextCap' = ContextCap
      /\ Cardinality(context') = Cardinality(context) + 1
      /\ \A p : Cardinality(InContextOf(p)') = Cardinality(InContextOf(p)) + (IF q = p THEN 1 ELSE 0)
  BY <1>1, <1>2, <1>3, <1>4, ContextGrows
<1>6. /\ at <= Len(pool) + 1
      /\ \A i \in DOMAIN pool : i < at /\ i \notin context =>
           Cardinality(InContextOf(found[pool[i].id].paper)) >= ContextCap
  BY <1>1 DEF FlaggedInOrder
<1>7. ASSUME NEW i \in DOMAIN pool, i < at, i \notin context'
      PROVE  Cardinality(InContextOf(found[pool[i].id].paper)') >= ContextCap
  <2>1. PICK p : p = found[pool[i].id].paper
    OBVIOUS
  <2>2. p = (found[pool[i].id].paper)'
    BY <1>1, <2>1
  <2>3. Cardinality(InContextOf(p)) >= ContextCap
    BY <1>3, <1>6, <1>7, <2>1
  <2>4. Cardinality(InContextOf(p)') >= ContextCap
    BY <1>2, <1>5, <2>3
  <2> QED BY <2>2, <2>4
<1>8. Cardinality(context') <= LlmContext /\ ~(at <= Len(pool))
  BY <1>1, <1>2, <1>5
<1>9. FlaggedInOrder'
  BY <1>1, <1>5, <1>6, <1>7, <1>8 DEF FlaggedInOrder
<1> QED BY <1>5, <1>9

(* What depends on the pool alone stays with it.                              *)
LEMMA PoolStands ==
  ASSUME PoolInv, UNCHANGED search_vars, pc' \notin {"search", "take", "flag"}, TypeOK'
  PROVE  HardCap' /\ NoDuplicates' /\ TakenInOrder' /\ BestArePooled' /\ FlaggedInOrder'
<1>1. \A p : PooledOf(p)' = PooledOf(p)
  BY DEF search_vars, PooledOf
<1>2. \A j : Retained(j)' <=> Retained(j)
  BY RetainedStays DEF search_vars
<1>3. SelectionPool' = SelectionPool
  BY DEF search_vars, SelectionPool
<1> QED BY <1>1, <1>2, <1>3 DEF PoolInv, search_vars, HardCap, NoDuplicates, TakenInOrder, BestArePooled,
       FlaggedInOrder

(* The packet says what the pool holds.                                       *)
LEMMA JudgeStep ==
  ASSUME PoolInv, judge
  PROVE  PoolInv'
<1> USE DEF PoolInv
<1>1. /\ pc = "flag" /\ pc' = "convert" /\ UNCHANGED <<search_vars, at, card_vars>>
      /\ Cardinality(context) >= LlmContext \/ context = DOMAIN pool
  BY DEF judge
<1>2. /\ LlmContext \in Nat \ {0} /\ ContextCap \in Nat \ {0} /\ Len(pool) \in Nat /\ at \in Nat \ {0}
      /\ Cardinality(context) \in Nat /\ (\A p : Cardinality(InContextOf(p)) \in Nat)
      /\ DOMAIN pool = 1 .. Len(pool) /\ context \subseteq DOMAIN pool
      /\ \A i \in DOMAIN pool : i \in Nat /\ found[pool[i].id].paper \in Papers
  BY ContextFacts
<1>3. PICK gap \in BOOLEAN, adjacent \in BOOLEAN, vector_unavailable \in BOOLEAN, lower_bound \in BOOLEAN :
        packet' = [status |-> Status(gap, adjacent),
                   fallback |-> Fallback(Status(gap, adjacent), vector_unavailable),
                   limited |-> BreadthLimited(lower_bound)]
  BY DEF judge
<1>4. Status(gap, adjacent) \in {"none", "weak", "partial", "sufficient"}
  BY DEF Status
<1>5. Fallback(Status(gap, adjacent), vector_unavailable)
        \in {"none", "no_results", "vector", "low_evidence_count"}
  BY DEF Fallback
<1>6. BreadthLimited(lower_bound) \in BOOLEAN
  BY DEF BreadthLimited
<1>7. TypeOK'
  <2>1. CardsOK'
    BY <1>1 DEF TypeOK, CardsOK, card_vars
  <2>2. /\ asked' \in Asked /\ attempts' \in 0 .. 3 /\ results' \subseteq Papers /\ found' \in Seq(Passages)
        /\ seeds' \in [Papers \X {"text", "figure"} -> Nat] /\ context' \subseteq DOMAIN pool'
    BY <1>1 DEF TypeOK, card_vars, search_vars
  <2>3. pool' \in Seq([id : Nat, score : Int]) /\ \A i \in DOMAIN pool' : pool'[i].id \in DOMAIN found'
    BY <1>1 DEF TypeOK, search_vars
  <2>4. packet' \in [status : {"none", "weak", "partial", "sufficient"},
                     fallback : {"none", "no_results", "vector", "low_evidence_count"},
                     limited : BOOLEAN]
    BY <1>3, <1>4, <1>5, <1>6
  <2> QED BY <1>1, <2>1, <2>2, <2>3, <2>4 DEF TypeOK
<1>8. HardCap' /\ NoDuplicates' /\ TakenInOrder' /\ BestArePooled' /\ FlaggedInOrder'
  BY <1>1, <1>7, PoolStands
<1>9. Cardinality(context) = Smaller(LlmContext, Len(pool))
  <2>1. Cardinality(context) <= Len(pool) /\ Cardinality(DOMAIN pool) = Len(pool)
    BY <1>2, PoolCounted
  <2>2. Cardinality(context) <= LlmContext
    BY <1>1 DEF FlaggedInOrder
  <2>3. Cardinality(context) >= LlmContext \/ Cardinality(context) = Len(pool)
    BY <1>1, <2>1
  <2> QED BY <1>2, <2>1, <2>2, <2>3 DEF Smaller
<1>10. ASSUME NEW p \in Papers, Cardinality(InContextOf(p)) > ContextCap,
              NEW q \in Papers, Cardinality(InContextOf(q)) < ContextCap
       PROVE  PooledOf(q) \subseteq context
  <2>1. at > Len(pool)
    BY <1>1, <1>10 DEF FlaggedInOrder
  <2>2. ASSUME NEW i \in PooledOf(q), i \notin context PROVE FALSE
    <3>1. i \in DOMAIN pool /\ found[pool[i].id].paper = q /\ i < at
      BY <1>2, <2>1 DEF PooledOf
    <3>2. Cardinality(InContextOf(q)) >= ContextCap
      BY <1>1, <2>2, <3>1 DEF FlaggedInOrder
    <3> QED BY <1>2, <1>10, <3>2
  <2> QED BY <2>2
<1>11. ContextIsDiverse'
  <2>1. (\A p : PooledOf(p)' = PooledOf(p) /\ InContextOf(p)' = InContextOf(p)) /\ ContextCap' = ContextCap
    BY <1>1 DEF search_vars, PooledOf, InContextOf, ContextCap
  <2> QED BY <1>1, <1>9, <1>10, <2>1 DEF ContextIsDiverse, search_vars
<1>12. NothingIsTold'
  <2> SUFFICES ASSUME pool = <<>> PROVE packet'.status = "none" /\ packet'.fallback # "none"
    BY <1>1 DEF NothingIsTold, search_vars
  <2>1. Status(gap, adjacent) = "none"
    BY DEF Status
  <2>2. Fallback("none", vector_unavailable) # "none"
    BY DEF Fallback
  <2> QED BY <1>3, <2>1, <2>2
<1> QED BY <1>7, <1>8, <1>11, <1>12

(* The conversion forgets the packet.                                         *)
LEMMA ConvertStep ==
  ASSUME PoolInv, convert
  PROVE  PoolInv'
<1> USE DEF PoolInv
<1>1. /\ pc' = "rank" /\ attempts' = 0 /\ results' = {} /\ found' = <<>> /\ at' = 1 /\ pool' = <<>>
      /\ context' = {} /\ packet' = NoPacket /\ UNCHANGED <<asked, cards, limit, reason, relaxed>>
  BY DEF convert
<1>2. seeds' \in [Papers \X {"text", "figure"} -> Nat]
  <2>1. PICK taken \in SUBSET DOMAIN found :
          seeds' = [k \in DOMAIN NoSeeds |->
                      IF k[2] = "text" THEN Cardinality(PooledOf(k[1]))
                      ELSE Cardinality({i \in taken : found[i].paper = k[1]})]
    BY DEF convert
  <2>2. \A p : Cardinality(PooledOf(p)) \in Nat
    BY PoolCounted
  <2>3. \A p : Cardinality({i \in taken : found[i].paper = p}) \in Nat
    <3>1. Len(found) \in Nat /\ DOMAIN found = 1 .. Len(found)
      BY PoolIsTyped
    <3>2. IsFiniteSet(1 .. Len(found))
      BY <3>1, FS_Interval
    <3>3. \A p : {i \in taken : found[i].paper = p} \subseteq 1 .. Len(found)
      BY <3>1
    <3> QED BY <3>2, <3>3, FS_Subset, FS_CardinalityType
  <2>4. DOMAIN NoSeeds = Papers \X {"text", "figure"}
    BY DEF NoSeeds
  <2> QED BY <2>1, <2>2, <2>3, <2>4
<1>3. TypeOK'
  <2>1. CardsOK'
    BY <1>1 DEF TypeOK, CardsOK
  <2>2. found' \in Seq(Passages) /\ pool' \in Seq([id : Nat, score : Int]) /\ DOMAIN pool' = {}
    BY <1>1
  <2>3. packet' \in [status : {"none", "weak", "partial", "sufficient"},
                     fallback : {"none", "no_results", "vector", "low_evidence_count"},
                     limited : BOOLEAN]
    BY <1>1 DEF NoPacket
  <2>4. asked' \in Asked /\ attempts' \in 0 .. 3 /\ results' \subseteq Papers
    BY <1>1 DEF TypeOK
  <2> QED BY <1>1, <1>2, <2>1, <2>2, <2>3, <2>4 DEF TypeOK
<1>4. DOMAIN pool' = {} /\ Len(pool') = 0 /\ \A p : Cardinality(PooledOf(p)') = 0
  <2>1. DOMAIN pool' = {} /\ Len(pool') = 0
    BY <1>1
  <2>2. \A p : PooledOf(p)' = {}
    BY <2>1 DEF PooledOf
  <2> QED BY <2>1, <2>2, FS_EmptySet
<1>5. PerArticle \in Nat /\ SelectionPool' \in Nat
  <2>1. (TypeOK => SelectionPool \in Nat)'
    BY PoolBudgets, PTL
  <2> QED BY <1>3, <2>1, PoolBudgets
<1>6. HardCap' /\ NoDuplicates' /\ TakenInOrder'
  BY <1>1, <1>4, <1>5 DEF HardCap, NoDuplicates, TakenInOrder
<1> QED BY <1>1, <1>3, <1>6 DEF BestArePooled, ContextIsDiverse, NothingIsTold, FlaggedInOrder

(* The selection of cards leaves the pool as it is.                           *)
LEMMA CardsAndPool ==
  ASSUME SelectionInv, PoolInv, rank_card \/ resolve_config \/ select_role \/ select_card \/ next_loop
  PROVE  PoolInv'
<1>1. /\ pc' \in {"rank", "role", "strict", "source", "any", "done"} /\ UNCHANGED <<search_vars, packet>>
  BY DEF rank_card, resolve_config, select_role, select_card, next_loop
<1>2. seeds' \in [Papers \X {"text", "figure"} -> Nat]
  <2>0. seeds \in [Papers \X {"text", "figure"} -> Nat]
    BY DEF PoolInv, TypeOK
  <2>1. CASE rank_card
    <3>1. PICK c \in Cards : seeds[<<c.paper, c.type>>] > 0
                             /\ seeds' = [seeds EXCEPT ![<<c.paper, c.type>>] = @ - 1]
      BY <2>1 DEF rank_card
    <3>2. <<c.paper, c.type>> \in Papers \X {"text", "figure"}
      BY DEF Cards
    <3>3. seeds[<<c.paper, c.type>>] - 1 \in Nat
      BY <2>0, <3>1, <3>2
    <3> QED BY <2>0, <3>1, <3>3
  <2>2. CASE resolve_config
    BY <2>2 DEF resolve_config, NoSeeds
  <2>3. CASE select_role \/ select_card \/ next_loop
    BY <2>0, <2>3 DEF select_role, select_card, next_loop, card_vars
  <2> QED BY <2>1, <2>2, <2>3
<1>3. CardsOK'
  BY SelectionSteps DEF Next, SelectionInv
<1>4. TypeOK'
  <2>1. /\ asked' \in Asked /\ attempts' \in 0 .. 3 /\ results' \subseteq Papers /\ found' \in Seq(Passages)
        /\ context' \subseteq DOMAIN pool'
    BY <1>1 DEF PoolInv, TypeOK, search_vars
  <2>2. pool' \in Seq([id : Nat, score : Int]) /\ \A i \in DOMAIN pool' : pool'[i].id \in DOMAIN found'
    BY <1>1 DEF PoolInv, TypeOK, search_vars
  <2>3. packet' \in [status : {"none", "weak", "partial", "sufficient"},
                     fallback : {"none", "no_results", "vector", "low_evidence_count"},
                     limited : BOOLEAN]
    BY <1>1 DEF PoolInv, TypeOK
  <2> QED BY <1>1, <1>2, <1>3, <2>1, <2>2, <2>3 DEF TypeOK
<1>5. HardCap' /\ NoDuplicates' /\ TakenInOrder' /\ BestArePooled' /\ FlaggedInOrder'
  BY <1>1, <1>4, PoolStands
<1> QED BY <1>1, <1>4, <1>5 DEF PoolInv, ContextIsDiverse, NothingIsTold

(* A step that changes nothing.                                               *)
LEMMA PoolUnchanged ==
  ASSUME PoolInv, UNCHANGED vars
  PROVE  PoolInv'
<1>1. TypeOK'
  BY DEF PoolInv, TypeOK, CardsOK, vars, search_vars, card_vars
<1>2. (\A p : PooledOf(p)' = PooledOf(p) /\ InContextOf(p)' = InContextOf(p)) /\ ContextCap' = ContextCap
      /\ SelectionPool' = SelectionPool /\ \A j : Retained(j)' <=> Retained(j)
  BY RetainedStays DEF vars, search_vars, PooledOf, InContextOf, ContextCap, SelectionPool
<1>3. HardCap' /\ NoDuplicates' /\ TakenInOrder' /\ BestArePooled'
  BY <1>2 DEF PoolInv, vars, search_vars, HardCap, NoDuplicates, TakenInOrder, BestArePooled
<1>4. FlaggedInOrder' /\ ContextIsDiverse' /\ NothingIsTold'
  BY <1>2 DEF PoolInv, vars, search_vars, FlaggedInOrder, ContextIsDiverse, NothingIsTold
<1> QED BY <1>1, <1>3, <1>4 DEF PoolInv

(* At first there is nothing.                                                 *)
LEMMA PoolStarts ==
  ASSUME Init
  PROVE  PoolInv
<1>1. /\ pc = "search" /\ asked \in Asked /\ attempts = 0 /\ results = {} /\ found = <<>> /\ at = 1
      /\ pool = <<>> /\ context = {} /\ packet = NoPacket /\ seeds = NoSeeds
  BY DEF Init
<1>2. TypeOK
  <2>1. CardsOK
    BY SelectionStarts DEF SelectionInv
  <2>2. found \in Seq(Passages) /\ pool \in Seq([id : Nat, score : Int]) /\ DOMAIN pool = {}
    BY <1>1
  <2>3. packet \in [status : {"none", "weak", "partial", "sufficient"},
                    fallback : {"none", "no_results", "vector", "low_evidence_count"},
                    limited : BOOLEAN]
    BY <1>1 DEF NoPacket
  <2>4. attempts \in 0 .. 3 /\ results \subseteq Papers /\ seeds \in [Papers \X {"text", "figure"} -> Nat]
    BY <1>1 DEF NoSeeds
  <2> QED BY <1>1, <2>1, <2>2, <2>3, <2>4 DEF TypeOK
<1>3. DOMAIN pool = {} /\ Len(pool) = 0 /\ \A p : Cardinality(PooledOf(p)) = 0
  BY <1>1, EmptyPool
<1>4. PerArticle \in Nat /\ SelectionPool \in Nat
  BY <1>2, PoolBudgets
<1>5. HardCap /\ NoDuplicates /\ TakenInOrder
  BY <1>1, <1>3, <1>4 DEF HardCap, NoDuplicates, TakenInOrder
<1> QED BY <1>1, <1>2, <1>5 DEF PoolInv, BestArePooled, ContextIsDiverse, NothingIsTold, FlaggedInOrder

(* The selection from a search, for any passages and any budgets: no paper     *)
(* has more of the pool than its share and no passage is in it twice, what    *)
(* the pool passes over is no better, the context is as full as it may be and *)
(* as diverse as the pool allows, and a packet without evidence says so.      *)
THEOREM PoolCorrect == Spec => []PoolInv
<1>1. Init => PoolInv
  BY PoolStarts
<1>2. SelectionInv /\ PoolInv /\ [Next]_vars => PoolInv'
  BY SearchStep, TakeStep, SortStep, FlagStep, TopUpStep, JudgeStep, ConvertStep, CardsAndPool,
     PoolUnchanged DEF Next
<1> QED BY <1>1, <1>2, SelectionCorrect, PTL DEF Spec

-----------------------------------------------------------------------------
(* Packet builds.  The inductive invariant is BuildOrder: what each request    *)
(* and each worker relies on where it stands, about its own row and about the  *)
(* rows others may change (RequestInOrder, WorkInOrder), what is so of a build  *)
(* whoever looks at it (BuildInOrder, LeftStaged, StoppedNeverRuns), and that   *)
(* the version numbers in use and those still to be computed are no more than   *)
(* the requests so far (VersionsCounted).  Each action has a lemma on what it   *)
(* leaves to the others (_Moves), one on what it keeps true (_Order) and one on  *)
(* the numbers (_Counts); StepKeeps puts them together, and for everybody else  *)
(* the invariant follows from it alone.                                         *)

(* A set of items can be counted, and there are at most N of them.            *)
LEMMA ItemsCounted ==
    ASSUME BuildAssumption, NEW S \in SUBSET Items
    PROVE  IsFiniteSet(S) /\ Cardinality(S) \in 0 .. N
<1>1. IsFiniteSet(Items) /\ Cardinality(Items) = N
  BY FS_Interval, BuildAssumption DEF Items
<1>2. IsFiniteSet(S) /\ Cardinality(S) <= N BY <1>1, FS_Subset
<1> QED BY <1>2, FS_CardinalityType, BuildAssumption

(* The item staged next is one of those still to be staged.                   *)
LEMMA LeastItem ==
    ASSUME BuildAssumption, NEW S \in SUBSET Items, S # {}
    PROVE  Min(S) \in S /\ (Cardinality(S) = 1 <=> S \ {Min(S)} = {})
<1>1. S \subseteq Nat BY DEF Items
<1>2. \E x \in S : \A y \in S : x <= y BY <1>1, LeastPosition
<1>3. Min(S) \in S BY <1>2 DEF Min
<1>4. IsFiniteSet(S) /\ Cardinality(S) \in Nat BY ItemsCounted, FS_CardinalityType
<1>5. IsFiniteSet(S \ {Min(S)}) /\ Cardinality(S \ {Min(S)}) = Cardinality(S) - 1
  BY <1>3, <1>4, FS_RemoveElement
<1>6. Cardinality(S \ {Min(S)}) = 0 <=> S \ {Min(S)} = {} BY <1>5, FS_EmptySet
<1> QED BY <1>3, <1>4, <1>5, <1>6

(* A set of bounded numbers that is not empty has a greatest one.             *)
LEMMA GreatestNumber ==
    ASSUME NEW n \in Nat, NEW S \in SUBSET (0 .. n), S # {}
    PROVE  Max(S) \in S /\ \A y \in S : y <= Max(S)
<1> DEFINE T == {n - x : x \in S}
<1>new. T \subseteq Nat /\ T # {}
  <2>1. \A x \in S : n - x \in Nat OBVIOUS
  <2>2. PICK x \in S : TRUE OBVIOUS
  <2>3. n - x \in T BY <2>2
  <2> QED BY <2>1, <2>3
<1>1. PICK t \in T : \A u \in T : t <= u
  <2> HIDE DEF T
  <2> QED BY <1>new, LeastPosition
<1>2. PICK x \in S : t = n - x BY <1>1
<1>3. \A y \in S : y <= x BY <1>1, <1>2
<1> QED BY <1>3 DEF Max

(* The types of the processes and of the rows.                                *)
ProcTypes ==
    /\ place \in [Procs -> WorkerPCs \cup ClientPCs]
    /\ todo \in [Procs -> SUBSET Items]
    /\ version \in [Clients -> 0 .. MaxVersion]
    /\ about \in [Clients -> Builds \cup {NoOne}]
    /\ seen \in [Clients -> [status : {"absent"} \cup ActiveStatuses, linked : BOOLEAN]]

RowTypes ==
    /\ status \in [Builds -> {"absent"} \cup ActiveStatuses \cup TERMINAL_BUILD_STATUSES]
    /\ target \in [Builds -> 0 .. MaxVersion] /\ result \in [Builds -> 0 .. MaxVersion]
    /\ linked \in [Builds -> BOOLEAN]
    /\ staged \in [Builds -> SUBSET Items]
    /\ published \in [1 .. MaxVersion ->
                     [by : Procs \cup {NoOne}, count : 0 .. N, items : SUBSET Items]]
    /\ life \in [Builds -> {"absent", "pending", "running", "settled"}]
    /\ dispatched \in [Builds -> 0 .. 1]
    /\ cancels \subseteq Builds /\ stopped \subseteq cancels
    /\ requests \in 0 .. MaxRequests /\ crashes \in 0 .. MaxCrashes

(* What a step of p leaves to the other processes, and of the rows.           *)
OthersStay(p) ==
    /\ \A q \in Procs \ {p} : place'[q] = place[q] /\ todo'[q] = todo[q]
    /\ \A c \in Clients \ {p} :
         version'[c] = version[c] /\ about'[c] = about[c] /\ seen'[c] = seen[c]

RowsStay(p) ==
    /\ \A b \in Builds :
         /\ status[b] # "absent" => status'[b] # "absent" /\ target'[b] = target[b]
         /\ dispatched'[b] = 0 => dispatched[b] = 0
         /\ dispatched'[b] = 0 /\ status[b] = "cancelled" => status'[b] = "cancelled"
    /\ \A b \in Builds \ {p} :
         /\ status'[b] = "completed" => status[b] = "completed"
         /\ result'[b] = result[b] /\ dispatched'[b] = dispatched[b]
         /\ b \notin cancels' => staged'[b] = staged[b]
         /\ staged'[b] \subseteq staged[b]
    /\ cancels \subseteq cancels'
    /\ stopped \subseteq stopped'
    /\ \A v \in 1 .. MaxVersion : published[v].by # NoOne =>
         /\ published'[v].by = published[v].by /\ published'[v].count = published[v].count
         /\ published[v].by # p => published'[v].items = published[v].items

(* Going on to another line changes the process alone.                        *)
LEMMA GotoMoves ==
    ASSUME BuildAssumption, ProcTypes, NEW p \in Procs,
           NEW l \in WorkerPCs \cup ClientPCs, Goto(p, l)
    PROVE  ProcTypes' /\ OthersStay(p)
<1>1. CASE l \in {"idle", "done", "dead"}
  <2>1. NotSeen \in [status : {"absent"} \cup ActiveStatuses, linked : BOOLEAN]
    BY DEF NotSeen
  <2>2. 0 \in 0 .. MaxVersion BY BuildAssumption DEF MaxVersion
  <2>3. /\ seen' = [c \in Clients |-> IF c = p THEN NotSeen ELSE seen[c]]
        /\ version' = [c \in Clients |-> IF c = p THEN 0 ELSE version[c]]
        /\ about' = [c \in Clients |-> IF c = p THEN NoOne ELSE about[c]]
        /\ todo' = [todo EXCEPT ![p] = {}] /\ place' = [place EXCEPT ![p] = l]
    BY <1>1 DEF Goto
  <2> HIDE DEF NotSeen
  <2> QED BY <1>1, <2>1, <2>2, <2>3 DEF ProcTypes, OthersStay
<1>2. CASE l \notin {"idle", "done", "dead"}
  BY <1>2 DEF Goto, ProcTypes, OthersStay
<1> QED BY <1>1, <1>2

(* A step that only reads or counts leaves the rows as they are.              *)
LEMMA NothingWritten ==
    ASSUME RowTypes, NEW p \in Procs, UNCHANGED <<jobrows, staged, published, core, asks>>,
           requests' \in 0 .. MaxRequests /\ crashes' \in 0 .. MaxCrashes
    PROVE  RowTypes' /\ RowsStay(p)
<1>1. RowTypes' BY DEF RowTypes, jobrows, core, asks
<1>2. RowsStay(p) BY DEF RowTypes, RowsStay, jobrows, core, asks
<1> QED BY <1>1, <1>2

(* The types are those of the processes and those of the rows.                *)
LEMMA TypesSplit == BuildTypes <=> RowTypes /\ ProcTypes
  BY Zenon DEF BuildTypes, RowTypes, ProcTypes

(* The version number a process computes is in range: each request that is    *)
(* still to compute one can use up at most one more number.                   *)
LEMMA NumbersBounded ==
    ASSUME BuildAssumption, BuildTypes, VersionsCounted, NEW c \in Computing
    PROVE  /\ NextVersion \in 1 .. MaxVersion
           /\ NextVersion + Cardinality(Computing) - 1 <= requests
<1> DEFINE S ==
             {0} \cup Existing \cup {target[b] : b \in Builds} \cup {result[b] : b \in Builds}
<1>1. S \in SUBSET (0 .. MaxVersion) /\ S # {} /\ MaxVersion \in Nat
  BY DEF BuildTypes, Existing, MaxVersion, BuildAssumption
<1>2. Max(S) \in S BY <1>1, GreatestNumber
<1>3. Max(S) \in Numbers BY <1>2 DEF Numbers
<1>4. NextVersion = 1 + Max(S) BY DEF NextVersion
<1>5. Cardinality(Computing) \in Nat \ {0}
  BY FS_CardinalityType, FS_EmptySet DEF VersionsCounted
<1>6. Max(S) + Cardinality(Computing) <= requests BY <1>3 DEF VersionsCounted
<1>7. requests \in 0 .. MaxRequests BY DEF BuildTypes
<1>8. Max(S) \in 0 .. MaxVersion BY <1>1, <1>2
<1> HIDE DEF S
<1> QED BY <1>1, <1>2, <1>4, <1>5, <1>6, <1>7, <1>8, BuildAssumption DEF MaxVersion

(* Staged rows left behind by others are left still.                          *)
LEMMA OthersLeft ==
    ASSUME BuildAssumption, BuildTypes, NEW p \in Procs, OthersStay(p),
           place[p] # "cancel_delete",
           crashes' = 0 => crashes = 0,
           NEW k \in Builds \ {p}, LeftStaged(k),
           status'[k] \in {status[k], "failed", "cancelling"}, staged'[k] \subseteq staged[k]
    PROVE  LeftStaged(k)'
<1> SUFFICES ASSUME crashes' = 0 PROVE LeftStaged(k)' BY DEF LeftStaged
<1>1. place'[k] = place[k] /\ place[k] # "dead" BY DEF OthersStay, Procs, LeftStaged
<1>2. ASSUME place[k] = "done", staged[k] # {}, status[k] \notin {"failed", "cancelling"}
      PROVE  \E c \in Clients : about'[c] = k /\ place'[c] = "cancel_delete"
  <2>1. PICK c \in Clients : about[c] = k /\ place[c] = "cancel_delete"
    BY <1>2 DEF LeftStaged
  <2>2. c # p BY <2>1
  <2>3. place'[c] = place[c] /\ about'[c] = about[c]
    BY <2>2 DEF OthersStay, Procs
  <2> QED BY <2>1, <2>3
<1> QED BY <1>1, <1>2 DEF LeftStaged

(* The types, what a step leaves to the others and what it leaves of the rows: *)
(* one lemma per action.                                                      *)
LEMMA start_build_job_Moves ==
    ASSUME BuildAssumption, BuildOrder, NEW c \in Clients, start_build_job(c)
    PROVE  BuildTypes' /\ OthersStay(c) /\ RowsStay(c)
<1>1. RowTypes /\ ProcTypes /\ c \in Procs BY TypesSplit DEF BuildOrder, Procs
<1>2. "next_version" \in WorkerPCs \cup ClientPCs
  BY DEF WorkerPCs, ClientPCs, OnError, AfterPublishing
<1>3. ProcTypes' /\ OthersStay(c) BY <1>1, <1>2, GotoMoves DEF start_build_job
<1>4. RowTypes' /\ RowsStay(c)
  <2>1. requests' \in 0 .. MaxRequests /\ crashes' \in 0 .. MaxCrashes
    BY <1>1, BuildAssumption DEF start_build_job, Request, RowTypes, bounds
  <2> QED BY <1>1, <2>1, NothingWritten DEF start_build_job
<1> QED BY <1>3, <1>4, Zenon DEF BuildTypes, RowTypes, ProcTypes

LEMMA build_Moves ==
    ASSUME BuildAssumption, BuildOrder, NEW c \in Clients, build(c)
    PROVE  BuildTypes' /\ OthersStay(c) /\ RowsStay(c)
<1>1. RowTypes /\ ProcTypes /\ c \in Procs BY TypesSplit DEF BuildOrder, Procs
<1>2. "sync_version" \in WorkerPCs \cup ClientPCs
  BY DEF WorkerPCs, ClientPCs, OnError, AfterPublishing
<1>3. ProcTypes' /\ OthersStay(c) BY <1>1, <1>2, GotoMoves DEF build
<1>4. RowTypes' /\ RowsStay(c)
  <2>1. requests' \in 0 .. MaxRequests /\ crashes' \in 0 .. MaxCrashes
    BY <1>1, BuildAssumption DEF build, Request, RowTypes, bounds
  <2> QED BY <1>1, <2>1, NothingWritten DEF build
<1> QED BY <1>3, <1>4, Zenon DEF BuildTypes, RowTypes, ProcTypes

LEMMA enqueue_Moves ==
    ASSUME BuildAssumption, BuildOrder, NEW c \in Clients, enqueue(c)
    PROVE  BuildTypes' /\ OthersStay(c) /\ RowsStay(c)
<1>1. RowTypes /\ ProcTypes /\ c \in Procs BY TypesSplit DEF BuildOrder, Procs
<1>own. RequestInOrder(c) /\ \A b \in Builds : BuildInOrder(b) BY DEF BuildOrder
<1>2. "link" \in WorkerPCs \cup ClientPCs
  BY DEF WorkerPCs, ClientPCs, OnError, AfterPublishing
<1>3. ProcTypes' /\ OthersStay(c) BY <1>1, <1>2, GotoMoves DEF enqueue
<1>4. RowTypes'
  BY <1>1, <1>own, BuildAssumption DEF enqueue, jobrows, asks, bounds, Queue!Submit,
      RowTypes, RequestInOrder, BuildInOrder, Cancelling, Publishing, ActiveStatuses
<1>5. RowsStay(c)
  BY <1>1, <1>own DEF enqueue, jobrows, asks, bounds, Queue!Submit, RowTypes, RowsStay,
      RequestInOrder, BuildInOrder, Cancelling
<1> QED BY <1>3, <1>4, <1>5, Zenon DEF BuildTypes, RowTypes, ProcTypes

LEMMA link_Moves ==
    ASSUME BuildAssumption, BuildOrder, NEW c \in Clients, link(c)
    PROVE  BuildTypes' /\ OthersStay(c) /\ RowsStay(c)
<1>1. RowTypes /\ ProcTypes /\ c \in Procs BY TypesSplit DEF BuildOrder, Procs
<1>own. RequestInOrder(c) /\ \A b \in Builds : BuildInOrder(b) BY DEF BuildOrder
<1>2. "idle" \in WorkerPCs \cup ClientPCs
  BY DEF WorkerPCs, ClientPCs, OnError, AfterPublishing
<1>3. ProcTypes' /\ OthersStay(c) BY <1>1, <1>2, GotoMoves DEF link
<1>4. RowTypes'
  BY <1>1, <1>own, BuildAssumption DEF link, core, asks, bounds, RowTypes,
      RequestInOrder, BuildInOrder, Cancelling, Publishing, ActiveStatuses
<1>5. RowsStay(c)
  BY <1>1, <1>own DEF link, core, asks, bounds, RowTypes, RowsStay, RequestInOrder,
      BuildInOrder, Cancelling
<1> QED BY <1>3, <1>4, <1>5, Zenon DEF BuildTypes, RowTypes, ProcTypes

LEMMA cancel_queued_Moves ==
    ASSUME BuildAssumption, BuildOrder, NEW c \in Clients, cancel_queued(c)
    PROVE  BuildTypes' /\ OthersStay(c) /\ RowsStay(c)
<1>1. RowTypes /\ ProcTypes /\ c \in Procs BY TypesSplit DEF BuildOrder, Procs
<1>own. RequestInOrder(c) /\ \A b \in Builds : BuildInOrder(b) BY DEF BuildOrder
<1>2. "cancel_delete" \in WorkerPCs \cup ClientPCs
  BY DEF WorkerPCs, ClientPCs, OnError, AfterPublishing
<1>3. ProcTypes' /\ OthersStay(c) BY <1>1, <1>2, GotoMoves DEF cancel_queued
<1>4. RowTypes'
  BY <1>1, <1>own, BuildAssumption DEF cancel_queued, core, asks, bounds, RowTypes,
      RequestInOrder, BuildInOrder, Cancelling, Publishing, ActiveStatuses,
      TERMINAL_BUILD_STATUSES
<1>5. RowsStay(c)
  BY <1>1, <1>own DEF cancel_queued, core, asks, bounds, RowTypes, RowsStay,
      RequestInOrder, BuildInOrder, Cancelling
<1> QED BY <1>3, <1>4, <1>5, Zenon DEF BuildTypes, RowTypes, ProcTypes

LEMMA cancel_delete_Moves ==
    ASSUME BuildAssumption, BuildOrder, NEW c \in Clients, cancel_delete(c)
    PROVE  BuildTypes' /\ OthersStay(c) /\ RowsStay(c)
<1>1. RowTypes /\ ProcTypes /\ c \in Procs BY TypesSplit DEF BuildOrder, Procs
<1>own. RequestInOrder(c) /\ \A b \in Builds : BuildInOrder(b) BY DEF BuildOrder
<1>2. "core_cancel" \in WorkerPCs \cup ClientPCs
  BY DEF WorkerPCs, ClientPCs, OnError, AfterPublishing
<1>3. ProcTypes' /\ OthersStay(c) BY <1>1, <1>2, GotoMoves DEF cancel_delete
<1>4. RowTypes'
  BY <1>1, <1>own, BuildAssumption DEF cancel_delete, jobrows, core, asks, bounds,
      DeleteStaged, RowTypes, RequestInOrder, BuildInOrder, Cancelling, Publishing,
      ActiveStatuses
<1>5. RowsStay(c)
  BY <1>1, <1>own DEF cancel_delete, jobrows, core, asks, bounds, DeleteStaged,
      RowTypes, RowsStay, RequestInOrder, BuildInOrder, Cancelling
<1> QED BY <1>3, <1>4, <1>5, Zenon DEF BuildTypes, RowTypes, ProcTypes

LEMMA cancelling_Moves ==
    ASSUME BuildAssumption, BuildOrder, NEW c \in Clients, cancelling(c)
    PROVE  BuildTypes' /\ OthersStay(c) /\ RowsStay(c)
<1>1. RowTypes /\ ProcTypes /\ c \in Procs BY TypesSplit DEF BuildOrder, Procs
<1>own. RequestInOrder(c) /\ \A b \in Builds : BuildInOrder(b) BY DEF BuildOrder
<1>2. "core_cancel" \in WorkerPCs \cup ClientPCs
  BY DEF WorkerPCs, ClientPCs, OnError, AfterPublishing
<1>3. ProcTypes' /\ OthersStay(c) BY <1>1, <1>2, GotoMoves DEF cancelling
<1>4. RowTypes'
  BY <1>1, <1>own, BuildAssumption DEF cancelling, core, asks, bounds, RowTypes,
      RequestInOrder, BuildInOrder, Cancelling, Publishing, ActiveStatuses
<1>5. RowsStay(c)
  BY <1>1, <1>own DEF cancelling, core, asks, bounds, RowTypes, RowsStay,
      RequestInOrder, BuildInOrder, Cancelling
<1> QED BY <1>3, <1>4, <1>5, Zenon DEF BuildTypes, RowTypes, ProcTypes

LEMMA dispatch_Moves ==
    ASSUME BuildAssumption, BuildOrder, NEW b \in Builds, dispatch(b)
    PROVE  BuildTypes' /\ OthersStay(b) /\ RowsStay(b)
<1>1. RowTypes /\ ProcTypes /\ b \in Procs BY TypesSplit DEF BuildOrder, Procs
<1>own. WorkInOrder(b) /\ BuildInOrder(b) BY DEF BuildOrder
<1>2. "set_running" \in WorkerPCs \cup ClientPCs
  BY DEF WorkerPCs, ClientPCs, OnError, AfterPublishing
<1>3. ProcTypes' /\ OthersStay(b) BY <1>1, <1>2, GotoMoves DEF dispatch
<1>4. RowTypes'
  BY <1>1, <1>own, BuildAssumption DEF dispatch, jobrows, asks, bounds, Working,
      Queue!Dispatch, RowTypes, WorkInOrder, BuildInOrder, ActiveStatuses
<1>5. RowsStay(b)
  BY <1>1, <1>own DEF dispatch, jobrows, asks, bounds, Working, Queue!Dispatch,
      RowTypes, RowsStay, WorkInOrder
<1> QED BY <1>3, <1>4, <1>5, Zenon DEF BuildTypes, RowTypes, ProcTypes

LEMMA raises_Moves ==
    ASSUME BuildAssumption, BuildOrder, NEW b \in Builds, raises(b)
    PROVE  BuildTypes' /\ OthersStay(b) /\ RowsStay(b)
<1>1. RowTypes /\ ProcTypes /\ b \in Procs BY TypesSplit DEF BuildOrder, Procs
<1>2. "fail" \in WorkerPCs \cup ClientPCs
  BY DEF WorkerPCs, ClientPCs, OnError, AfterPublishing
<1>3. ProcTypes' /\ OthersStay(b) BY <1>1, <1>2, GotoMoves DEF raises
<1>4. RowTypes' /\ RowsStay(b)
  <2>1. requests' \in 0 .. MaxRequests /\ crashes' \in 0 .. MaxCrashes
    BY <1>1, BuildAssumption DEF raises, Request, RowTypes, bounds
  <2> QED BY <1>1, <2>1, NothingWritten DEF raises
<1> QED BY <1>3, <1>4, Zenon DEF BuildTypes, RowTypes, ProcTypes

LEMMA set_running_Moves ==
    ASSUME BuildAssumption, BuildOrder, NEW b \in Builds, set_running(b)
    PROVE  BuildTypes' /\ OthersStay(b) /\ RowsStay(b)
<1>1. RowTypes /\ ProcTypes /\ b \in Procs BY TypesSplit DEF BuildOrder, Procs
<1>own. WorkInOrder(b) /\ BuildInOrder(b) BY DEF BuildOrder
<1>3. ProcTypes' /\ OthersStay(b)
  BY <1>1 DEF set_running, ProcTypes, OthersStay, WorkerPCs
<1>4. RowTypes'
  BY <1>1, <1>own, BuildAssumption DEF set_running, core, asks, bounds, DeleteStaged,
      RowTypes, WorkInOrder, BuildInOrder, ActiveStatuses
<1>5. RowsStay(b)
  BY <1>1, <1>own DEF set_running, core, asks, bounds, DeleteStaged, RowTypes,
      RowsStay, WorkInOrder, BuildInOrder
<1> QED BY <1>3, <1>4, <1>5, Zenon DEF BuildTypes, RowTypes, ProcTypes

LEMMA should_cancel_Moves ==
    ASSUME BuildAssumption, BuildOrder, NEW b \in Builds, should_cancel(b)
    PROVE  BuildTypes' /\ OthersStay(b) /\ RowsStay(b)
<1>1. RowTypes /\ ProcTypes /\ b \in Procs BY TypesSplit DEF BuildOrder, Procs
<1>2. PICK l \in WorkerPCs \cup ClientPCs : Goto(b, l)
  BY DEF should_cancel, WorkerPCs
<1>3. ProcTypes' /\ OthersStay(b) BY <1>1, <1>2, GotoMoves
<1>4. RowTypes' /\ RowsStay(b)
  <2>1. requests' \in 0 .. MaxRequests /\ crashes' \in 0 .. MaxCrashes
    BY <1>1, BuildAssumption DEF should_cancel, Request, RowTypes, bounds
  <2> QED BY <1>1, <2>1, NothingWritten DEF should_cancel
<1> QED BY <1>3, <1>4, Zenon DEF BuildTypes, RowTypes, ProcTypes

LEMMA finish_cancelled_Moves ==
    ASSUME BuildAssumption, BuildOrder, NEW b \in Builds, finish_cancelled(b)
    PROVE  BuildTypes' /\ OthersStay(b) /\ RowsStay(b)
<1>1. RowTypes /\ ProcTypes /\ b \in Procs BY TypesSplit DEF BuildOrder, Procs
<1>own. WorkInOrder(b) /\ BuildInOrder(b) BY DEF BuildOrder
<1>2. "done" \in WorkerPCs \cup ClientPCs
  BY DEF WorkerPCs, ClientPCs, OnError, AfterPublishing
<1>3. ProcTypes' /\ OthersStay(b) BY <1>1, <1>2, GotoMoves DEF finish_cancelled
<1>4. RowTypes'
  BY <1>1, <1>own, BuildAssumption DEF finish_cancelled, core, asks, bounds,
      DeleteStaged, RowTypes, WorkInOrder, BuildInOrder, ActiveStatuses,
      TERMINAL_BUILD_STATUSES
<1>5. RowsStay(b)
  BY <1>1, <1>own DEF finish_cancelled, core, asks, bounds, DeleteStaged, RowTypes,
      RowsStay, WorkInOrder
<1> QED BY <1>3, <1>4, <1>5, Zenon DEF BuildTypes, RowTypes, ProcTypes

LEMMA complete_Moves ==
    ASSUME BuildAssumption, BuildOrder, NEW b \in Builds, complete(b)
    PROVE  BuildTypes' /\ OthersStay(b) /\ RowsStay(b)
<1>1. RowTypes /\ ProcTypes /\ b \in Procs BY TypesSplit DEF BuildOrder, Procs
<1>own. WorkInOrder(b) /\ BuildInOrder(b) BY DEF BuildOrder
<1>2. "done" \in WorkerPCs \cup ClientPCs
  BY DEF WorkerPCs, ClientPCs, OnError, AfterPublishing
<1>3. ProcTypes' /\ OthersStay(b) BY <1>1, <1>2, GotoMoves DEF complete
<1>4. RowTypes'
  BY <1>1, <1>own, BuildAssumption DEF complete, core, asks, bounds, DeleteStaged,
      RowTypes, WorkInOrder, BuildInOrder, ActiveStatuses, TERMINAL_BUILD_STATUSES
<1>5. RowsStay(b)
  BY <1>1, <1>own DEF complete, core, asks, bounds, DeleteStaged, RowTypes, RowsStay,
      WorkInOrder, BuildInOrder
<1> QED BY <1>3, <1>4, <1>5, Zenon DEF BuildTypes, RowTypes, ProcTypes

LEMMA fail_Moves ==
    ASSUME BuildAssumption, BuildOrder, NEW b \in Builds, fail(b)
    PROVE  BuildTypes' /\ OthersStay(b) /\ RowsStay(b)
<1>1. RowTypes /\ ProcTypes /\ b \in Procs BY TypesSplit DEF BuildOrder, Procs
<1>own. WorkInOrder(b) /\ BuildInOrder(b) BY DEF BuildOrder
<1>2. "done" \in WorkerPCs \cup ClientPCs
  BY DEF WorkerPCs, ClientPCs, OnError, AfterPublishing
<1>3. ProcTypes' /\ OthersStay(b) BY <1>1, <1>2, GotoMoves DEF fail
<1>4. RowTypes'
  BY <1>1, <1>own, BuildAssumption DEF fail, core, asks, bounds, FailedStatus,
      RowTypes, WorkInOrder, BuildInOrder, ActiveStatuses, TERMINAL_BUILD_STATUSES
<1>5. RowsStay(b)
  BY <1>1, <1>own DEF fail, core, asks, bounds, FailedStatus, RowTypes, RowsStay,
      WorkInOrder, BuildInOrder
<1> QED BY <1>3, <1>4, <1>5, Zenon DEF BuildTypes, RowTypes, ProcTypes

LEMMA version_taken_Moves ==
    ASSUME BuildAssumption, BuildOrder, NEW p \in Procs, version_taken(p)
    PROVE  BuildTypes' /\ OthersStay(p) /\ RowsStay(p)
<1>1. RowTypes /\ ProcTypes /\ p \in Procs BY TypesSplit DEF BuildOrder, Procs
<1>2. OnError(p) \in WorkerPCs \cup ClientPCs
  BY DEF WorkerPCs, ClientPCs, OnError, AfterPublishing
<1>3. ProcTypes' /\ OthersStay(p) BY <1>1, <1>2, GotoMoves DEF version_taken
<1>4. RowTypes' /\ RowsStay(p)
  <2>1. requests' \in 0 .. MaxRequests /\ crashes' \in 0 .. MaxCrashes
    BY <1>1, BuildAssumption DEF version_taken, Request, RowTypes, bounds
  <2> QED BY <1>1, <2>1, NothingWritten DEF version_taken
<1> QED BY <1>3, <1>4, Zenon DEF BuildTypes, RowTypes, ProcTypes

LEMMA crash_Moves ==
    ASSUME BuildAssumption, BuildOrder, NEW p \in Procs, crash(p)
    PROVE  BuildTypes' /\ OthersStay(p) /\ RowsStay(p)
<1>1. RowTypes /\ ProcTypes /\ p \in Procs BY TypesSplit DEF BuildOrder, Procs
<1>2. PICK l \in WorkerPCs \cup ClientPCs : Goto(p, l)
  BY DEF crash, WorkerPCs, ClientPCs
<1>3. ProcTypes' /\ OthersStay(p) BY <1>1, <1>2, GotoMoves
<1>4. RowTypes' /\ RowsStay(p)
  <2>1. requests' \in 0 .. MaxRequests /\ crashes' \in 0 .. MaxCrashes
    BY <1>1, BuildAssumption DEF crash, Request, RowTypes, bounds
  <2> QED BY <1>1, <2>1, NothingWritten DEF crash
<1> QED BY <1>3, <1>4, Zenon DEF BuildTypes, RowTypes, ProcTypes

LEMMA next_version_Moves ==
    ASSUME BuildAssumption, BuildOrder, NEW c \in Clients, next_version(c)
    PROVE  BuildTypes' /\ OthersStay(c) /\ RowsStay(c)
<1>1. RowTypes /\ ProcTypes /\ c \in Procs BY TypesSplit DEF BuildOrder, Procs
<1>2. NextVersion \in 0 .. MaxVersion
  <2>1. c \in Computing BY DEF next_version, Computing
  <2> QED BY <2>1, NumbersBounded DEF BuildOrder
<1>3. ProcTypes' /\ OthersStay(c)
  BY <1>1, <1>2
    DEF next_version, ProcTypes, OthersStay, WorkerPCs, ClientPCs, Publishing
<1>4. RowTypes' /\ RowsStay(c)
  <2>1. requests' \in 0 .. MaxRequests /\ crashes' \in 0 .. MaxCrashes
    BY <1>1 DEF next_version, RowTypes, bounds
  <2> QED BY <1>1, <2>1, NothingWritten DEF next_version
<1> QED BY <1>3, <1>4, Zenon DEF BuildTypes, RowTypes, ProcTypes

LEMMA insert_job_Moves ==
    ASSUME BuildAssumption, BuildOrder, NEW c \in Clients, insert_job(c)
    PROVE  BuildTypes' /\ OthersStay(c) /\ RowsStay(c)
<1>1. RowTypes /\ ProcTypes /\ c \in Procs BY TypesSplit DEF BuildOrder, Procs
<1>2. NewBuild \in Builds /\ status[NewBuild] = "absent" /\ dispatched[NewBuild] = 0
  <2>1. NewBuild \in Unused BY DEF insert_job, NewBuild
  <2> QED BY <1>1, <2>1 DEF BuildOrder, Unused, BuildInOrder, RowTypes
<1>3. ProcTypes' /\ OthersStay(c)
  BY <1>1, <1>2 DEF insert_job, ProcTypes, OthersStay, ClientPCs
<1>4. RowTypes'
  BY <1>1, <1>2 DEF insert_job, RowTypes, ProcTypes, ActiveStatuses, core, asks, bounds
<1>5. RowsStay(c) BY <1>1, <1>2 DEF insert_job, RowTypes, RowsStay, core, asks
<1> QED BY <1>3, <1>4, <1>5, Zenon DEF BuildTypes, RowTypes, ProcTypes

LEMMA core_cancel_Moves ==
    ASSUME BuildAssumption, BuildOrder, NEW c \in Clients, core_cancel(c)
    PROVE  BuildTypes' /\ OthersStay(c) /\ RowsStay(c)
<1>1. RowTypes /\ ProcTypes /\ c \in Procs BY TypesSplit DEF BuildOrder, Procs
<1>2. "idle" \in WorkerPCs \cup ClientPCs BY DEF ClientPCs
<1>3. ProcTypes' /\ OthersStay(c) BY <1>1, <1>2, GotoMoves DEF core_cancel
<1>4. about[c] \in cancels BY DEF BuildOrder, RequestInOrder, core_cancel, Cancelling
<1>5. life' \in [Builds -> {"absent", "pending", "running", "settled"}]
  BY <1>1, <1>4 DEF core_cancel, RowTypes, CoreAfterCancel
<1>6. stopped' \subseteq cancels /\ stopped \subseteq stopped'
  BY <1>1, <1>4 DEF core_cancel, RowTypes
<1>7. RowTypes' BY <1>1, <1>5, <1>6 DEF core_cancel, RowTypes, jobrows, bounds
<1>8. RowsStay(c) BY <1>1, <1>6 DEF core_cancel, RowTypes, RowsStay, jobrows
<1> QED BY <1>3, <1>7, <1>8, Zenon DEF BuildTypes, RowTypes, ProcTypes

LEMMA stage_item_Moves ==
    ASSUME BuildAssumption, BuildOrder, NEW b \in Builds, stage_item(b)
    PROVE  BuildTypes' /\ OthersStay(b) /\ RowsStay(b)
<1>1. RowTypes /\ ProcTypes /\ b \in Procs BY TypesSplit DEF BuildOrder, Procs
<1>2. todo[b] \in SUBSET Items /\ todo[b] # {}
  BY <1>1 DEF BuildOrder, WorkInOrder, stage_item, ProcTypes
<1>3. Min(todo[b]) \in todo[b] BY <1>2, LeastItem
<1>4. ProcTypes' /\ OthersStay(b)
  BY <1>1 DEF stage_item, ProcTypes, OthersStay, WorkerPCs
<1>5. RowTypes'
  BY <1>1, <1>2, <1>3 DEF stage_item, RowTypes, jobrows, core, asks, bounds
<1>6. RowsStay(b) BY <1>1 DEF stage_item, RowTypes, RowsStay, jobrows, core, asks
<1> QED BY <1>4, <1>5, <1>6, Zenon DEF BuildTypes, RowTypes, ProcTypes

LEMMA finalize_Moves ==
    ASSUME BuildAssumption, BuildOrder, NEW b \in Builds, finalize(b)
    PROVE  BuildTypes' /\ OthersStay(b) /\ RowsStay(b)
<1>1. RowTypes /\ ProcTypes /\ b \in Procs BY TypesSplit DEF BuildOrder, Procs
<1>2. staged[b] \in SUBSET Items BY <1>1 DEF RowTypes
<1>3. ProcTypes' /\ OthersStay(b)
  BY <1>1, <1>2 DEF finalize, StagedItems, ProcTypes, OthersStay, WorkerPCs, Publishing
<1>4. RowTypes' /\ RowsStay(b)
  <2>1. requests' \in 0 .. MaxRequests /\ crashes' \in 0 .. MaxCrashes
    BY <1>1 DEF finalize, RowTypes, bounds
  <2> QED BY <1>1, <2>1, NothingWritten DEF finalize
<1> QED BY <1>3, <1>4, Zenon DEF BuildTypes, RowTypes, ProcTypes

(* The number a process publishes is one of the table's.                      *)
LEMMA PublishesANumber ==
    ASSUME BuildOrder, NEW p \in Procs, place[p] \in Publishing
    PROVE  Publishes(p) \in 1 .. MaxVersion
<1>1. CASE p \in Builds
  BY <1>1 DEF BuildOrder, BuildTypes, BuildInOrder, Publishing, Publishes
<1>2. CASE p \notin Builds
  BY <1>2 DEF BuildOrder, RequestInOrder, Publishing, Publishes, Procs
<1> QED BY <1>1, <1>2

(* The steps that write a published version.                                  *)
LEMMA insert_version_Moves ==
    ASSUME BuildAssumption, BuildOrder, NEW p \in Procs, insert_version(p)
    PROVE  BuildTypes' /\ OthersStay(p) /\ RowsStay(p)
<1>1. RowTypes /\ ProcTypes BY TypesSplit DEF BuildOrder
<1>2. "insert_items" \in WorkerPCs \cup ClientPCs BY DEF ClientPCs, Publishing
<1>3. ProcTypes' /\ OthersStay(p) BY <1>1, <1>2, GotoMoves DEF insert_version
<1>4. Publishes(p) \in 1 .. MaxVersion
  BY PublishesANumber DEF insert_version, Publishing
<1>5. Cardinality(todo[p]) \in 0 .. N BY <1>1, ItemsCounted DEF ProcTypes
<1>6. RowTypes'
  BY <1>1, <1>4, <1>5 DEF insert_version, RowTypes, jobrows, core, asks, bounds
<1>7. RowsStay(p)
  BY <1>1, <1>4 DEF insert_version, MayInsert, RowTypes, RowsStay, jobrows, core, asks
<1> QED BY <1>3, <1>6, <1>7, Zenon DEF BuildTypes, RowTypes, ProcTypes

LEMMA insert_items_Moves ==
    ASSUME BuildAssumption, BuildOrder, NEW p \in Procs,
           insert_items(p) \/ insert_raises(p)
    PROVE  BuildTypes' /\ OthersStay(p) /\ RowsStay(p)
<1>1. RowTypes /\ ProcTypes BY TypesSplit DEF BuildOrder
<1>2. PICK l \in {"complete", "idle", "fail"} : Goto(p, l)
  BY DEF insert_items, insert_raises, AfterPublishing, OnError
<1>3. ProcTypes' /\ OthersStay(p) BY <1>1, <1>2, GotoMoves DEF WorkerPCs, ClientPCs
<1>4. Publishes(p) \in 1 .. MaxVersion
  BY PublishesANumber DEF insert_items, insert_raises, Publishing
<1>5. PICK items \in SUBSET Items :
         published' = [published EXCEPT ![Publishes(p)].items = items]
  BY <1>1 DEF insert_items, insert_raises, ProcTypes
<1>6. published[Publishes(p)].by = p
  BY  DEF insert_items, insert_raises, BuildOrder, RequestInOrder, WorkInOrder, Writes,
      Publishes, Procs
<1>7. UNCHANGED <<jobrows, staged, core, asks, bounds>>
  BY DEF insert_items, insert_raises
<1>8. RowTypes' BY <1>1, <1>4, <1>5, <1>7 DEF RowTypes, jobrows, core, asks, bounds
<1>9. RowsStay(p)
  BY <1>1, <1>4, <1>5, <1>6, <1>7 DEF RowTypes, RowsStay, jobrows, core, asks
<1> QED BY <1>3, <1>8, <1>9, Zenon DEF BuildTypes, RowTypes, ProcTypes
LEMMA cancel_build_job_Moves ==
    ASSUME BuildAssumption, BuildOrder, NEW c \in Clients, NEW d \in Builds,
           cancel_build_job(c, d)
    PROVE  BuildTypes' /\ OthersStay(c) /\ RowsStay(c)
<1>1. RowTypes /\ ProcTypes /\ c \in Procs BY TypesSplit DEF BuildOrder, Procs
<1>2. ProcTypes' /\ OthersStay(c)
  <2>1. [status |-> status[d], linked |-> linked[d]] \in
          [status : {"absent"} \cup ActiveStatuses, linked : BOOLEAN]
    BY <1>1 DEF cancel_build_job, RowTypes
  <2>2. status[d] \in ActiveStatuses /\ about' = [about EXCEPT ![c] = d]
    BY DEF cancel_build_job
  <2> QED
    BY <1>1, <2>1, <2>2 DEF cancel_build_job, ProcTypes, OthersStay, ClientPCs
<1>3. RowTypes' /\ RowsStay(c)
  BY <1>1, BuildAssumption
    DEF cancel_build_job, Request, RowTypes, RowsStay, jobrows, core
<1> QED BY <1>2, <1>3, TypesSplit, Zenon DEF BuildTypes, RowTypes, ProcTypes

(* The numbers computed so far leave room for every request that is still to  *)
(* compute one.                                                               *)
LEMMA FewerCompute ==
    ASSUME BuildAssumption, BuildTypes, BuildTypes', VersionsCounted,
           Computing' \subseteq Computing, Numbers' \subseteq Numbers, requests <= requests'
    PROVE  VersionsCounted'
<1>1. /\ IsFiniteSet(Computing') /\ Cardinality(Computing') <= Cardinality(Computing)
      /\ Cardinality(Computing') \in Nat /\ Cardinality(Computing) \in Nat
  BY FS_Subset, FS_CardinalityType DEF VersionsCounted
<1>2. requests \in Nat /\ requests' \in Nat BY DEF BuildTypes
<1>3. ASSUME NEW v \in Numbers' PROVE v + Cardinality(Computing') <= requests'
  <2>1. v + Cardinality(Computing) <= requests BY <1>3 DEF VersionsCounted
  <2>2. v \in Nat
    BY <1>3, BuildAssumption DEF Numbers, Existing, BuildTypes
  <2> QED BY <1>1, <1>2, <2>1, <2>2
<1> QED BY <1>1, <1>3 DEF VersionsCounted

LEMMA OneMoreComputes ==
    ASSUME BuildAssumption, BuildTypes, BuildTypes', VersionsCounted, NEW c,
           Computing' \subseteq Computing \cup {c}, Numbers' \subseteq Numbers,
           requests' = requests + 1
    PROVE  VersionsCounted'
<1>1. /\ IsFiniteSet(Computing \cup {c})
      /\ Cardinality(Computing \cup {c}) <= Cardinality(Computing) + 1
      /\ Cardinality(Computing) \in Nat /\ Cardinality(Computing \cup {c}) \in Nat
  <2>1. IsFiniteSet(Computing) /\ Cardinality(Computing) \in Nat
    BY FS_CardinalityType DEF VersionsCounted
  <2>2. /\ IsFiniteSet(Computing \cup {c})
        /\ \/ Cardinality(Computing \cup {c}) = Cardinality(Computing)
           \/ Cardinality(Computing \cup {c}) = Cardinality(Computing) + 1
    BY <2>1, FS_AddElement
  <2> QED BY <2>1, <2>2
<1>2. /\ IsFiniteSet(Computing') /\ Cardinality(Computing') <= Cardinality(Computing \cup {c})
      /\ Cardinality(Computing') \in Nat
  BY <1>1, FS_Subset, FS_CardinalityType
<1>3. requests \in Nat BY DEF BuildTypes
<1>4. ASSUME NEW v \in Numbers' PROVE v + Cardinality(Computing') <= requests'
  <2>1. v + Cardinality(Computing) <= requests BY <1>4 DEF VersionsCounted
  <2>2. v \in Nat
    BY <1>4, BuildAssumption DEF Numbers, Existing, BuildTypes
  <2> QED BY <1>1, <1>2, <1>3, <2>1, <2>2
<1> QED BY <1>2, <1>4 DEF VersionsCounted

(* What a step of p has to keep; the invariant follows for everybody else.    *)
StepKeeps(p) ==
    /\ BuildTypes' /\ OthersStay(p) /\ RowsStay(p)
    /\ \A k \in Builds : BuildInOrder(k)' /\ LeftStaged(k)'
    /\ StoppedNeverRuns'
    /\ p \in Clients => RequestInOrder(p)'
    /\ p \in Builds => WorkInOrder(p)'
    /\ VersionsCounted'

LEMMA OtherRequests ==
    ASSUME BuildAssumption, BuildOrder, NEW p \in Procs, StepKeeps(p),
           NEW c \in Clients \ {p}
    PROVE  RequestInOrder(c)'
<1>1. /\ place'[c] = place[c] /\ todo'[c] = todo[c] /\ version'[c] = version[c]
      /\ about'[c] = about[c] /\ seen'[c] = seen[c]
  BY DEF StepKeeps, OthersStay, Procs
<1>2. RequestInOrder(c) /\ BuildTypes /\ MaxVersion \in Nat
  BY BuildAssumption DEF BuildOrder, MaxVersion
<1>3. \A v \in 1 .. MaxVersion : published[v].by = c =>
        published'[v].by = c /\ published'[v].count = published[v].count
  <2>1. c # NoOne BY BuildAssumption DEF Procs
  <2> QED BY <2>1 DEF StepKeeps, RowsStay
<1>4. /\ cancels \subseteq cancels' /\ cancels \subseteq Builds
      /\ \A b \in Builds :
           /\ status[b] # "absent" => status'[b] # "absent"
           /\ dispatched'[b] = 0 => dispatched[b] = 0
           /\ dispatched'[b] = 0 /\ status[b] = "cancelled" => status'[b] = "cancelled"
  BY <1>2 DEF StepKeeps, RowsStay, BuildTypes
<1>5. place[c] \in Publishing \cup {"insert"} => version[c] \in 1 .. MaxVersion
  BY <1>2 DEF RequestInOrder
<1>6. place[c] = "insert_items" =>
        published'[version[c]].by = c /\ published'[version[c]].count = Cardinality(todo[c])
  BY <1>2, <1>3, <1>5 DEF RequestInOrder, Publishing, Writes
<1>7. place[c] \in {"enqueue", "link"} => about[c] \in Builds /\ status'[about[c]] # "absent"
  BY <1>2, <1>4 DEF RequestInOrder
<1>8. place[c] \in Cancelling =>
         /\ about[c] \in cancels'
         /\ place[c] \in {"cancel_queued", "cancel_delete"} => seen[c].status = "queued"
         /\ place[c] = "cancelling" => seen[c].status \in {"running", "cancelling"}
         /\ dispatched'[about[c]] = 0 => seen[c].status = "queued"
  BY <1>2, <1>4 DEF RequestInOrder
<1>9. place[c] \in {"cancel_delete", "core_cancel"} /\ dispatched'[about[c]] = 0 =>
         status'[about[c]] = "cancelled"
  BY <1>2, <1>4 DEF RequestInOrder, Cancelling
<1> QED BY <1>1, <1>2, <1>5, <1>6, <1>7, <1>8, <1>9 DEF RequestInOrder, Writes

LEMMA OtherWorkers ==
    ASSUME BuildAssumption, BuildOrder, NEW p \in Procs, StepKeeps(p),
           NEW b \in Builds \ {p}
    PROVE  WorkInOrder(b)'
<1>1. place'[b] = place[b] /\ todo'[b] = todo[b] BY DEF StepKeeps, OthersStay, Procs
<1>2. WorkInOrder(b) /\ BuildInOrder(b) /\ BuildTypes /\ MaxVersion \in Nat
  BY BuildAssumption DEF BuildOrder, MaxVersion
<1>3. /\ status'[b] = "completed" => status[b] = "completed"
      /\ status[b] # "absent" => target'[b] = target[b]
      /\ result'[b] = result[b]
      /\ b \notin cancels' => b \notin cancels /\ staged'[b] = staged[b]
  BY DEF StepKeeps, RowsStay
<1>4. b # NoOne BY BuildAssumption DEF Procs
<1>5. \A v \in 1 .. MaxVersion : published[v].by = b =>
        /\ published'[v].by = b /\ published'[v].count = published[v].count
        /\ published'[v].items = published[v].items
  BY <1>4 DEF StepKeeps, RowsStay
<1>6. place[b] \in {"insert_items", "complete", "done"} \/ status[b] = "completed" =>
        target'[b] = target[b] /\ target[b] \in 1 .. MaxVersion
  BY <1>2, <1>3 DEF BuildInOrder, BuildTypes
<1>7. place[b] = "insert_items" => Writes(b, target[b], todo[b])'
  BY <1>1, <1>2, <1>5, <1>6 DEF WorkInOrder, Writes
<1>8. place[b] = "complete" => Wrote(b, target[b])'
  BY <1>2, <1>3, <1>5, <1>6 DEF WorkInOrder, Wrote
<1>9. status'[b] = "completed" =>
         place[b] = "done" /\ result'[b] = target'[b] /\ Wrote(b, target[b])'
  BY <1>2, <1>3, <1>5, <1>6 DEF WorkInOrder, Wrote
<1>10. /\ place[b] \in {"check", "stage"} => todo[b] # {}
       /\ place[b] = "last_check" => todo[b] = {}
       /\ b \notin cancels' =>
            /\ place[b] \in {"check", "stage", "last_check", "finalizing"} =>
                 staged'[b] = Items \ Unstaged(b)
            /\ place[b] \in Publishing => todo[b] = Items
  BY <1>2, <1>3 DEF WorkInOrder
<1>11. Unstaged(b)' = Unstaged(b) BY <1>1 DEF Unstaged
<1> QED BY <1>1, <1>7, <1>8, <1>9, <1>10, <1>11 DEF WorkInOrder, Wrote, Writes

(* What the properties say follows from what each build relies on.            *)
LEMMA OrderSuffices ==
    ASSUME BuildAssumption, BuildTypes,
           \A b \in Builds : WorkInOrder(b) /\ BuildInOrder(b) /\ LeftStaged(b)
    PROVE  NothingMissing /\ StagedCleared /\ CompletedIsPublished
<1>1. NothingMissing BY DEF NothingMissing, WorkInOrder, Wrote
<1>2. StagedCleared
  BY DEF StagedCleared, BuildInOrder, LeftStaged, Working
<1>3. CompletedIsPublished
  <2> SUFFICES ASSUME NEW b \in Builds, status[b] = "completed"
               PROVE  /\ result[b] \in Existing /\ published[result[b]].by = b
                      /\ Cardinality(published[result[b]].items) = published[result[b]].count
    BY DEF CompletedIsPublished
  <2>1. result[b] = target[b] /\ Wrote(b, target[b]) /\ target[b] \in 1 .. MaxVersion
    BY DEF WorkInOrder, BuildInOrder
  <2>2. b # NoOne BY BuildAssumption DEF Procs
  <2> QED BY <2>1, <2>2 DEF Existing, Wrote
<1> QED BY <1>1, <1>2, <1>3

(* A step that keeps what it has to keep leaves the invariant.                *)
LEMMA StepSuffices ==
    ASSUME BuildAssumption, BuildOrder, NEW p \in Procs, StepKeeps(p)
    PROVE  BuildOrder'
<1>1. \A c \in Clients : RequestInOrder(c)' BY OtherRequests DEF StepKeeps
<1>2. \A b \in Builds : WorkInOrder(b)' BY OtherWorkers DEF StepKeeps
<1>3. BuildTypes' /\ StoppedNeverRuns' /\ VersionsCounted'
  BY DEF StepKeeps
<1>4. \A b \in Builds : BuildInOrder(b)' /\ LeftStaged(b)' BY DEF StepKeeps
<1> QED BY <1>1, <1>2, <1>3, <1>4 DEF BuildOrder

(* What the requests and the builds rely on about the row of a build, about   *)
(* the rows staged for it and about their own place, one lemma per action.    *)
LEMMA start_build_job_Order ==
    ASSUME BuildAssumption, BuildOrder, BuildTypes', NEW c \in Clients,
           start_build_job(c), OthersStay(c)
    PROVE  /\ \A k \in Builds : BuildInOrder(k)' /\ LeftStaged(k)'
           /\ StoppedNeverRuns'
           /\ RequestInOrder(c)'
<1>types. BuildTypes /\ Builds \cap Clients = {} BY BuildAssumption DEF BuildOrder
<1>builds. (\A k \in Builds : BuildInOrder(k) /\ LeftStaged(k)) /\ StoppedNeverRuns
  BY DEF BuildOrder
<1>own. RequestInOrder(c) BY DEF BuildOrder
<1>1. ASSUME NEW k \in Builds PROVE BuildInOrder(k)'
  BY <1>types, <1>builds, <1>own DEF start_build_job, Request, jobrows, core, asks,
      Goto, ActiveStatuses, BuildTypes, BuildInOrder, RequestInOrder, Cancelling,
      WorkerPCs
<1>2. StoppedNeverRuns'
  BY <1>types, <1>builds, <1>own DEF start_build_job, Request, jobrows, core, asks,
      Goto, ActiveStatuses, BuildTypes, BuildInOrder, RequestInOrder, Cancelling,
      StoppedNeverRuns
<1>3. ASSUME NEW k \in Builds PROVE LeftStaged(k)'
  <2>1. /\ k # c /\ c \in Procs /\ place[c] # "cancel_delete" /\ (crashes' = 0 => crashes = 0)
        /\ status'[k] \in {status[k], "failed", "cancelling"} /\ staged'[k] \subseteq staged[k]
    BY <1>types, <1>builds DEF start_build_job, Request, jobrows, core, asks, Goto,
        ActiveStatuses, BuildTypes
  <2> QED BY <1>types, <1>builds, <2>1, OthersLeft
<1>4. RequestInOrder(c)'
  BY <1>types, <1>builds, <1>own DEF start_build_job, Request, jobrows, core, asks,
      Goto, ActiveStatuses, BuildTypes, BuildInOrder, RequestInOrder, Cancelling,
      Publishing, Writes, ClientPCs
<1> QED BY <1>1, <1>2, <1>3, <1>4

LEMMA build_Order ==
    ASSUME BuildAssumption, BuildOrder, BuildTypes', NEW c \in Clients, build(c),
           OthersStay(c)
    PROVE  /\ \A k \in Builds : BuildInOrder(k)' /\ LeftStaged(k)'
           /\ StoppedNeverRuns'
           /\ RequestInOrder(c)'
<1>types. BuildTypes /\ Builds \cap Clients = {} BY BuildAssumption DEF BuildOrder
<1>builds. (\A k \in Builds : BuildInOrder(k) /\ LeftStaged(k)) /\ StoppedNeverRuns
  BY DEF BuildOrder
<1>own. RequestInOrder(c) BY DEF BuildOrder
<1>1. ASSUME NEW k \in Builds PROVE BuildInOrder(k)'
  BY <1>types, <1>builds, <1>own DEF build, Request, jobrows, core, asks, Goto,
      BuildTypes, BuildInOrder, RequestInOrder, Cancelling, WorkerPCs
<1>2. StoppedNeverRuns'
  BY <1>types, <1>builds, <1>own DEF build, Request, jobrows, core, asks, Goto,
      BuildTypes, BuildInOrder, RequestInOrder, Cancelling, StoppedNeverRuns
<1>3. ASSUME NEW k \in Builds PROVE LeftStaged(k)'
  <2>1. /\ k # c /\ c \in Procs /\ place[c] # "cancel_delete" /\ (crashes' = 0 => crashes = 0)
        /\ status'[k] \in {status[k], "failed", "cancelling"} /\ staged'[k] \subseteq staged[k]
    BY <1>types, <1>builds DEF build, Request, jobrows, core, asks, Goto, BuildTypes
  <2> QED BY <1>types, <1>builds, <2>1, OthersLeft
<1>4. RequestInOrder(c)'
  BY <1>types, <1>builds, <1>own DEF build, Request, jobrows, core, asks, Goto,
      BuildTypes, BuildInOrder, RequestInOrder, Cancelling, Publishing, Writes,
      ClientPCs
<1> QED BY <1>1, <1>2, <1>3, <1>4

LEMMA next_version_Order ==
    ASSUME BuildAssumption, BuildOrder, BuildTypes', NEW c \in Clients,
           next_version(c), OthersStay(c)
    PROVE  /\ \A k \in Builds : BuildInOrder(k)' /\ LeftStaged(k)'
           /\ StoppedNeverRuns'
           /\ RequestInOrder(c)'
<1>types. BuildTypes /\ Builds \cap Clients = {} BY BuildAssumption DEF BuildOrder
<1>builds. (\A k \in Builds : BuildInOrder(k) /\ LeftStaged(k)) /\ StoppedNeverRuns
  BY DEF BuildOrder
<1>own. RequestInOrder(c) BY DEF BuildOrder
<1>1. ASSUME NEW k \in Builds PROVE BuildInOrder(k)'
  BY <1>types, <1>builds, <1>own DEF next_version, jobrows, core, asks, bounds,
      BuildTypes, BuildInOrder, RequestInOrder, Cancelling, WorkerPCs
<1>2. StoppedNeverRuns'
  BY <1>types, <1>builds, <1>own DEF next_version, jobrows, core, asks, bounds,
      BuildTypes, BuildInOrder, RequestInOrder, Cancelling, StoppedNeverRuns
<1>3. ASSUME NEW k \in Builds PROVE LeftStaged(k)'
  <2>1. /\ k # c /\ c \in Procs /\ place[c] # "cancel_delete" /\ (crashes' = 0 => crashes = 0)
        /\ status'[k] \in {status[k], "failed", "cancelling"} /\ staged'[k] \subseteq staged[k]
    BY <1>types, <1>builds DEF next_version, jobrows, core, asks, bounds, BuildTypes
  <2> QED BY <1>types, <1>builds, <2>1, OthersLeft
<1>4. RequestInOrder(c)'
  <2>1. NextVersion \in 1 .. MaxVersion
    <3>1. c \in Computing BY DEF next_version, Computing
    <3> QED BY <3>1, NumbersBounded DEF BuildOrder
  <2>2. version'[c] = NextVersion /\ place'[c] \in {"insert", "insert_version"}
    BY <1>types DEF next_version, BuildTypes
  <2> QED BY <2>1, <2>2 DEF RequestInOrder, Publishing, Cancelling, ClientPCs
<1> QED BY <1>1, <1>2, <1>3, <1>4

LEMMA insert_job_Order ==
    ASSUME BuildAssumption, BuildOrder, BuildTypes', NEW c \in Clients, insert_job(c),
           OthersStay(c)
    PROVE  /\ \A k \in Builds : BuildInOrder(k)' /\ LeftStaged(k)'
           /\ StoppedNeverRuns'
           /\ RequestInOrder(c)'
<1>types. BuildTypes /\ Builds \cap Clients = {} BY BuildAssumption DEF BuildOrder
<1>builds. (\A k \in Builds : BuildInOrder(k) /\ LeftStaged(k)) /\ StoppedNeverRuns
  BY DEF BuildOrder
<1>own. RequestInOrder(c) BY DEF BuildOrder
<1>new. NewBuild \in Builds /\ status[NewBuild] = "absent"
  <2>1. NewBuild \in Unused BY DEF insert_job, NewBuild
  <2> QED BY <2>1 DEF Unused
<1>1. ASSUME NEW k \in Builds PROVE BuildInOrder(k)'
  BY <1>new, <1>types, <1>builds, <1>own
  DEF insert_job, core, asks, bounds, BuildTypes, BuildInOrder, RequestInOrder,
      Cancelling, WorkerPCs
<1>2. StoppedNeverRuns'
  <2> SUFFICES ASSUME NEW k \in stopped'
               PROVE  dispatched'[k] = 0 /\ status'[k] = "cancelled"
    BY DEF StoppedNeverRuns
  <2>1. k \in stopped /\ k \in Builds
    BY <1>new, <1>types DEF insert_job, asks, BuildTypes
  <2>2. dispatched[k] = 0 /\ life[k] = "settled" /\ status[k] = "cancelled"
    BY <1>builds, <2>1 DEF BuildInOrder, StoppedNeverRuns
  <2>3. k # NewBuild BY <1>new, <1>builds, <2>2 DEF insert_job, BuildInOrder
  <2> QED BY <1>new, <1>types, <2>1, <2>2, <2>3 DEF insert_job, core, BuildTypes
<1>3. ASSUME NEW k \in Builds PROVE LeftStaged(k)'
  <2>1. CASE k # NewBuild
    <3>1. /\ k # c /\ c \in Procs /\ place[c] # "cancel_delete" /\ (crashes' = 0 => crashes = 0)
          /\ status'[k] = status[k] /\ staged'[k] = staged[k]
      BY <1>new, <1>types, <2>1 DEF insert_job, bounds, BuildTypes
    <3> QED BY <1>types, <1>builds, <3>1, OthersLeft
  <2>2. CASE k = NewBuild
    BY <1>new, <1>types, <1>builds, <2>2
    DEF insert_job, BuildTypes, BuildInOrder, LeftStaged
  <2> QED BY <2>1, <2>2
<1>4. RequestInOrder(c)'
  BY <1>new, <1>types, <1>builds, <1>own
  DEF insert_job, core, asks, bounds, BuildTypes, BuildInOrder, RequestInOrder,
      Cancelling, Publishing, Writes, ClientPCs
<1> QED BY <1>1, <1>2, <1>3, <1>4

LEMMA enqueue_Order ==
    ASSUME BuildAssumption, BuildOrder, BuildTypes', NEW c \in Clients, enqueue(c),
           OthersStay(c)
    PROVE  /\ \A k \in Builds : BuildInOrder(k)' /\ LeftStaged(k)'
           /\ StoppedNeverRuns'
           /\ RequestInOrder(c)'
<1>types. BuildTypes /\ Builds \cap Clients = {} BY BuildAssumption DEF BuildOrder
<1>builds. (\A k \in Builds : BuildInOrder(k) /\ LeftStaged(k)) /\ StoppedNeverRuns
  BY DEF BuildOrder
<1>own. RequestInOrder(c) BY DEF BuildOrder
<1>1. ASSUME NEW k \in Builds PROVE BuildInOrder(k)'
  BY <1>types, <1>builds, <1>own DEF enqueue, jobrows, asks, bounds, Goto,
      Queue!Submit, BuildTypes, BuildInOrder, RequestInOrder, Cancelling, WorkerPCs
<1>2. StoppedNeverRuns'
  BY <1>types, <1>builds, <1>own DEF enqueue, jobrows, asks, bounds, Goto,
      Queue!Submit, BuildTypes, BuildInOrder, RequestInOrder, Cancelling,
      StoppedNeverRuns
<1>3. ASSUME NEW k \in Builds PROVE LeftStaged(k)'
  <2>1. /\ k # c /\ c \in Procs /\ place[c] # "cancel_delete" /\ (crashes' = 0 => crashes = 0)
        /\ status'[k] \in {status[k], "failed", "cancelling"} /\ staged'[k] \subseteq staged[k]
    BY <1>types, <1>builds
      DEF enqueue, jobrows, asks, bounds, Goto, Queue!Submit, BuildTypes
  <2> QED BY <1>types, <1>builds, <2>1, OthersLeft
<1>4. RequestInOrder(c)'
  BY <1>types, <1>builds, <1>own DEF enqueue, jobrows, asks, bounds, Goto,
      Queue!Submit, BuildTypes, BuildInOrder, RequestInOrder, Cancelling, Publishing,
      Writes, ClientPCs
<1> QED BY <1>1, <1>2, <1>3, <1>4

LEMMA link_Order ==
    ASSUME BuildAssumption, BuildOrder, BuildTypes', NEW c \in Clients, link(c),
           OthersStay(c)
    PROVE  /\ \A k \in Builds : BuildInOrder(k)' /\ LeftStaged(k)'
           /\ StoppedNeverRuns'
           /\ RequestInOrder(c)'
<1>types. BuildTypes /\ Builds \cap Clients = {} BY BuildAssumption DEF BuildOrder
<1>builds. (\A k \in Builds : BuildInOrder(k) /\ LeftStaged(k)) /\ StoppedNeverRuns
  BY DEF BuildOrder
<1>own. RequestInOrder(c) BY DEF BuildOrder
<1>1. ASSUME NEW k \in Builds PROVE BuildInOrder(k)'
  BY <1>types, <1>builds, <1>own DEF link, core, asks, bounds, Goto, BuildTypes,
      BuildInOrder, RequestInOrder, Cancelling, WorkerPCs
<1>2. StoppedNeverRuns'
  BY <1>types, <1>builds, <1>own DEF link, core, asks, bounds, Goto, BuildTypes,
      BuildInOrder, RequestInOrder, Cancelling, StoppedNeverRuns
<1>3. ASSUME NEW k \in Builds PROVE LeftStaged(k)'
  <2>1. /\ k # c /\ c \in Procs /\ place[c] # "cancel_delete" /\ (crashes' = 0 => crashes = 0)
        /\ status'[k] \in {status[k], "failed", "cancelling"} /\ staged'[k] \subseteq staged[k]
    BY <1>types, <1>builds DEF link, core, asks, bounds, Goto, BuildTypes
  <2> QED BY <1>types, <1>builds, <2>1, OthersLeft
<1>4. RequestInOrder(c)'
  BY <1>types, <1>builds, <1>own DEF link, core, asks, bounds, Goto, BuildTypes,
      BuildInOrder, RequestInOrder, Cancelling, Publishing, Writes, ClientPCs
<1> QED BY <1>1, <1>2, <1>3, <1>4

LEMMA cancel_queued_Order ==
    ASSUME BuildAssumption, BuildOrder, BuildTypes', NEW c \in Clients,
           cancel_queued(c), OthersStay(c)
    PROVE  /\ \A k \in Builds : BuildInOrder(k)' /\ LeftStaged(k)'
           /\ StoppedNeverRuns'
           /\ RequestInOrder(c)'
<1>types. BuildTypes /\ Builds \cap Clients = {} BY BuildAssumption DEF BuildOrder
<1>builds. (\A k \in Builds : BuildInOrder(k) /\ LeftStaged(k)) /\ StoppedNeverRuns
  BY DEF BuildOrder
<1>own. RequestInOrder(c) BY DEF BuildOrder
<1>1. ASSUME NEW k \in Builds PROVE BuildInOrder(k)'
  BY <1>types, <1>builds, <1>own DEF cancel_queued, core, asks, bounds, Goto,
      BuildTypes, BuildInOrder, RequestInOrder, Cancelling, WorkerPCs
<1>2. StoppedNeverRuns'
  BY <1>types, <1>builds, <1>own DEF cancel_queued, core, asks, bounds, Goto,
      BuildTypes, BuildInOrder, RequestInOrder, Cancelling, StoppedNeverRuns
<1>3. ASSUME NEW k \in Builds PROVE LeftStaged(k)'
  <2>0. about[c] \in Builds /\ c \in Procs /\ c # k
    BY <1>types, <1>own DEF cancel_queued, BuildTypes, RequestInOrder, Procs
  <2>1. CASE k # about[c]
    <3>1. /\ place[c] # "cancel_delete" /\ (crashes' = 0 => crashes = 0)
          /\ status'[k] = status[k] /\ staged'[k] = staged[k]
      BY <1>types, <2>0, <2>1 DEF cancel_queued, bounds
    <3> QED BY <1>types, <1>builds, <2>0, <3>1, OthersLeft
  <2>2. CASE k = about[c]
    <3>1. about'[c] = k /\ place'[c] = "cancel_delete" /\ (crashes' = 0 => crashes = 0)
      BY <1>types, <2>0, <2>2 DEF cancel_queued, Goto, bounds, BuildTypes
    <3>2. place'[k] = place[k]
      BY <1>types, <2>0 DEF cancel_queued, Goto
    <3> QED BY <1>builds, <3>1, <3>2 DEF LeftStaged
  <2> QED BY <2>1, <2>2
<1>4. RequestInOrder(c)'
  BY <1>types, <1>builds, <1>own DEF cancel_queued, core, asks, bounds, Goto,
      BuildTypes, BuildInOrder, RequestInOrder, Cancelling, Publishing, Writes,
      ClientPCs
<1> QED BY <1>1, <1>2, <1>3, <1>4

LEMMA cancel_delete_Order ==
    ASSUME BuildAssumption, BuildOrder, BuildTypes', NEW c \in Clients,
           cancel_delete(c), OthersStay(c)
    PROVE  /\ \A k \in Builds : BuildInOrder(k)' /\ LeftStaged(k)'
           /\ StoppedNeverRuns'
           /\ RequestInOrder(c)'
<1>types. BuildTypes /\ Builds \cap Clients = {} BY BuildAssumption DEF BuildOrder
<1>builds. (\A k \in Builds : BuildInOrder(k) /\ LeftStaged(k)) /\ StoppedNeverRuns
  BY DEF BuildOrder
<1>own. RequestInOrder(c) BY DEF BuildOrder
<1>1. ASSUME NEW k \in Builds PROVE BuildInOrder(k)'
  BY <1>types, <1>builds, <1>own DEF cancel_delete, jobrows, core, asks, bounds,
      DeleteStaged, Goto, BuildTypes, BuildInOrder, RequestInOrder, Cancelling,
      WorkerPCs
<1>2. StoppedNeverRuns'
  BY <1>types, <1>builds, <1>own DEF cancel_delete, jobrows, core, asks, bounds,
      DeleteStaged, Goto, BuildTypes, BuildInOrder, RequestInOrder, Cancelling,
      StoppedNeverRuns
<1>3. ASSUME NEW k \in Builds PROVE LeftStaged(k)'
  <2>0. about[c] \in Builds /\ c \in Procs /\ c # k
    BY <1>types, <1>own DEF cancel_delete, BuildTypes, RequestInOrder, Cancelling, Procs
  <2>1. place'[k] = place[k] /\ (crashes' = 0 => crashes = 0) /\ status'[k] = status[k]
    BY <1>types, <2>0 DEF cancel_delete, Goto, jobrows, bounds
  <2>2. CASE k = about[c]
    <3>1. staged'[k] = {}
      BY <1>types, <2>0, <2>2 DEF cancel_delete, DeleteStaged, BuildTypes
    <3> QED BY <1>builds, <2>1, <3>1 DEF LeftStaged
  <2>3. CASE k # about[c]
    <3>1. staged'[k] = staged[k]
      BY <1>types, <2>3 DEF cancel_delete, DeleteStaged
    <3>2. ASSUME NEW d \in Clients, about[d] = k, place[d] = "cancel_delete"
          PROVE  about'[d] = k /\ place'[d] = "cancel_delete"
      BY <2>3, <3>2 DEF OthersStay, Procs
    <3> QED BY <1>builds, <2>1, <3>1, <3>2 DEF LeftStaged
  <2> QED BY <2>2, <2>3
<1>4. RequestInOrder(c)'
  BY <1>types, <1>builds, <1>own DEF cancel_delete, jobrows, core, asks, bounds,
      DeleteStaged, Goto, BuildTypes, BuildInOrder, RequestInOrder, Cancelling,
      Publishing, Writes, ClientPCs
<1> QED BY <1>1, <1>2, <1>3, <1>4

LEMMA cancelling_Order ==
    ASSUME BuildAssumption, BuildOrder, BuildTypes', NEW c \in Clients, cancelling(c),
           OthersStay(c)
    PROVE  /\ \A k \in Builds : BuildInOrder(k)' /\ LeftStaged(k)'
           /\ StoppedNeverRuns'
           /\ RequestInOrder(c)'
<1>types. BuildTypes /\ Builds \cap Clients = {} BY BuildAssumption DEF BuildOrder
<1>builds. (\A k \in Builds : BuildInOrder(k) /\ LeftStaged(k)) /\ StoppedNeverRuns
  BY DEF BuildOrder
<1>own. RequestInOrder(c) BY DEF BuildOrder
<1>1. ASSUME NEW k \in Builds PROVE BuildInOrder(k)'
  BY <1>types, <1>builds, <1>own DEF cancelling, core, asks, bounds, Goto, BuildTypes,
      BuildInOrder, RequestInOrder, Cancelling, WorkerPCs
<1>2. StoppedNeverRuns'
  BY <1>types, <1>builds, <1>own DEF cancelling, core, asks, bounds, Goto, BuildTypes,
      BuildInOrder, RequestInOrder, Cancelling, StoppedNeverRuns
<1>3. ASSUME NEW k \in Builds PROVE LeftStaged(k)'
  <2>1. /\ k # c /\ c \in Procs /\ place[c] # "cancel_delete" /\ (crashes' = 0 => crashes = 0)
        /\ status'[k] \in {status[k], "failed", "cancelling"} /\ staged'[k] \subseteq staged[k]
    BY <1>types, <1>builds DEF cancelling, core, asks, bounds, Goto, BuildTypes
  <2> QED BY <1>types, <1>builds, <2>1, OthersLeft
<1>4. RequestInOrder(c)'
  BY <1>types, <1>builds, <1>own DEF cancelling, core, asks, bounds, Goto, BuildTypes,
      BuildInOrder, RequestInOrder, Cancelling, Publishing, Writes, ClientPCs
<1> QED BY <1>1, <1>2, <1>3, <1>4

LEMMA core_cancel_Order ==
    ASSUME BuildAssumption, BuildOrder, BuildTypes', NEW c \in Clients, core_cancel(c),
           OthersStay(c)
    PROVE  /\ \A k \in Builds : BuildInOrder(k)' /\ LeftStaged(k)'
           /\ StoppedNeverRuns'
           /\ RequestInOrder(c)'
<1>types. BuildTypes /\ Builds \cap Clients = {} BY BuildAssumption DEF BuildOrder
<1>builds. (\A k \in Builds : BuildInOrder(k) /\ LeftStaged(k)) /\ StoppedNeverRuns
  BY DEF BuildOrder
<1>own. RequestInOrder(c) BY DEF BuildOrder
<1>1. ASSUME NEW k \in Builds PROVE BuildInOrder(k)'
  BY <1>types, <1>builds, <1>own DEF core_cancel, jobrows, bounds, CoreAfterCancel,
      Goto, BuildTypes, BuildInOrder, RequestInOrder, Cancelling, WorkerPCs
<1>2. StoppedNeverRuns'
  BY <1>types, <1>builds, <1>own DEF core_cancel, jobrows, bounds, CoreAfterCancel,
      Goto, BuildTypes, BuildInOrder, RequestInOrder, Cancelling, StoppedNeverRuns
<1>3. ASSUME NEW k \in Builds PROVE LeftStaged(k)'
  <2>1. /\ k # c /\ c \in Procs /\ place[c] # "cancel_delete" /\ (crashes' = 0 => crashes = 0)
        /\ status'[k] \in {status[k], "failed", "cancelling"} /\ staged'[k] \subseteq staged[k]
    BY <1>types, <1>builds
      DEF core_cancel, jobrows, bounds, CoreAfterCancel, Goto, BuildTypes
  <2> QED BY <1>types, <1>builds, <2>1, OthersLeft
<1>4. RequestInOrder(c)'
  BY <1>types, <1>builds, <1>own DEF core_cancel, jobrows, bounds, CoreAfterCancel,
      Goto, BuildTypes, BuildInOrder, RequestInOrder, Cancelling, Publishing, Writes,
      ClientPCs
<1> QED BY <1>1, <1>2, <1>3, <1>4

LEMMA cancel_build_job_Order ==
    ASSUME BuildAssumption, BuildOrder, BuildTypes', NEW c \in Clients,
           NEW d \in Builds, cancel_build_job(c, d), OthersStay(c)
    PROVE  /\ \A k \in Builds : BuildInOrder(k)' /\ LeftStaged(k)'
           /\ StoppedNeverRuns'
           /\ RequestInOrder(c)'
<1>types. BuildTypes /\ Builds \cap Clients = {} BY BuildAssumption DEF BuildOrder
<1>builds. (\A k \in Builds : BuildInOrder(k) /\ LeftStaged(k)) /\ StoppedNeverRuns
  BY DEF BuildOrder
<1>own. RequestInOrder(c) BY DEF BuildOrder
<1>1. ASSUME NEW k \in Builds PROVE BuildInOrder(k)'
  BY <1>types, <1>builds, <1>own DEF cancel_build_job, Request, jobrows, core,
      ActiveStatuses, BuildTypes, BuildInOrder, RequestInOrder, Cancelling, WorkerPCs
<1>2. StoppedNeverRuns'
  BY <1>types, <1>builds, <1>own DEF cancel_build_job, Request, jobrows, core,
      ActiveStatuses, BuildTypes, BuildInOrder, RequestInOrder, Cancelling,
      StoppedNeverRuns
<1>3. ASSUME NEW k \in Builds PROVE LeftStaged(k)'
  <2>1. /\ k # c /\ c \in Procs /\ place[c] # "cancel_delete" /\ (crashes' = 0 => crashes = 0)
        /\ status'[k] \in {status[k], "failed", "cancelling"} /\ staged'[k] \subseteq staged[k]
    BY <1>types, <1>builds
      DEF cancel_build_job, Request, jobrows, core, ActiveStatuses, BuildTypes
  <2> QED BY <1>types, <1>builds, <2>1, OthersLeft
<1>4. RequestInOrder(c)'
  BY <1>types, <1>builds, <1>own DEF cancel_build_job, Request, jobrows, core,
      ActiveStatuses, BuildTypes, BuildInOrder, RequestInOrder, Cancelling, Publishing,
      Writes, ClientPCs
<1> QED BY <1>1, <1>2, <1>3, <1>4

LEMMA dispatch_Order ==
    ASSUME BuildAssumption, BuildOrder, BuildTypes', NEW b \in Builds, dispatch(b),
           OthersStay(b)
    PROVE  /\ \A k \in Builds : BuildInOrder(k)' /\ LeftStaged(k)'
           /\ StoppedNeverRuns'
           /\ WorkInOrder(b)'
<1>types. BuildTypes /\ Builds \cap Clients = {} BY BuildAssumption DEF BuildOrder
<1>builds. (\A k \in Builds : BuildInOrder(k) /\ LeftStaged(k)) /\ StoppedNeverRuns
  BY DEF BuildOrder
<1>own. WorkInOrder(b) BY DEF BuildOrder
<1>1. ASSUME NEW k \in Builds PROVE BuildInOrder(k)'
  BY <1>types, <1>builds, <1>own DEF dispatch, jobrows, asks, bounds, Goto, Working,
      Queue!Dispatch, BuildTypes, BuildInOrder, RequestInOrder, Cancelling, WorkerPCs
<1>2. StoppedNeverRuns'
  BY <1>types, <1>builds, <1>own DEF dispatch, jobrows, asks, bounds, Goto, Working,
      Queue!Dispatch, BuildTypes, BuildInOrder, RequestInOrder, Cancelling,
      StoppedNeverRuns
<1>3. ASSUME NEW k \in Builds \ {b} PROVE LeftStaged(k)'
  <2>1. /\ b \in Procs /\ place[b] # "cancel_delete" /\ (crashes' = 0 => crashes = 0)
        /\ status'[k] = status[k] /\ staged'[k] = staged[k]
    BY <1>types, <1>builds
      DEF dispatch, jobrows, asks, bounds, Goto, Working, Queue!Dispatch, BuildTypes
  <2> QED BY <1>types, <1>builds, <2>1, OthersLeft
<1>6. LeftStaged(b)'
  BY <1>types, <1>builds, <1>own DEF dispatch, jobrows, asks, bounds, Goto, Working,
      Queue!Dispatch, BuildTypes, BuildInOrder, LeftStaged
<1>5. WorkInOrder(b)'
  BY <1>types, <1>builds, <1>own DEF dispatch, jobrows, asks, bounds, Goto, Working,
      Queue!Dispatch, BuildTypes, BuildInOrder, WorkInOrder, Unstaged, Publishing,
      Writes
<1> QED BY <1>1, <1>2, <1>3, <1>5, <1>6

LEMMA raises_Order ==
    ASSUME BuildAssumption, BuildOrder, BuildTypes', NEW b \in Builds, raises(b),
           OthersStay(b)
    PROVE  /\ \A k \in Builds : BuildInOrder(k)' /\ LeftStaged(k)'
           /\ StoppedNeverRuns'
           /\ WorkInOrder(b)'
<1>types. BuildTypes /\ Builds \cap Clients = {} BY BuildAssumption DEF BuildOrder
<1>builds. (\A k \in Builds : BuildInOrder(k) /\ LeftStaged(k)) /\ StoppedNeverRuns
  BY DEF BuildOrder
<1>own. WorkInOrder(b) BY DEF BuildOrder
<1>1. ASSUME NEW k \in Builds PROVE BuildInOrder(k)'
  BY <1>types, <1>builds, <1>own DEF raises, jobrows, core, asks, bounds, Goto,
      BuildTypes, BuildInOrder, RequestInOrder, Cancelling, WorkerPCs
<1>2. StoppedNeverRuns'
  BY <1>types, <1>builds, <1>own DEF raises, jobrows, core, asks, bounds, Goto,
      BuildTypes, BuildInOrder, RequestInOrder, Cancelling, StoppedNeverRuns
<1>3. ASSUME NEW k \in Builds \ {b} PROVE LeftStaged(k)'
  <2>1. /\ b \in Procs /\ place[b] # "cancel_delete" /\ (crashes' = 0 => crashes = 0)
        /\ status'[k] = status[k] /\ staged'[k] = staged[k]
    BY <1>types, <1>builds DEF raises, jobrows, core, asks, bounds, Goto, BuildTypes
  <2> QED BY <1>types, <1>builds, <2>1, OthersLeft
<1>6. LeftStaged(b)'
  BY <1>types, <1>builds, <1>own
    DEF raises, jobrows, core, asks, bounds, Goto, BuildTypes, BuildInOrder, LeftStaged
<1>5. WorkInOrder(b)'
  BY <1>types, <1>builds, <1>own DEF raises, jobrows, core, asks, bounds, Goto,
      BuildTypes, BuildInOrder, WorkInOrder, Unstaged, Publishing, Writes
<1> QED BY <1>1, <1>2, <1>3, <1>5, <1>6

LEMMA set_running_Order ==
    ASSUME BuildAssumption, BuildOrder, BuildTypes', NEW b \in Builds, set_running(b),
           OthersStay(b)
    PROVE  /\ \A k \in Builds : BuildInOrder(k)' /\ LeftStaged(k)'
           /\ StoppedNeverRuns'
           /\ WorkInOrder(b)'
<1>types. BuildTypes /\ Builds \cap Clients = {} BY BuildAssumption DEF BuildOrder
<1>builds. (\A k \in Builds : BuildInOrder(k) /\ LeftStaged(k)) /\ StoppedNeverRuns
  BY DEF BuildOrder
<1>own. WorkInOrder(b) BY DEF BuildOrder
<1>1. ASSUME NEW k \in Builds PROVE BuildInOrder(k)'
  BY <1>types, <1>builds, <1>own DEF set_running, core, asks, bounds, DeleteStaged,
      BuildTypes, BuildInOrder, RequestInOrder, Cancelling, WorkerPCs
<1>2. StoppedNeverRuns'
  <2> SUFFICES ASSUME NEW k \in stopped'
               PROVE  dispatched'[k] = 0 /\ status'[k] = "cancelled"
    BY DEF StoppedNeverRuns
  <2>1. k \in stopped /\ k \in Builds BY <1>types DEF set_running, asks, BuildTypes
  <2>2. dispatched[k] = 0 /\ life[k] = "settled" /\ status[k] = "cancelled"
    BY <1>builds, <2>1 DEF BuildInOrder, StoppedNeverRuns
  <2>3. k # b BY <1>builds, <2>2 DEF set_running, BuildInOrder
  <2> QED BY <1>types, <2>1, <2>2, <2>3 DEF set_running, core, BuildTypes
<1>3. ASSUME NEW k \in Builds \ {b} PROVE LeftStaged(k)'
  <2>1. /\ b \in Procs /\ place[b] # "cancel_delete" /\ (crashes' = 0 => crashes = 0)
        /\ status'[k] = status[k] /\ staged'[k] = staged[k]
    BY <1>types, <1>builds DEF set_running, core, asks, bounds, DeleteStaged, BuildTypes
  <2> QED BY <1>types, <1>builds, <2>1, OthersLeft
<1>6. LeftStaged(b)'
  BY <1>types, <1>builds, <1>own DEF set_running, core, asks, bounds, DeleteStaged,
      BuildTypes, BuildInOrder, LeftStaged
<1>5. WorkInOrder(b)'
  BY <1>types, <1>builds, <1>own DEF set_running, core, asks, bounds, DeleteStaged,
      BuildTypes, BuildInOrder, WorkInOrder, Unstaged, Publishing, Writes
<1> QED BY <1>1, <1>2, <1>3, <1>5, <1>6

LEMMA should_cancel_Order ==
    ASSUME BuildAssumption, BuildOrder, BuildTypes', NEW b \in Builds,
           should_cancel(b), OthersStay(b)
    PROVE  /\ \A k \in Builds : BuildInOrder(k)' /\ LeftStaged(k)'
           /\ StoppedNeverRuns'
           /\ WorkInOrder(b)'
<1>types. BuildTypes /\ Builds \cap Clients = {} BY BuildAssumption DEF BuildOrder
<1>builds. (\A k \in Builds : BuildInOrder(k) /\ LeftStaged(k)) /\ StoppedNeverRuns
  BY DEF BuildOrder
<1>own. WorkInOrder(b) BY DEF BuildOrder
<1>1. ASSUME NEW k \in Builds PROVE BuildInOrder(k)'
  BY <1>types, <1>builds, <1>own DEF should_cancel, jobrows, core, asks, bounds, Goto,
      BuildTypes, BuildInOrder, RequestInOrder, Cancelling, WorkerPCs
<1>2. StoppedNeverRuns'
  BY <1>types, <1>builds, <1>own DEF should_cancel, jobrows, core, asks, bounds, Goto,
      BuildTypes, BuildInOrder, RequestInOrder, Cancelling, StoppedNeverRuns
<1>3. ASSUME NEW k \in Builds \ {b} PROVE LeftStaged(k)'
  <2>1. /\ b \in Procs /\ place[b] # "cancel_delete" /\ (crashes' = 0 => crashes = 0)
        /\ status'[k] = status[k] /\ staged'[k] = staged[k]
    BY <1>types, <1>builds
      DEF should_cancel, jobrows, core, asks, bounds, Goto, BuildTypes
  <2> QED BY <1>types, <1>builds, <2>1, OthersLeft
<1>6. LeftStaged(b)'
  BY <1>types, <1>builds, <1>own DEF should_cancel, jobrows, core, asks, bounds, Goto,
      BuildTypes, BuildInOrder, LeftStaged
<1>5. WorkInOrder(b)'
  BY <1>types, <1>builds, <1>own DEF should_cancel, jobrows, core, asks, bounds, Goto,
      BuildTypes, BuildInOrder, WorkInOrder, Unstaged, Publishing, Writes
<1> QED BY <1>1, <1>2, <1>3, <1>5, <1>6

LEMMA stage_item_Order ==
    ASSUME BuildAssumption, BuildOrder, BuildTypes', NEW b \in Builds, stage_item(b),
           OthersStay(b)
    PROVE  /\ \A k \in Builds : BuildInOrder(k)' /\ LeftStaged(k)'
           /\ StoppedNeverRuns'
           /\ WorkInOrder(b)'
<1>types. BuildTypes /\ Builds \cap Clients = {} BY BuildAssumption DEF BuildOrder
<1>builds. (\A k \in Builds : BuildInOrder(k) /\ LeftStaged(k)) /\ StoppedNeverRuns
  BY DEF BuildOrder
<1>own. WorkInOrder(b) BY DEF BuildOrder
<1>1. ASSUME NEW k \in Builds PROVE BuildInOrder(k)'
  BY <1>types, <1>builds, <1>own DEF stage_item, jobrows, core, asks, bounds,
      BuildTypes, BuildInOrder, RequestInOrder, Cancelling, WorkerPCs
<1>2. StoppedNeverRuns'
  BY <1>types, <1>builds, <1>own DEF stage_item, jobrows, core, asks, bounds,
      BuildTypes, BuildInOrder, RequestInOrder, Cancelling, StoppedNeverRuns
<1>3. ASSUME NEW k \in Builds \ {b} PROVE LeftStaged(k)'
  <2>1. /\ b \in Procs /\ place[b] # "cancel_delete" /\ (crashes' = 0 => crashes = 0)
        /\ status'[k] = status[k] /\ staged'[k] = staged[k]
    BY <1>types, <1>builds DEF stage_item, jobrows, core, asks, bounds, BuildTypes
  <2> QED BY <1>types, <1>builds, <2>1, OthersLeft
<1>6. LeftStaged(b)'
  BY <1>types, <1>builds, <1>own
    DEF stage_item, jobrows, core, asks, bounds, BuildTypes, BuildInOrder, LeftStaged
<1>5. WorkInOrder(b)'
  <2>1. todo[b] \in SUBSET Items /\ todo[b] # {}
    BY <1>types, <1>own DEF stage_item, WorkInOrder, BuildTypes
  <2>2. Min(todo[b]) \in todo[b] /\ (Cardinality(todo[b]) = 1 <=> todo[b] \ {Min(todo[b])} = {})
    BY <2>1, LeastItem
  <2>3. /\ todo'[b] = todo[b] \ {Min(todo[b])} /\ staged'[b] = staged[b] \cup {Min(todo[b])}
        /\ place'[b] = IF Cardinality(todo[b]) = 1 THEN "last_check" ELSE "check"
        /\ status'[b] = status[b] /\ cancels' = cancels
    BY <1>types DEF stage_item, jobrows, asks, BuildTypes
  <2>4. b \notin cancels => staged[b] = Items \ todo[b]
    BY <1>own DEF stage_item, WorkInOrder, Unstaged
  <2>5. status[b] # "completed" BY <1>own DEF stage_item, WorkInOrder
  <2> QED BY <2>1, <2>2, <2>3, <2>4, <2>5 DEF WorkInOrder, Unstaged, Publishing
<1> QED BY <1>1, <1>2, <1>3, <1>5, <1>6

LEMMA finish_cancelled_Order ==
    ASSUME BuildAssumption, BuildOrder, BuildTypes', NEW b \in Builds,
           finish_cancelled(b), OthersStay(b)
    PROVE  /\ \A k \in Builds : BuildInOrder(k)' /\ LeftStaged(k)'
           /\ StoppedNeverRuns'
           /\ WorkInOrder(b)'
<1>types. BuildTypes /\ Builds \cap Clients = {} BY BuildAssumption DEF BuildOrder
<1>builds. (\A k \in Builds : BuildInOrder(k) /\ LeftStaged(k)) /\ StoppedNeverRuns
  BY DEF BuildOrder
<1>own. WorkInOrder(b) BY DEF BuildOrder
<1>1. ASSUME NEW k \in Builds PROVE BuildInOrder(k)'
  BY <1>types, <1>builds, <1>own DEF finish_cancelled, core, asks, bounds,
      DeleteStaged, Goto, BuildTypes, BuildInOrder, RequestInOrder, Cancelling,
      WorkerPCs
<1>2. StoppedNeverRuns'
  BY <1>types, <1>builds, <1>own DEF finish_cancelled, core, asks, bounds,
      DeleteStaged, Goto, BuildTypes, BuildInOrder, RequestInOrder, Cancelling,
      StoppedNeverRuns
<1>3. ASSUME NEW k \in Builds \ {b} PROVE LeftStaged(k)'
  <2>1. /\ b \in Procs /\ place[b] # "cancel_delete" /\ (crashes' = 0 => crashes = 0)
        /\ status'[k] = status[k] /\ staged'[k] = staged[k]
    BY <1>types, <1>builds
      DEF finish_cancelled, core, asks, bounds, DeleteStaged, Goto, BuildTypes
  <2> QED BY <1>types, <1>builds, <2>1, OthersLeft
<1>6. LeftStaged(b)'
  BY <1>types, <1>builds, <1>own DEF finish_cancelled, core, asks, bounds,
      DeleteStaged, Goto, BuildTypes, BuildInOrder, LeftStaged
<1>5. WorkInOrder(b)'
  BY <1>types, <1>builds, <1>own DEF finish_cancelled, core, asks, bounds,
      DeleteStaged, Goto, BuildTypes, BuildInOrder, WorkInOrder, Unstaged, Publishing,
      Writes
<1> QED BY <1>1, <1>2, <1>3, <1>5, <1>6

LEMMA finalize_Order ==
    ASSUME BuildAssumption, BuildOrder, BuildTypes', NEW b \in Builds, finalize(b),
           OthersStay(b)
    PROVE  /\ \A k \in Builds : BuildInOrder(k)' /\ LeftStaged(k)'
           /\ StoppedNeverRuns'
           /\ WorkInOrder(b)'
<1>types. BuildTypes /\ Builds \cap Clients = {} BY BuildAssumption DEF BuildOrder
<1>builds. (\A k \in Builds : BuildInOrder(k) /\ LeftStaged(k)) /\ StoppedNeverRuns
  BY DEF BuildOrder
<1>own. WorkInOrder(b) BY DEF BuildOrder
<1>1. ASSUME NEW k \in Builds PROVE BuildInOrder(k)'
  BY <1>types, <1>builds, <1>own DEF finalize, jobrows, core, asks, bounds,
      StagedItems, BuildTypes, BuildInOrder, RequestInOrder, Cancelling, WorkerPCs,
      Publishing
<1>2. StoppedNeverRuns'
  BY <1>types, <1>builds, <1>own DEF finalize, jobrows, core, asks, bounds,
      StagedItems, BuildTypes, BuildInOrder, RequestInOrder, Cancelling,
      StoppedNeverRuns
<1>3. ASSUME NEW k \in Builds \ {b} PROVE LeftStaged(k)'
  <2>1. /\ b \in Procs /\ place[b] # "cancel_delete" /\ (crashes' = 0 => crashes = 0)
        /\ status'[k] = status[k] /\ staged'[k] = staged[k]
    BY <1>types, <1>builds
      DEF finalize, jobrows, core, asks, bounds, StagedItems, BuildTypes
  <2> QED BY <1>types, <1>builds, <2>1, OthersLeft
<1>6. LeftStaged(b)'
  BY <1>types, <1>builds, <1>own DEF finalize, jobrows, core, asks, bounds,
      StagedItems, BuildTypes, BuildInOrder, LeftStaged
<1>5. WorkInOrder(b)'
  BY <1>types, <1>builds, <1>own DEF finalize, jobrows, core, asks, bounds,
      StagedItems, BuildTypes, BuildInOrder, WorkInOrder, Unstaged, Publishing, Writes
<1> QED BY <1>1, <1>2, <1>3, <1>5, <1>6

LEMMA complete_Order ==
    ASSUME BuildAssumption, BuildOrder, BuildTypes', NEW b \in Builds, complete(b),
           OthersStay(b)
    PROVE  /\ \A k \in Builds : BuildInOrder(k)' /\ LeftStaged(k)'
           /\ StoppedNeverRuns'
           /\ WorkInOrder(b)'
<1>types. BuildTypes /\ Builds \cap Clients = {} BY BuildAssumption DEF BuildOrder
<1>builds. (\A k \in Builds : BuildInOrder(k) /\ LeftStaged(k)) /\ StoppedNeverRuns
  BY DEF BuildOrder
<1>own. WorkInOrder(b) BY DEF BuildOrder
<1>1. ASSUME NEW k \in Builds PROVE BuildInOrder(k)'
  BY <1>types, <1>builds, <1>own DEF complete, core, asks, bounds, DeleteStaged, Goto,
      BuildTypes, BuildInOrder, RequestInOrder, Cancelling, WorkerPCs
<1>2. StoppedNeverRuns'
  <2> SUFFICES ASSUME NEW k \in stopped'
               PROVE  dispatched'[k] = 0 /\ status'[k] = "cancelled"
    BY DEF StoppedNeverRuns
  <2>1. k \in stopped /\ k \in Builds BY <1>types DEF complete, asks, BuildTypes
  <2>2. dispatched[k] = 0 /\ life[k] = "settled" /\ status[k] = "cancelled"
    BY <1>builds, <2>1 DEF BuildInOrder, StoppedNeverRuns
  <2>3. k # b BY <1>builds, <2>2 DEF complete, BuildInOrder
  <2> QED BY <1>types, <2>1, <2>2, <2>3 DEF complete, core, BuildTypes
<1>3. ASSUME NEW k \in Builds \ {b} PROVE LeftStaged(k)'
  <2>1. /\ b \in Procs /\ place[b] # "cancel_delete" /\ (crashes' = 0 => crashes = 0)
        /\ status'[k] = status[k] /\ staged'[k] = staged[k]
    BY <1>types, <1>builds
      DEF complete, core, asks, bounds, DeleteStaged, Goto, BuildTypes
  <2> QED BY <1>types, <1>builds, <2>1, OthersLeft
<1>6. LeftStaged(b)'
  BY <1>types, <1>builds, <1>own DEF complete, core, asks, bounds, DeleteStaged, Goto,
      BuildTypes, BuildInOrder, LeftStaged
<1>5. WorkInOrder(b)'
  BY <1>types, <1>builds, <1>own DEF complete, core, asks, bounds, DeleteStaged, Goto,
      BuildTypes, BuildInOrder, WorkInOrder, Unstaged, Publishing, Writes, Wrote
<1> QED BY <1>1, <1>2, <1>3, <1>5, <1>6

LEMMA fail_Order ==
    ASSUME BuildAssumption, BuildOrder, BuildTypes', NEW b \in Builds, fail(b),
           OthersStay(b)
    PROVE  /\ \A k \in Builds : BuildInOrder(k)' /\ LeftStaged(k)'
           /\ StoppedNeverRuns'
           /\ WorkInOrder(b)'
<1>types. BuildTypes /\ Builds \cap Clients = {} BY BuildAssumption DEF BuildOrder
<1>builds. (\A k \in Builds : BuildInOrder(k) /\ LeftStaged(k)) /\ StoppedNeverRuns
  BY DEF BuildOrder
<1>own. WorkInOrder(b) BY DEF BuildOrder
<1>1. ASSUME NEW k \in Builds PROVE BuildInOrder(k)'
  BY <1>types, <1>builds, <1>own DEF fail, core, asks, bounds, FailedStatus, Goto,
      BuildTypes, BuildInOrder, RequestInOrder, Cancelling, WorkerPCs
<1>2. StoppedNeverRuns'
  <2> SUFFICES ASSUME NEW k \in stopped'
               PROVE  dispatched'[k] = 0 /\ status'[k] = "cancelled"
    BY DEF StoppedNeverRuns
  <2>1. k \in stopped /\ k \in Builds BY <1>types DEF fail, asks, BuildTypes
  <2>2. dispatched[k] = 0 /\ life[k] = "settled" /\ status[k] = "cancelled"
    BY <1>builds, <2>1 DEF BuildInOrder, StoppedNeverRuns
  <2>3. k # b BY <1>builds, <2>2 DEF fail, BuildInOrder
  <2> QED BY <1>types, <2>1, <2>2, <2>3 DEF fail, core, BuildTypes
<1>3. ASSUME NEW k \in Builds \ {b} PROVE LeftStaged(k)'
  <2>1. /\ b \in Procs /\ place[b] # "cancel_delete" /\ (crashes' = 0 => crashes = 0)
        /\ status'[k] = status[k] /\ staged'[k] = staged[k]
    BY <1>types, <1>builds DEF fail, core, asks, bounds, FailedStatus, Goto, BuildTypes
  <2> QED BY <1>types, <1>builds, <2>1, OthersLeft
<1>6. LeftStaged(b)'
  BY <1>types, <1>builds, <1>own DEF fail, core, asks, bounds, FailedStatus, Goto,
      BuildTypes, BuildInOrder, LeftStaged
<1>5. WorkInOrder(b)'
  BY <1>types, <1>builds, <1>own DEF fail, core, asks, bounds, FailedStatus, Goto,
      BuildTypes, BuildInOrder, WorkInOrder, Unstaged, Publishing, Writes
<1> QED BY <1>1, <1>2, <1>3, <1>5, <1>6

LEMMA insert_version_Order ==
    ASSUME BuildAssumption, BuildOrder, BuildTypes', NEW p \in Procs,
           insert_version(p), OthersStay(p)
    PROVE  /\ \A k \in Builds : BuildInOrder(k)' /\ LeftStaged(k)'
           /\ StoppedNeverRuns'
           /\ ((p \in Clients => RequestInOrder(p)) /\ (p \in Builds => WorkInOrder(p)))'
<1>types. BuildTypes /\ Builds \cap Clients = {} BY BuildAssumption DEF BuildOrder
<1>builds. (\A k \in Builds : BuildInOrder(k) /\ LeftStaged(k)) /\ StoppedNeverRuns
  BY DEF BuildOrder
<1>own. (p \in Clients => RequestInOrder(p)) /\ (p \in Builds => WorkInOrder(p))
  BY DEF BuildOrder
<1>1. ASSUME NEW k \in Builds PROVE BuildInOrder(k)'
  BY <1>types, <1>builds, <1>own DEF insert_version, jobrows, core, asks, bounds,
      Publishes, MayInsert, Goto, BuildTypes, BuildInOrder, RequestInOrder, Cancelling,
      WorkerPCs, Publishing
<1>2. StoppedNeverRuns'
  BY <1>types, <1>builds, <1>own DEF insert_version, jobrows, core, asks, bounds,
      Publishes, MayInsert, Goto, BuildTypes, BuildInOrder, RequestInOrder, Cancelling,
      StoppedNeverRuns
<1>3. ASSUME NEW k \in Builds PROVE LeftStaged(k)'
  <2>1. /\ place[p] # "cancel_delete" /\ (crashes' = 0 => crashes = 0)
        /\ status'[k] = status[k] /\ staged'[k] = staged[k]
    BY <1>types, <1>builds DEF insert_version, jobrows, core, asks, bounds, Publishes,
        MayInsert, Goto, BuildTypes
  <2>2. CASE k # p BY <1>types, <1>builds, <2>1, <2>2, OthersLeft
  <2>3. CASE k = p
    BY <1>types, <1>builds, <1>own, <2>1, <2>3
    DEF insert_version, jobrows, core, asks, bounds, Publishes, MayInsert, Goto,
        BuildTypes, BuildInOrder, LeftStaged
  <2> QED BY <2>2, <2>3
<1>4. p \in Clients => RequestInOrder(p)'
  BY <1>types, <1>builds, <1>own DEF insert_version, jobrows, core, asks, bounds,
      Publishes, MayInsert, Goto, BuildTypes, BuildInOrder, RequestInOrder, Cancelling,
      Publishing, Writes, ClientPCs
<1>5. p \in Builds => WorkInOrder(p)'
  BY <1>types, <1>builds, <1>own DEF insert_version, jobrows, core, asks, bounds,
      Publishes, MayInsert, Goto, BuildTypes, BuildInOrder, WorkInOrder, Unstaged,
      Publishing, Writes
<1> QED BY <1>1, <1>2, <1>3, <1>4, <1>5

LEMMA version_taken_Order ==
    ASSUME BuildAssumption, BuildOrder, BuildTypes', NEW p \in Procs, version_taken(p),
           OthersStay(p)
    PROVE  /\ \A k \in Builds : BuildInOrder(k)' /\ LeftStaged(k)'
           /\ StoppedNeverRuns'
           /\ ((p \in Clients => RequestInOrder(p)) /\ (p \in Builds => WorkInOrder(p)))'
<1>types. BuildTypes /\ Builds \cap Clients = {} BY BuildAssumption DEF BuildOrder
<1>builds. (\A k \in Builds : BuildInOrder(k) /\ LeftStaged(k)) /\ StoppedNeverRuns
  BY DEF BuildOrder
<1>own. (p \in Clients => RequestInOrder(p)) /\ (p \in Builds => WorkInOrder(p))
  BY DEF BuildOrder
<1>1. ASSUME NEW k \in Builds PROVE BuildInOrder(k)'
  BY <1>types, <1>builds, <1>own DEF version_taken, jobrows, core, asks, bounds,
      Publishes, MayInsert, Goto, OnError, BuildTypes, BuildInOrder, RequestInOrder,
      Cancelling, WorkerPCs
<1>2. StoppedNeverRuns'
  BY <1>types, <1>builds, <1>own DEF version_taken, jobrows, core, asks, bounds,
      Publishes, MayInsert, Goto, OnError, BuildTypes, BuildInOrder, RequestInOrder,
      Cancelling, StoppedNeverRuns
<1>3. ASSUME NEW k \in Builds PROVE LeftStaged(k)'
  <2>1. /\ place[p] # "cancel_delete" /\ (crashes' = 0 => crashes = 0)
        /\ status'[k] = status[k] /\ staged'[k] = staged[k]
    BY <1>types, <1>builds DEF version_taken, jobrows, core, asks, bounds, Publishes,
        MayInsert, Goto, OnError, BuildTypes
  <2>2. CASE k # p BY <1>types, <1>builds, <2>1, <2>2, OthersLeft
  <2>3. CASE k = p
    BY <1>types, <1>builds, <1>own, <2>1, <2>3
    DEF version_taken, jobrows, core, asks, bounds, Publishes, MayInsert, Goto,
        OnError, BuildTypes, BuildInOrder, LeftStaged
  <2> QED BY <2>2, <2>3
<1>4. p \in Clients => RequestInOrder(p)'
  BY <1>types, <1>builds, <1>own DEF version_taken, jobrows, core, asks, bounds,
      Publishes, MayInsert, Goto, OnError, BuildTypes, BuildInOrder, RequestInOrder,
      Cancelling, Publishing, Writes, ClientPCs
<1>5. p \in Builds => WorkInOrder(p)'
  BY <1>types, <1>builds, <1>own DEF version_taken, jobrows, core, asks, bounds,
      Publishes, MayInsert, Goto, OnError, BuildTypes, BuildInOrder, WorkInOrder,
      Unstaged, Publishing, Writes
<1> QED BY <1>1, <1>2, <1>3, <1>4, <1>5

LEMMA insert_items_Order ==
    ASSUME BuildAssumption, BuildOrder, BuildTypes', NEW p \in Procs, insert_items(p),
           OthersStay(p)
    PROVE  /\ \A k \in Builds : BuildInOrder(k)' /\ LeftStaged(k)'
           /\ StoppedNeverRuns'
           /\ ((p \in Clients => RequestInOrder(p)) /\ (p \in Builds => WorkInOrder(p)))'
<1>types. BuildTypes /\ Builds \cap Clients = {} BY BuildAssumption DEF BuildOrder
<1>builds. (\A k \in Builds : BuildInOrder(k) /\ LeftStaged(k)) /\ StoppedNeverRuns
  BY DEF BuildOrder
<1>own. (p \in Clients => RequestInOrder(p)) /\ (p \in Builds => WorkInOrder(p))
  BY DEF BuildOrder
<1>1. ASSUME NEW k \in Builds PROVE BuildInOrder(k)'
  BY <1>types, <1>builds, <1>own DEF insert_items, jobrows, core, asks, bounds,
      Publishes, Goto, AfterPublishing, BuildTypes, BuildInOrder, RequestInOrder,
      Cancelling, WorkerPCs
<1>2. StoppedNeverRuns'
  BY <1>types, <1>builds, <1>own DEF insert_items, jobrows, core, asks, bounds,
      Publishes, Goto, AfterPublishing, BuildTypes, BuildInOrder, RequestInOrder,
      Cancelling, StoppedNeverRuns
<1>3. ASSUME NEW k \in Builds PROVE LeftStaged(k)'
  <2>1. /\ place[p] # "cancel_delete" /\ (crashes' = 0 => crashes = 0)
        /\ status'[k] = status[k] /\ staged'[k] = staged[k]
    BY <1>types, <1>builds DEF insert_items, jobrows, core, asks, bounds, Publishes,
        Goto, AfterPublishing, BuildTypes
  <2>2. CASE k # p BY <1>types, <1>builds, <2>1, <2>2, OthersLeft
  <2>3. CASE k = p
    BY <1>types, <1>builds, <1>own, <2>1, <2>3
    DEF insert_items, jobrows, core, asks, bounds, Publishes, Goto, AfterPublishing,
        BuildTypes, BuildInOrder, LeftStaged
  <2> QED BY <2>2, <2>3
<1>4. p \in Clients => RequestInOrder(p)'
  BY <1>types, <1>builds, <1>own DEF insert_items, jobrows, core, asks, bounds,
      Publishes, Goto, AfterPublishing, BuildTypes, BuildInOrder, RequestInOrder,
      Cancelling, Publishing, Writes, ClientPCs
<1>5. p \in Builds => WorkInOrder(p)'
  BY <1>types, <1>builds, <1>own DEF insert_items, jobrows, core, asks, bounds,
      Publishes, Goto, AfterPublishing, BuildTypes, BuildInOrder, WorkInOrder,
      Unstaged, Publishing, Writes, Wrote
<1> QED BY <1>1, <1>2, <1>3, <1>4, <1>5

LEMMA insert_raises_Order ==
    ASSUME BuildAssumption, BuildOrder, BuildTypes', NEW p \in Procs, insert_raises(p),
           OthersStay(p)
    PROVE  /\ \A k \in Builds : BuildInOrder(k)' /\ LeftStaged(k)'
           /\ StoppedNeverRuns'
           /\ ((p \in Clients => RequestInOrder(p)) /\ (p \in Builds => WorkInOrder(p)))'
<1>types. BuildTypes /\ Builds \cap Clients = {} BY BuildAssumption DEF BuildOrder
<1>builds. (\A k \in Builds : BuildInOrder(k) /\ LeftStaged(k)) /\ StoppedNeverRuns
  BY DEF BuildOrder
<1>own. (p \in Clients => RequestInOrder(p)) /\ (p \in Builds => WorkInOrder(p))
  BY DEF BuildOrder
<1>1. ASSUME NEW k \in Builds PROVE BuildInOrder(k)'
  BY <1>types, <1>builds, <1>own DEF insert_raises, jobrows, core, asks, bounds,
      Publishes, Goto, OnError, BuildTypes, BuildInOrder, RequestInOrder, Cancelling,
      WorkerPCs
<1>2. StoppedNeverRuns'
  BY <1>types, <1>builds, <1>own DEF insert_raises, jobrows, core, asks, bounds,
      Publishes, Goto, OnError, BuildTypes, BuildInOrder, RequestInOrder, Cancelling,
      StoppedNeverRuns
<1>3. ASSUME NEW k \in Builds PROVE LeftStaged(k)'
  <2>1. /\ place[p] # "cancel_delete" /\ (crashes' = 0 => crashes = 0)
        /\ status'[k] = status[k] /\ staged'[k] = staged[k]
    BY <1>types, <1>builds DEF insert_raises, jobrows, core, asks, bounds, Publishes,
        Goto, OnError, BuildTypes
  <2>2. CASE k # p BY <1>types, <1>builds, <2>1, <2>2, OthersLeft
  <2>3. CASE k = p
    BY <1>types, <1>builds, <1>own, <2>1, <2>3
    DEF insert_raises, jobrows, core, asks, bounds, Publishes, Goto, OnError,
        BuildTypes, BuildInOrder, LeftStaged
  <2> QED BY <2>2, <2>3
<1>4. p \in Clients => RequestInOrder(p)'
  BY <1>types, <1>builds, <1>own DEF insert_raises, jobrows, core, asks, bounds,
      Publishes, Goto, OnError, BuildTypes, BuildInOrder, RequestInOrder, Cancelling,
      Publishing, Writes, ClientPCs
<1>5. p \in Builds => WorkInOrder(p)'
  BY <1>types, <1>builds, <1>own DEF insert_raises, jobrows, core, asks, bounds,
      Publishes, Goto, OnError, BuildTypes, BuildInOrder, WorkInOrder, Unstaged,
      Publishing, Writes
<1> QED BY <1>1, <1>2, <1>3, <1>4, <1>5

LEMMA crash_Order ==
    ASSUME BuildAssumption, BuildOrder, BuildTypes', NEW p \in Procs, crash(p),
           OthersStay(p)
    PROVE  /\ \A k \in Builds : BuildInOrder(k)' /\ LeftStaged(k)'
           /\ StoppedNeverRuns'
           /\ ((p \in Clients => RequestInOrder(p)) /\ (p \in Builds => WorkInOrder(p)))'
<1>types. BuildTypes /\ Builds \cap Clients = {} BY BuildAssumption DEF BuildOrder
<1>builds. (\A k \in Builds : BuildInOrder(k) /\ LeftStaged(k)) /\ StoppedNeverRuns
  BY DEF BuildOrder
<1>own. (p \in Clients => RequestInOrder(p)) /\ (p \in Builds => WorkInOrder(p))
  BY DEF BuildOrder
<1>1. ASSUME NEW k \in Builds PROVE BuildInOrder(k)'
  BY <1>types, <1>builds, <1>own DEF crash, jobrows, core, asks, Goto, Working,
      BuildTypes, BuildInOrder, RequestInOrder, Cancelling, WorkerPCs, Publishing, Procs
<1>2. StoppedNeverRuns'
  BY <1>types, <1>builds, <1>own DEF crash, jobrows, core, asks, Goto, Working,
      BuildTypes, BuildInOrder, RequestInOrder, Cancelling, StoppedNeverRuns
<1>3. ASSUME NEW k \in Builds PROVE LeftStaged(k)'
  BY <1>types DEF crash, BuildTypes, LeftStaged
<1>4. p \in Clients => RequestInOrder(p)'
  BY <1>types, <1>builds, <1>own DEF crash, jobrows, core, asks, Goto, Working,
      BuildTypes, BuildInOrder, RequestInOrder, Cancelling, Publishing, Writes,
      ClientPCs
<1>5. p \in Builds => WorkInOrder(p)'
  BY <1>types, <1>builds, <1>own DEF crash, jobrows, core, asks, Goto, Working,
      BuildTypes, BuildInOrder, WorkInOrder, Unstaged, Publishing, Writes
<1> QED BY <1>1, <1>2, <1>3, <1>4, <1>5

(* The numbers: a step leaves them in bounds, one lemma per action.           *)
LEMMA start_build_job_Counts ==
    ASSUME BuildAssumption, BuildOrder, NEW c \in Clients, start_build_job(c),
           BuildTypes', OthersStay(c)
    PROVE  VersionsCounted'
<1>1. BuildTypes /\ VersionsCounted /\ Builds \cap Clients = {} /\ RequestInOrder(c)
  BY BuildAssumption DEF BuildOrder
<1>2. Numbers' \subseteq Numbers
  BY <1>1 DEF start_build_job, Request, jobrows, core, asks, Goto, ActiveStatuses,
      BuildTypes, Numbers, Existing, BuildInOrder, RequestInOrder, Publishing
<1>3. Computing' \subseteq Computing \cup {c} BY DEF OthersStay, Computing, Procs
<1>4. requests' = requests + 1 BY DEF start_build_job, Request
<1> QED BY <1>1, <1>2, <1>3, <1>4, OneMoreComputes

LEMMA build_Counts ==
    ASSUME BuildAssumption, BuildOrder, NEW c \in Clients, build(c), BuildTypes',
           OthersStay(c)
    PROVE  VersionsCounted'
<1>1. BuildTypes /\ VersionsCounted /\ Builds \cap Clients = {} /\ RequestInOrder(c)
  BY BuildAssumption DEF BuildOrder
<1>2. Numbers' \subseteq Numbers
  BY <1>1 DEF build, Request, jobrows, core, asks, Goto, BuildTypes, Numbers, Existing,
      BuildInOrder, RequestInOrder, Publishing
<1>3. Computing' \subseteq Computing \cup {c} BY DEF OthersStay, Computing, Procs
<1>4. requests' = requests + 1 BY DEF build, Request
<1> QED BY <1>1, <1>2, <1>3, <1>4, OneMoreComputes

LEMMA insert_job_Counts ==
    ASSUME BuildAssumption, BuildOrder, NEW c \in Clients, insert_job(c), BuildTypes',
           OthersStay(c)
    PROVE  VersionsCounted'
<1>1. BuildTypes /\ VersionsCounted /\ Builds \cap Clients = {} /\ RequestInOrder(c)
  BY BuildAssumption DEF BuildOrder
<1>2. Numbers' \subseteq Numbers
  BY <1>1 DEF insert_job, core, asks, bounds, BuildTypes, Numbers, Existing,
      BuildInOrder, RequestInOrder, Publishing
<1>3. Computing' \subseteq Computing
  <2>1. place'[c] \notin {"next_version", "sync_version"}
    BY <1>1 DEF insert_job, core, asks, bounds
  <2> QED BY <2>1 DEF OthersStay, Computing, Procs
<1>4. requests' >= requests BY <1>1 DEF insert_job, core, asks, bounds, BuildTypes
<1> QED BY <1>1, <1>2, <1>3, <1>4, FewerCompute DEF BuildTypes

LEMMA enqueue_Counts ==
    ASSUME BuildAssumption, BuildOrder, NEW c \in Clients, enqueue(c), BuildTypes',
           OthersStay(c)
    PROVE  VersionsCounted'
<1>1. BuildTypes /\ VersionsCounted /\ Builds \cap Clients = {} /\ RequestInOrder(c)
  BY BuildAssumption DEF BuildOrder
<1>2. Numbers' \subseteq Numbers
  BY <1>1 DEF enqueue, jobrows, asks, bounds, Goto, Queue!Submit, BuildTypes, Numbers,
      Existing, BuildInOrder, RequestInOrder, Publishing
<1>3. Computing' \subseteq Computing
  <2>1. place'[c] \notin {"next_version", "sync_version"}
    BY <1>1 DEF enqueue, jobrows, asks, bounds, Goto, Queue!Submit
  <2> QED BY <2>1 DEF OthersStay, Computing, Procs
<1>4. requests' >= requests
  BY <1>1 DEF enqueue, jobrows, asks, bounds, Goto, BuildTypes
<1> QED BY <1>1, <1>2, <1>3, <1>4, FewerCompute DEF BuildTypes

LEMMA link_Counts ==
    ASSUME BuildAssumption, BuildOrder, NEW c \in Clients, link(c), BuildTypes',
           OthersStay(c)
    PROVE  VersionsCounted'
<1>1. BuildTypes /\ VersionsCounted /\ Builds \cap Clients = {} /\ RequestInOrder(c)
  BY BuildAssumption DEF BuildOrder
<1>2. Numbers' \subseteq Numbers
  BY <1>1 DEF link, core, asks, bounds, Goto, BuildTypes, Numbers, Existing,
      BuildInOrder, RequestInOrder, Publishing
<1>3. Computing' \subseteq Computing
  <2>1. place'[c] \notin {"next_version", "sync_version"}
    BY <1>1 DEF link, core, asks, bounds, Goto
  <2> QED BY <2>1 DEF OthersStay, Computing, Procs
<1>4. requests' >= requests BY <1>1 DEF link, core, asks, bounds, Goto, BuildTypes
<1> QED BY <1>1, <1>2, <1>3, <1>4, FewerCompute DEF BuildTypes

LEMMA cancel_queued_Counts ==
    ASSUME BuildAssumption, BuildOrder, NEW c \in Clients, cancel_queued(c),
           BuildTypes', OthersStay(c)
    PROVE  VersionsCounted'
<1>1. BuildTypes /\ VersionsCounted /\ Builds \cap Clients = {} /\ RequestInOrder(c)
  BY BuildAssumption DEF BuildOrder
<1>2. Numbers' \subseteq Numbers
  BY <1>1 DEF cancel_queued, core, asks, bounds, Goto, BuildTypes, Numbers, Existing,
      BuildInOrder, RequestInOrder, Publishing
<1>3. Computing' \subseteq Computing
  <2>1. place'[c] \notin {"next_version", "sync_version"}
    BY <1>1 DEF cancel_queued, core, asks, bounds, Goto
  <2> QED BY <2>1 DEF OthersStay, Computing, Procs
<1>4. requests' >= requests
  BY <1>1 DEF cancel_queued, core, asks, bounds, BuildTypes
<1> QED BY <1>1, <1>2, <1>3, <1>4, FewerCompute DEF BuildTypes

LEMMA cancel_delete_Counts ==
    ASSUME BuildAssumption, BuildOrder, NEW c \in Clients, cancel_delete(c),
           BuildTypes', OthersStay(c)
    PROVE  VersionsCounted'
<1>1. BuildTypes /\ VersionsCounted /\ Builds \cap Clients = {} /\ RequestInOrder(c)
  BY BuildAssumption DEF BuildOrder
<1>2. Numbers' \subseteq Numbers
  BY <1>1 DEF cancel_delete, jobrows, core, asks, bounds, DeleteStaged, Goto,
      BuildTypes, Numbers, Existing, BuildInOrder, RequestInOrder, Publishing
<1>3. Computing' \subseteq Computing
  <2>1. place'[c] \notin {"next_version", "sync_version"}
    BY <1>1 DEF cancel_delete, jobrows, core, asks, bounds, DeleteStaged, Goto
  <2> QED BY <2>1 DEF OthersStay, Computing, Procs
<1>4. requests' >= requests
  BY <1>1 DEF cancel_delete, jobrows, core, asks, bounds, DeleteStaged, BuildTypes
<1> QED BY <1>1, <1>2, <1>3, <1>4, FewerCompute DEF BuildTypes

LEMMA cancelling_Counts ==
    ASSUME BuildAssumption, BuildOrder, NEW c \in Clients, cancelling(c), BuildTypes',
           OthersStay(c)
    PROVE  VersionsCounted'
<1>1. BuildTypes /\ VersionsCounted /\ Builds \cap Clients = {} /\ RequestInOrder(c)
  BY BuildAssumption DEF BuildOrder
<1>2. Numbers' \subseteq Numbers
  BY <1>1 DEF cancelling, core, asks, bounds, Goto, BuildTypes, Numbers, Existing,
      BuildInOrder, RequestInOrder, Publishing
<1>3. Computing' \subseteq Computing
  <2>1. place'[c] \notin {"next_version", "sync_version"}
    BY <1>1 DEF cancelling, core, asks, bounds, Goto
  <2> QED BY <2>1 DEF OthersStay, Computing, Procs
<1>4. requests' >= requests BY <1>1 DEF cancelling, core, asks, bounds, Goto, BuildTypes
<1> QED BY <1>1, <1>2, <1>3, <1>4, FewerCompute DEF BuildTypes

LEMMA core_cancel_Counts ==
    ASSUME BuildAssumption, BuildOrder, NEW c \in Clients, core_cancel(c), BuildTypes',
           OthersStay(c)
    PROVE  VersionsCounted'
<1>1. BuildTypes /\ VersionsCounted /\ Builds \cap Clients = {} /\ RequestInOrder(c)
  BY BuildAssumption DEF BuildOrder
<1>2. Numbers' \subseteq Numbers
  BY <1>1 DEF core_cancel, jobrows, bounds, CoreAfterCancel, Goto, BuildTypes, Numbers,
      Existing, BuildInOrder, RequestInOrder, Publishing
<1>3. Computing' \subseteq Computing
  <2>1. place'[c] \notin {"next_version", "sync_version"}
    BY <1>1 DEF core_cancel, jobrows, bounds, CoreAfterCancel, Goto
  <2> QED BY <2>1 DEF OthersStay, Computing, Procs
<1>4. requests' >= requests
  BY <1>1 DEF core_cancel, jobrows, bounds, CoreAfterCancel, BuildTypes
<1> QED BY <1>1, <1>2, <1>3, <1>4, FewerCompute DEF BuildTypes

LEMMA cancel_build_job_Counts ==
    ASSUME BuildAssumption, BuildOrder, NEW c \in Clients, NEW d \in Builds,
           cancel_build_job(c, d), BuildTypes', OthersStay(c)
    PROVE  VersionsCounted'
<1>1. BuildTypes /\ VersionsCounted /\ Builds \cap Clients = {} /\ RequestInOrder(c)
  BY BuildAssumption DEF BuildOrder
<1>2. Numbers' \subseteq Numbers
  BY <1>1 DEF cancel_build_job, Request, jobrows, core, ActiveStatuses, BuildTypes,
      Numbers, Existing, BuildInOrder, RequestInOrder, Publishing
<1>3. Computing' \subseteq Computing
  <2>1. place'[c] \notin {"next_version", "sync_version"}
    BY <1>1 DEF cancel_build_job, Request, jobrows, core, ActiveStatuses
  <2> QED BY <2>1 DEF OthersStay, Computing, Procs
<1>4. requests' >= requests
  BY <1>1 DEF cancel_build_job, Request, jobrows, core, BuildTypes
<1> QED BY <1>1, <1>2, <1>3, <1>4, FewerCompute DEF BuildTypes

LEMMA dispatch_Counts ==
    ASSUME BuildAssumption, BuildOrder, NEW b \in Builds, dispatch(b), BuildTypes',
           OthersStay(b)
    PROVE  VersionsCounted'
<1>1. BuildTypes /\ VersionsCounted /\ Builds \cap Clients = {} /\ BuildInOrder(b)
  BY BuildAssumption DEF BuildOrder
<1>2. Numbers' \subseteq Numbers
  BY <1>1 DEF dispatch, jobrows, asks, bounds, Goto, Working, Queue!Dispatch,
      BuildTypes, Numbers, Existing, BuildInOrder, RequestInOrder, Publishing
<1>3. Computing' = Computing BY <1>1 DEF OthersStay, Computing, Procs
<1>4. requests' = requests BY DEF dispatch, bounds
<1> QED BY <1>1, <1>2, <1>3, <1>4, FewerCompute DEF BuildTypes

LEMMA raises_Counts ==
    ASSUME BuildAssumption, BuildOrder, NEW b \in Builds, raises(b), BuildTypes',
           OthersStay(b)
    PROVE  VersionsCounted'
<1>1. BuildTypes /\ VersionsCounted /\ Builds \cap Clients = {} /\ BuildInOrder(b)
  BY BuildAssumption DEF BuildOrder
<1>2. Numbers' \subseteq Numbers
  BY <1>1 DEF raises, jobrows, core, asks, bounds, Goto, BuildTypes, Numbers, Existing,
      BuildInOrder, RequestInOrder, Publishing
<1>3. Computing' = Computing BY <1>1 DEF OthersStay, Computing, Procs
<1>4. requests' = requests BY DEF raises, bounds
<1> QED BY <1>1, <1>2, <1>3, <1>4, FewerCompute DEF BuildTypes

LEMMA set_running_Counts ==
    ASSUME BuildAssumption, BuildOrder, NEW b \in Builds, set_running(b), BuildTypes',
           OthersStay(b)
    PROVE  VersionsCounted'
<1>1. BuildTypes /\ VersionsCounted /\ Builds \cap Clients = {} /\ BuildInOrder(b)
  BY BuildAssumption DEF BuildOrder
<1>2. Numbers' \subseteq Numbers
  BY <1>1 DEF set_running, core, asks, bounds, DeleteStaged, BuildTypes, Numbers,
      Existing, BuildInOrder, RequestInOrder, Publishing
<1>3. Computing' = Computing BY <1>1 DEF OthersStay, Computing, Procs
<1>4. requests' = requests BY DEF set_running, bounds
<1> QED BY <1>1, <1>2, <1>3, <1>4, FewerCompute DEF BuildTypes

LEMMA should_cancel_Counts ==
    ASSUME BuildAssumption, BuildOrder, NEW b \in Builds, should_cancel(b),
           BuildTypes', OthersStay(b)
    PROVE  VersionsCounted'
<1>1. BuildTypes /\ VersionsCounted /\ Builds \cap Clients = {} /\ BuildInOrder(b)
  BY BuildAssumption DEF BuildOrder
<1>2. Numbers' \subseteq Numbers
  BY <1>1 DEF should_cancel, jobrows, core, asks, bounds, Goto, BuildTypes, Numbers,
      Existing, BuildInOrder, RequestInOrder, Publishing
<1>3. Computing' = Computing BY <1>1 DEF OthersStay, Computing, Procs
<1>4. requests' = requests BY DEF should_cancel, bounds
<1> QED BY <1>1, <1>2, <1>3, <1>4, FewerCompute DEF BuildTypes

LEMMA stage_item_Counts ==
    ASSUME BuildAssumption, BuildOrder, NEW b \in Builds, stage_item(b), BuildTypes',
           OthersStay(b)
    PROVE  VersionsCounted'
<1>1. BuildTypes /\ VersionsCounted /\ Builds \cap Clients = {} /\ BuildInOrder(b)
  BY BuildAssumption DEF BuildOrder
<1>2. Numbers' \subseteq Numbers
  BY <1>1 DEF stage_item, jobrows, core, asks, bounds, BuildTypes, Numbers, Existing,
      BuildInOrder, RequestInOrder, Publishing
<1>3. Computing' = Computing BY <1>1 DEF OthersStay, Computing, Procs
<1>4. requests' = requests BY DEF stage_item, bounds
<1> QED BY <1>1, <1>2, <1>3, <1>4, FewerCompute DEF BuildTypes

LEMMA finish_cancelled_Counts ==
    ASSUME BuildAssumption, BuildOrder, NEW b \in Builds, finish_cancelled(b),
           BuildTypes', OthersStay(b)
    PROVE  VersionsCounted'
<1>1. BuildTypes /\ VersionsCounted /\ Builds \cap Clients = {} /\ BuildInOrder(b)
  BY BuildAssumption DEF BuildOrder
<1>2. Numbers' \subseteq Numbers
  BY <1>1 DEF finish_cancelled, core, asks, bounds, DeleteStaged, Goto, BuildTypes,
      Numbers, Existing, BuildInOrder, RequestInOrder, Publishing
<1>3. Computing' = Computing BY <1>1 DEF OthersStay, Computing, Procs
<1>4. requests' = requests BY DEF finish_cancelled, bounds
<1> QED BY <1>1, <1>2, <1>3, <1>4, FewerCompute DEF BuildTypes

LEMMA finalize_Counts ==
    ASSUME BuildAssumption, BuildOrder, NEW b \in Builds, finalize(b), BuildTypes',
           OthersStay(b)
    PROVE  VersionsCounted'
<1>1. BuildTypes /\ VersionsCounted /\ Builds \cap Clients = {} /\ BuildInOrder(b)
  BY BuildAssumption DEF BuildOrder
<1>2. Numbers' \subseteq Numbers
  BY <1>1 DEF finalize, jobrows, core, asks, bounds, StagedItems, BuildTypes, Numbers,
      Existing, BuildInOrder, RequestInOrder, Publishing
<1>3. Computing' = Computing BY <1>1 DEF OthersStay, Computing, Procs
<1>4. requests' = requests BY DEF finalize, bounds
<1> QED BY <1>1, <1>2, <1>3, <1>4, FewerCompute DEF BuildTypes

LEMMA complete_Counts ==
    ASSUME BuildAssumption, BuildOrder, NEW b \in Builds, complete(b), BuildTypes',
           OthersStay(b)
    PROVE  VersionsCounted'
<1>1. BuildTypes /\ VersionsCounted /\ Builds \cap Clients = {} /\ BuildInOrder(b)
  BY BuildAssumption DEF BuildOrder
<1>2. Numbers' \subseteq Numbers
  BY <1>1 DEF complete, core, asks, bounds, DeleteStaged, Goto, BuildTypes, Numbers,
      Existing, BuildInOrder, RequestInOrder, Publishing
<1>3. Computing' = Computing BY <1>1 DEF OthersStay, Computing, Procs
<1>4. requests' = requests BY DEF complete, bounds
<1> QED BY <1>1, <1>2, <1>3, <1>4, FewerCompute DEF BuildTypes

LEMMA fail_Counts ==
    ASSUME BuildAssumption, BuildOrder, NEW b \in Builds, fail(b), BuildTypes',
           OthersStay(b)
    PROVE  VersionsCounted'
<1>1. BuildTypes /\ VersionsCounted /\ Builds \cap Clients = {} /\ BuildInOrder(b)
  BY BuildAssumption DEF BuildOrder
<1>2. Numbers' \subseteq Numbers
  BY <1>1 DEF fail, core, asks, bounds, FailedStatus, Goto, BuildTypes, Numbers,
      Existing, BuildInOrder, RequestInOrder, Publishing
<1>3. Computing' = Computing BY <1>1 DEF OthersStay, Computing, Procs
<1>4. requests' = requests BY DEF fail, bounds
<1> QED BY <1>1, <1>2, <1>3, <1>4, FewerCompute DEF BuildTypes

LEMMA insert_version_Counts ==
    ASSUME BuildAssumption, BuildOrder, NEW p \in Procs, insert_version(p),
           BuildTypes', OthersStay(p)
    PROVE  VersionsCounted'
<1>1. /\ BuildTypes /\ VersionsCounted /\ Builds \cap Clients = {}
      /\ p \in Clients => RequestInOrder(p)
      /\ p \in Builds => BuildInOrder(p)
  BY BuildAssumption DEF BuildOrder
<1>2. Numbers' \subseteq Numbers
  BY <1>1 DEF insert_version, jobrows, core, asks, bounds, Publishes, MayInsert, Goto,
      BuildTypes, Numbers, Existing, BuildInOrder, RequestInOrder, Publishing, Procs
<1>3. Computing' \subseteq Computing
  <2>1. p \in Clients => place'[p] \notin {"next_version", "sync_version"}
    BY <1>1 DEF insert_version, jobrows, core, asks, bounds, Publishes, MayInsert, Goto
  <2> QED BY <2>1 DEF OthersStay, Computing, Procs
<1>4. requests' >= requests
  BY <1>1
    DEF insert_version, jobrows, core, asks, bounds, Publishes, MayInsert, BuildTypes
<1> QED BY <1>1, <1>2, <1>3, <1>4, FewerCompute DEF BuildTypes

LEMMA version_taken_Counts ==
    ASSUME BuildAssumption, BuildOrder, NEW p \in Procs, version_taken(p), BuildTypes',
           OthersStay(p)
    PROVE  VersionsCounted'
<1>1. /\ BuildTypes /\ VersionsCounted /\ Builds \cap Clients = {}
      /\ p \in Clients => RequestInOrder(p)
      /\ p \in Builds => BuildInOrder(p)
  BY BuildAssumption DEF BuildOrder
<1>2. Numbers' \subseteq Numbers
  BY <1>1 DEF version_taken, jobrows, core, asks, bounds, Publishes, MayInsert, Goto,
      OnError, BuildTypes, Numbers, Existing, BuildInOrder, RequestInOrder, Publishing
<1>3. Computing' \subseteq Computing
  <2>1. p \in Clients => place'[p] \notin {"next_version", "sync_version"}
    BY <1>1 DEF version_taken, jobrows, core, asks, bounds, Publishes, MayInsert, Goto,
        OnError
  <2> QED BY <2>1 DEF OthersStay, Computing, Procs
<1>4. requests' >= requests
  BY <1>1 DEF version_taken, jobrows, core, asks, bounds, Publishes, MayInsert, Goto,
      BuildTypes
<1> QED BY <1>1, <1>2, <1>3, <1>4, FewerCompute DEF BuildTypes

LEMMA insert_items_Counts ==
    ASSUME BuildAssumption, BuildOrder, NEW p \in Procs, insert_items(p), BuildTypes',
           OthersStay(p)
    PROVE  VersionsCounted'
<1>1. /\ BuildTypes /\ VersionsCounted /\ Builds \cap Clients = {}
      /\ p \in Clients => RequestInOrder(p)
      /\ p \in Builds => BuildInOrder(p)
  BY BuildAssumption DEF BuildOrder
<1>2. Numbers' \subseteq Numbers
  BY <1>1 DEF insert_items, jobrows, core, asks, bounds, Publishes, Goto,
      AfterPublishing, BuildTypes, Numbers, Existing, BuildInOrder, RequestInOrder,
      Publishing
<1>3. Computing' \subseteq Computing
  <2>1. p \in Clients => place'[p] \notin {"next_version", "sync_version"}
    BY <1>1
      DEF insert_items, jobrows, core, asks, bounds, Publishes, Goto, AfterPublishing
  <2> QED BY <2>1 DEF OthersStay, Computing, Procs
<1>4. requests' >= requests
  BY <1>1 DEF insert_items, jobrows, core, asks, bounds, Publishes, Goto, BuildTypes
<1> QED BY <1>1, <1>2, <1>3, <1>4, FewerCompute DEF BuildTypes

LEMMA insert_raises_Counts ==
    ASSUME BuildAssumption, BuildOrder, NEW p \in Procs, insert_raises(p), BuildTypes',
           OthersStay(p)
    PROVE  VersionsCounted'
<1>1. /\ BuildTypes /\ VersionsCounted /\ Builds \cap Clients = {}
      /\ p \in Clients => RequestInOrder(p)
      /\ p \in Builds => BuildInOrder(p)
  BY BuildAssumption DEF BuildOrder
<1>2. Numbers' \subseteq Numbers
  BY <1>1 DEF insert_raises, jobrows, core, asks, bounds, Publishes, Goto, OnError,
      BuildTypes, Numbers, Existing, BuildInOrder, RequestInOrder, Publishing
<1>3. Computing' \subseteq Computing
  <2>1. p \in Clients => place'[p] \notin {"next_version", "sync_version"}
    BY <1>1 DEF insert_raises, jobrows, core, asks, bounds, Publishes, Goto, OnError
  <2> QED BY <2>1 DEF OthersStay, Computing, Procs
<1>4. requests' >= requests
  BY <1>1 DEF insert_raises, jobrows, core, asks, bounds, Publishes, Goto, BuildTypes
<1> QED BY <1>1, <1>2, <1>3, <1>4, FewerCompute DEF BuildTypes

LEMMA crash_Counts ==
    ASSUME BuildAssumption, BuildOrder, NEW p \in Procs, crash(p), BuildTypes',
           OthersStay(p)
    PROVE  VersionsCounted'
<1>1. /\ BuildTypes /\ VersionsCounted /\ Builds \cap Clients = {}
      /\ p \in Clients => RequestInOrder(p)
      /\ p \in Builds => BuildInOrder(p)
  BY BuildAssumption DEF BuildOrder
<1>2. Numbers' \subseteq Numbers
  BY <1>1 DEF crash, jobrows, core, asks, Goto, Working, BuildTypes, Numbers, Existing,
      BuildInOrder, RequestInOrder, Publishing
<1>3. Computing' \subseteq Computing
  <2>1. p \in Clients => place'[p] \notin {"next_version", "sync_version"}
    BY <1>1 DEF crash, jobrows, core, asks, Goto, Working, BuildTypes
  <2> QED BY <2>1 DEF OthersStay, Computing, Procs
<1>4. requests' >= requests
  BY <1>1 DEF crash, jobrows, core, asks, Goto, BuildTypes
<1> QED BY <1>1, <1>2, <1>3, <1>4, FewerCompute DEF BuildTypes
LEMMA next_version_Counts ==
    ASSUME BuildAssumption, BuildOrder, NEW c \in Clients, next_version(c),
           BuildTypes', OthersStay(c)
    PROVE  VersionsCounted'
<1>1. BuildTypes /\ VersionsCounted /\ Builds \cap Clients = {}
  BY BuildAssumption DEF BuildOrder
<1>2. c \in Computing BY DEF next_version, Computing
<1>3. NextVersion \in 1 .. MaxVersion /\ NextVersion + Cardinality(Computing) - 1 <= requests
  BY <1>1, <1>2, NumbersBounded
<1>4. place'[c] \in {"insert", "insert_version"}
  BY <1>1 DEF next_version, BuildTypes
<1>5. Computing' = Computing \ {c}
  BY <1>4 DEF OthersStay, Computing, Procs
<1>6. /\ IsFiniteSet(Computing') /\ Cardinality(Computing) \in Nat
      /\ Cardinality(Computing') = Cardinality(Computing) - 1
  BY <1>1, <1>2, <1>5, FS_RemoveElement, FS_CardinalityType DEF VersionsCounted
<1>7. Numbers' \subseteq Numbers \cup {NextVersion}
  BY <1>1 DEF next_version, jobrows, BuildTypes, Numbers, Existing
<1>8. requests' = requests /\ requests \in Nat
  BY <1>1 DEF next_version, bounds, BuildTypes
<1>9. ASSUME NEW v \in Numbers' PROVE v + Cardinality(Computing') <= requests'
  <2>1. CASE v = NextVersion BY <1>3, <1>6, <1>8, <2>1, BuildAssumption DEF MaxVersion
  <2>2. CASE v \in Numbers
    <3>1. v + Cardinality(Computing) <= requests BY <1>1, <2>2 DEF VersionsCounted
    <3>2. v \in Nat
      BY <1>1, <2>2, BuildAssumption DEF Numbers, Existing, BuildTypes
    <3> QED BY <1>6, <1>8, <3>1, <3>2
  <2> QED BY <1>7, <1>9, <2>1, <2>2
<1> QED BY <1>6, <1>9 DEF VersionsCounted

(* At the start, and when nothing happens.                                    *)
LEMMA InitInOrder == BuildAssumption /\ BuildInit => BuildOrder
<1> SUFFICES ASSUME BuildAssumption, BuildInit PROVE BuildOrder OBVIOUS
<1>1. BuildTypes
  <2>1. RowTypes
    <3>1. Unpublished \in [by : Procs \cup {NoOne}, count : 0 .. N, items : SUBSET Items]
      BY BuildAssumption DEF Unpublished
    <3>2. 0 \in 0 .. MaxVersion BY BuildAssumption DEF MaxVersion
    <3> HIDE DEF Unpublished
    <3> QED BY <3>1, <3>2, BuildAssumption DEF BuildInit, RowTypes, Queue!Init
  <2>2. ProcTypes
    <3>1. NotSeen \in [status : {"absent"} \cup ActiveStatuses, linked : BOOLEAN]
      BY DEF NotSeen
    <3>2. 0 \in 0 .. MaxVersion BY BuildAssumption DEF MaxVersion
    <3> HIDE DEF NotSeen
    <3> QED BY <3>1, <3>2 DEF BuildInit, ProcTypes, WorkerPCs, ClientPCs
  <2> QED BY <2>1, <2>2, TypesSplit
<1>2. \A c \in Clients : place[c] = "idle"
  BY BuildAssumption DEF BuildInit, Procs
<1>3. \A c \in Clients : RequestInOrder(c)
  BY <1>2 DEF RequestInOrder, ClientPCs, Publishing, Cancelling
<1>4. \A b \in Builds : WorkInOrder(b) /\ BuildInOrder(b) /\ LeftStaged(b)
  BY  DEF BuildInit, Queue!Init, WorkInOrder, BuildInOrder, LeftStaged, WorkerPCs,
      Publishing, Procs
<1>5. VersionsCounted
  <2>1. Computing = {} BY <1>2 DEF Computing
  <2>2. Existing = {} BY DEF BuildInit, Existing, Unpublished
  <2>3. Numbers \subseteq {0} BY <2>2 DEF BuildInit, Numbers
  <2>4. IsFiniteSet(Computing) /\ Cardinality(Computing) = 0 BY <2>1, FS_EmptySet
  <2>5. requests = 0 BY DEF BuildInit
  <2> QED BY <2>3, <2>4, <2>5 DEF VersionsCounted
<1>6. StoppedNeverRuns BY DEF BuildInit, StoppedNeverRuns
<1> QED BY <1>1, <1>3, <1>4, <1>5, <1>6 DEF BuildOrder

LEMMA Unchanged == ASSUME BuildOrder, UNCHANGED build_vars PROVE BuildOrder'
<1>1. /\ UNCHANGED <<status, target, result, linked, staged, published, life, dispatched>>
      /\ UNCHANGED <<place, todo, version, about, seen, cancels, stopped, requests, crashes>>
  BY DEF build_vars, jobrows, core, procs, asks, bounds
<1>2. BuildTypes' BY <1>1, Zenon DEF BuildOrder, BuildTypes
<1>3. StoppedNeverRuns' BY <1>1 DEF BuildOrder, StoppedNeverRuns
<1>4. ASSUME NEW c \in Clients PROVE RequestInOrder(c)'
  BY <1>1 DEF BuildOrder, RequestInOrder, Writes
<1>5. ASSUME NEW b \in Builds PROVE WorkInOrder(b)' /\ BuildInOrder(b)' /\ LeftStaged(b)'
  <2>1. WorkInOrder(b) /\ BuildInOrder(b) /\ LeftStaged(b) BY DEF BuildOrder
  <2>2. WorkInOrder(b)' BY <1>1, <2>1 DEF WorkInOrder, Unstaged, Writes, Wrote
  <2>3. BuildInOrder(b)' BY <1>1, <2>1 DEF BuildInOrder
  <2>4. LeftStaged(b)' BY <1>1, <2>1 DEF LeftStaged
  <2> QED BY <2>2, <2>3, <2>4
<1>6. VersionsCounted'
  <2>1. Computing' = Computing /\ Numbers' = Numbers
    BY <1>1 DEF Computing, Numbers, Existing
  <2> QED BY <1>1, <2>1 DEF BuildOrder, VersionsCounted
<1> QED BY <1>2, <1>3, <1>4, <1>5, <1>6 DEF BuildOrder

LEMMA StepsInOrder == BuildAssumption /\ BuildOrder /\ [BuildNext]_build_vars => BuildOrder'
<1> SUFFICES ASSUME BuildAssumption, BuildOrder, [BuildNext]_build_vars PROVE BuildOrder'
  OBVIOUS
<1>types. Builds \cap Clients = {} /\ Procs = Builds \cup Clients
  BY BuildAssumption DEF Procs
<1>1. ASSUME NEW c \in Clients, start_build_job(c) PROVE StepKeeps(c)
  BY <1>types, <1>1, start_build_job_Moves, start_build_job_Order,
     start_build_job_Counts
  DEF StepKeeps
<1>2. ASSUME NEW c \in Clients, build(c) PROVE StepKeeps(c)
  BY <1>types, <1>2, build_Moves, build_Order, build_Counts DEF StepKeeps
<1>3. ASSUME NEW c \in Clients, next_version(c) PROVE StepKeeps(c)
  BY <1>types, <1>3, next_version_Moves, next_version_Order, next_version_Counts
  DEF StepKeeps
<1>4. ASSUME NEW c \in Clients, insert_job(c) PROVE StepKeeps(c)
  BY <1>types, <1>4, insert_job_Moves, insert_job_Order, insert_job_Counts DEF StepKeeps
<1>5. ASSUME NEW c \in Clients, enqueue(c) PROVE StepKeeps(c)
  BY <1>types, <1>5, enqueue_Moves, enqueue_Order, enqueue_Counts DEF StepKeeps
<1>6. ASSUME NEW c \in Clients, link(c) PROVE StepKeeps(c)
  BY <1>types, <1>6, link_Moves, link_Order, link_Counts DEF StepKeeps
<1>7. ASSUME NEW c \in Clients, cancel_queued(c) PROVE StepKeeps(c)
  BY <1>types, <1>7, cancel_queued_Moves, cancel_queued_Order, cancel_queued_Counts
  DEF StepKeeps
<1>8. ASSUME NEW c \in Clients, cancel_delete(c) PROVE StepKeeps(c)
  BY <1>types, <1>8, cancel_delete_Moves, cancel_delete_Order, cancel_delete_Counts
  DEF StepKeeps
<1>9. ASSUME NEW c \in Clients, cancelling(c) PROVE StepKeeps(c)
  BY <1>types, <1>9, cancelling_Moves, cancelling_Order, cancelling_Counts DEF StepKeeps
<1>10. ASSUME NEW c \in Clients, core_cancel(c) PROVE StepKeeps(c)
  BY <1>types, <1>10, core_cancel_Moves, core_cancel_Order, core_cancel_Counts
  DEF StepKeeps
<1>11. ASSUME NEW c \in Clients, NEW d \in Builds, cancel_build_job(c, d) PROVE StepKeeps(c)
  BY <1>types, <1>11, cancel_build_job_Moves, cancel_build_job_Order,
     cancel_build_job_Counts
  DEF StepKeeps
<1>12. ASSUME NEW b \in Builds, dispatch(b) PROVE StepKeeps(b)
  BY <1>types, <1>12, dispatch_Moves, dispatch_Order, dispatch_Counts DEF StepKeeps
<1>13. ASSUME NEW b \in Builds, raises(b) PROVE StepKeeps(b)
  BY <1>types, <1>13, raises_Moves, raises_Order, raises_Counts DEF StepKeeps
<1>14. ASSUME NEW b \in Builds, set_running(b) PROVE StepKeeps(b)
  BY <1>types, <1>14, set_running_Moves, set_running_Order, set_running_Counts
  DEF StepKeeps
<1>15. ASSUME NEW b \in Builds, should_cancel(b) PROVE StepKeeps(b)
  BY <1>types, <1>15, should_cancel_Moves, should_cancel_Order, should_cancel_Counts
  DEF StepKeeps
<1>16. ASSUME NEW b \in Builds, stage_item(b) PROVE StepKeeps(b)
  BY <1>types, <1>16, stage_item_Moves, stage_item_Order, stage_item_Counts
    DEF StepKeeps
<1>17. ASSUME NEW b \in Builds, finish_cancelled(b) PROVE StepKeeps(b)
  BY <1>types, <1>17, finish_cancelled_Moves, finish_cancelled_Order,
     finish_cancelled_Counts
  DEF StepKeeps
<1>18. ASSUME NEW b \in Builds, finalize(b) PROVE StepKeeps(b)
  BY <1>types, <1>18, finalize_Moves, finalize_Order, finalize_Counts DEF StepKeeps
<1>19. ASSUME NEW b \in Builds, complete(b) PROVE StepKeeps(b)
  BY <1>types, <1>19, complete_Moves, complete_Order, complete_Counts DEF StepKeeps
<1>20. ASSUME NEW b \in Builds, fail(b) PROVE StepKeeps(b)
  BY <1>types, <1>20, fail_Moves, fail_Order, fail_Counts DEF StepKeeps
<1>21. ASSUME NEW p \in Procs, insert_version(p) PROVE StepKeeps(p)
  BY <1>types, <1>21, insert_version_Moves, insert_version_Order, insert_version_Counts
  DEF StepKeeps
<1>22. ASSUME NEW p \in Procs, version_taken(p) PROVE StepKeeps(p)
  BY <1>types, <1>22, version_taken_Moves, version_taken_Order, version_taken_Counts
  DEF StepKeeps
<1>23. ASSUME NEW p \in Procs, insert_items(p) PROVE StepKeeps(p)
  BY <1>types, <1>23, insert_items_Moves, insert_items_Order, insert_items_Counts
  DEF StepKeeps
<1>24. ASSUME NEW p \in Procs, insert_raises(p) PROVE StepKeeps(p)
  BY <1>types, <1>24, insert_items_Moves, insert_raises_Order, insert_raises_Counts
  DEF StepKeeps
<1>25. ASSUME NEW p \in Procs, crash(p) PROVE StepKeeps(p)
  BY <1>types, <1>25, crash_Moves, crash_Order, crash_Counts DEF StepKeeps
<1>26. CASE BuildNext
  <2>1. \E p \in Procs : StepKeeps(p)
    <3>1. ASSUME NEW p \in Procs, Publish(p) PROVE StepKeeps(p)
      BY <3>1, <1>21, <1>22, <1>23, <1>24 DEF Publish
    <3>2. ASSUME NEW c \in Clients, ClientStep(c) PROVE StepKeeps(c)
      BY <1>types, <3>1, <3>2, <1>1, <1>2, <1>3, <1>4, <1>5, <1>6, <1>7, <1>8, <1>9,
         <1>10, <1>11
      DEF ClientStep
    <3>3. ASSUME NEW b \in Builds, WorkerStep(b) PROVE StepKeeps(b)
      BY <1>types, <3>1, <3>3, <1>12, <1>13, <1>14, <1>15, <1>16, <1>17, <1>18, <1>19,
         <1>20
      DEF WorkerStep
    <3> QED
      BY <1>types, <1>26, <3>2, <3>3, <1>1, <1>2, <1>3, <1>4, <1>5, <1>6, <1>7, <1>8,
         <1>9, <1>10, <1>11, <1>25
      DEF BuildNext
  <2> QED BY <2>1, StepSuffices
<1>27. CASE UNCHANGED build_vars
  BY <1>27, Unchanged
<1> QED BY <1>26, <1>27

(* Builds, whatever their number and however requests, workers and crashes    *)
(* overlap, leave behind what BuildInv says.                                  *)
THEOREM BuildsCorrect == BuildSpec => []BuildInv
<1>1. BuildSpec => []BuildOrder
  BY BuildAssumption, InitInOrder, StepsInOrder, PTL DEF BuildSpec
<1>2. BuildOrder => BuildInv BY BuildAssumption, OrderSuffices DEF BuildInv, BuildOrder
<1> QED BY <1>1, <1>2, PTL

(* A build that says it is completed has published: its version exists, is its *)
(* own, and has as many items as it says.                                      *)
THEOREM CompletedArePublished == BuildSpec => []CompletedIsPublished
<1>1. BuildSpec => []BuildOrder
  BY BuildAssumption, InitInOrder, StepsInOrder, PTL DEF BuildSpec
<1>2. BuildOrder => CompletedIsPublished
  BY BuildAssumption, OrderSuffices DEF BuildOrder
<1> QED BY <1>1, <1>2, PTL
=============================================================================
