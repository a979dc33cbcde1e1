---------------------------- MODULE ReviewProofs ----------------------------
(* What holds of every reachable state of Review, for any number of fields,   *)
(* review jobs, overlapping requests and crashes.                             *)
(*                                                                            *)
(* ReviewInv is inductive.  Keeps(c) is what a step of request c owes to the  *)
(* others: no row, event or suggestion is taken away (Frame), so that nobody  *)
(* else has to look again (OthersStay); Works says the same of workers.  Each *)
(* action has a lemma that it keeps that, and what it writes; StepKeeps puts  *)
(* them together, and the other parts of the invariants follow part by part:  *)
(* ExplainedKept, ResolvedKept, ReviewStaysKept, ScansKept, CountsKept and    *)
(* WarnsKept.                                                                 *)
EXTENDS Review, FiniteSetTheorems, TLAPS

-----------------------------------------------------------------------------
(* Types.                                                                     *)

(* Fields are positive numbers, and there is a first one.                     *)
LEMMA FieldsAre == Fields \subseteq Nat \ {0} /\ 1 \in Fields /\ NFields \in Nat
BY ConstantsAssumption DEF Fields

(* A fresh row is a row, and a row that is not there is none.                 *)
LEMMA RowTypes ==
  /\ \A f \in Fields : Unreviewed(f) \in FieldRows
  /\ Absent \notin FieldRows /\ Absent.last = NoEvent
  /\ \A s \in FieldRows : Show(s) \in Shown
  /\ \A r \in Shown, n \in Nat :
       LET s == [value |-> r.value, status |-> r.status, locked |-> r.locked, last |-> n]
       IN  s \in FieldRows /\ Show(s) = r /\ s.last = n
<1>1. \A f \in Fields : Unreviewed(f) \in FieldRows
  BY DEF Unreviewed, FieldRows, base_value, Values, FieldStatuses, NoEvent, NoValue
<1>2. Absent \notin FieldRows /\ Absent.last = NoEvent
  BY DEF Absent, FieldRows, FieldStatuses
<1>3. \A s \in FieldRows : Show(s) \in Shown
  BY DEF Show, Shown, FieldRows
<1>4. ASSUME NEW r \in Shown, NEW n \in Nat
      PROVE  LET s == [value |-> r.value, status |-> r.status, locked |-> r.locked, last |-> n]
             IN  s \in FieldRows /\ Show(s) = r /\ s.last = n
  BY <1>4 DEF Show, Shown, FieldRows
<1> QED BY <1>1, <1>2, <1>3, <1>4

(* What an action makes of a row can be shown.                                *)
LEMMA AppliedTypes ==
  ASSUME NEW op \in FieldActions, NEW f \in Fields, NEW s \in FieldRows, NEW lock \in BOOLEAN
  PROVE  Applied(op, f, s, lock) \in Shown
<1>1. s.value \in Values /\ s.status \in FieldStatuses /\ s.locked \in BOOLEAN
  BY DEF FieldRows
<1>2. base_value(f) \in Values /\ NoValue \in Values /\ "edited" \in Values
  BY DEF base_value, Values, NoValue
<1>3. op \in {"accept_field", "edit_field", "reject_field", "lock_field", "unlock_field", "mark_rerun_required"}
  BY DEF FieldActions
<1>4. op \in {"accept_field", "edit_field", "reject_field"} => Applied(op, f, s, lock) \in Shown
  BY <1>1, <1>2 DEF Applied, Shown, FieldStatuses
<1>5. op \in {"lock_field", "unlock_field", "mark_rerun_required"} => Applied(op, f, s, lock) \in Shown
  BY <1>1, <1>2 DEF Applied, Shown, FieldStatuses
<1> QED BY <1>3, <1>4, <1>5

(* What a suggestion makes of a row can be shown.                             *)
LEMMA SuggestedTypes ==
  ASSUME NEW s \in FieldRows, NEW v \in Values
  PROVE  Suggested(s, v) \in Shown
BY DEF Suggested, Shown, FieldRows, FieldStatuses

(* Somebody at rest, and a worker that is not at work.                        *)
LEMMA RestTypes ==
  /\ Idle \in Mems /\ Idle.pc = "idle" /\ Idle.op = "none" /\ Idle.job = "none" /\ Idle.todo = <<>>
  /\ Idle.seen = [f \in Fields |-> Absent]
  /\ NotScanning \in Scans /\ [NotScanning EXCEPT !.pc = "done"] \in Scans
  /\ [NotScanning EXCEPT !.pc = "done"].pc = "done"
<1>1. /\ Idle \in Mems /\ Idle.pc = "idle" /\ Idle.op = "none" /\ Idle.job = "none" /\ Idle.todo = <<>>
      /\ Idle.seen = [f \in Fields |-> Absent]
  BY DEF Idle, Mems, PCs, Ops, NoEvent
<1>2. /\ NotScanning \in Scans /\ [NotScanning EXCEPT !.pc = "done"] \in Scans
      /\ [NotScanning EXCEPT !.pc = "done"].pc = "done"
  BY FieldsAre DEF NotScanning, Scans, Values, NoValue
<1> QED BY <1>1, <1>2

(* What a request is at is kept by its own steps only.                        *)
MemIs(c, m) == m \in Mems /\ mem' = [mem EXCEPT ![c] = m]

(* Nobody else is moved by what a request is at.                              *)
LEMMA MemChanges ==
  ASSUME TypeOK, NEW c \in Clients, NEW m, MemIs(c, m)
  PROVE  mem' \in [Clients -> Mems] /\ mem'[c] = m /\ \A d \in Clients \ {c} : mem'[d] = mem[d]
BY DEF TypeOK, MemIs

(* A request that goes somewhere, and one that is over.                       *)
LEMMA GotoIs ==
  ASSUME TypeOK, NEW c \in Clients, NEW pc \in PCs, Goto(c, pc)
  PROVE  MemIs(c, IF pc = "idle" THEN Idle ELSE [mem[c] EXCEPT !.pc = pc])
<1>1. CASE pc = "idle"
  BY <1>1, RestTypes DEF Goto, MemIs
<1>2. CASE pc # "idle"
  <2>1. mem[c] \in Mems /\ mem \in [Clients -> Mems]
    BY DEF TypeOK
  <2>2. mem' = [mem EXCEPT ![c].pc = pc]
    BY <1>2 DEF Goto
  <2>3. mem' = [mem EXCEPT ![c] = [mem[c] EXCEPT !.pc = pc]]
    BY <2>1, <2>2
  <2>4. [mem[c] EXCEPT !.pc = pc] \in Mems
    BY <2>1 DEF Mems
  <2> QED BY <1>2, <2>3, <2>4 DEF MemIs
<1> QED BY <1>1, <1>2

-----------------------------------------------------------------------------
(* What no step takes away from those who are not at it.                      *)

Frame ==
  /\ \A f \in Fields : state[f] # Absent => state'[f] # Absent
  /\ Len(log) <= Len(log') /\ \A e \in 1 .. Len(log) : log'[e] = log[e]
  /\ \A j \in Jobs, f \in Fields : suggestion[j][f].status # "absent" =>
       suggestion'[j][f].status # "absent" /\ suggestion'[j][f].value = suggestion[j][f].value

OwnOK(c) == RowsAreRead(c) /\ Asks(c) /\ Course(c) /\ EventIsWritten(c)

(* The log is a sequence.                                                     *)
LEMMA LogLen == TypeOK => Len(log) \in Nat
BY DEF TypeOK

(* What a request is about to write does not change under it.                 *)
LEMMA NextStays ==
  ASSUME TypeOK, TypeOK', Frame, NEW d \in Clients, Asks(d), mem'[d].op = mem[d].op, mem'[d].todo = mem[d].todo,
         mem'[d].target = mem[d].target, mem'[d].job = mem[d].job, Seen(d)' = Seen(d),
         mem[d].op \in FieldOps
  PROVE  NextShown(d)' = NextShown(d)
<1>0. Field(d)' = Field(d) /\ Field(d) \in Fields
  <2>1. mem[d].todo \in Seq(Fields) /\ mem[d].todo # <<>>
    BY DEF TypeOK, Mems, Asks
  <2> QED BY <2>1 DEF Field
<1>1. CASE mem[d].op = "accept_suggestion"
  <2>1. mem[d].job \in Jobs /\ suggestion[mem[d].job][Field(d)].status # "absent"
    BY <1>1 DEF Asks
  <2>2. suggestion'[mem[d].job][Field(d)].value = suggestion[mem[d].job][Field(d)].value
    BY <1>0, <2>1 DEF Frame
  <2> QED BY <1>0, <1>1, <2>2 DEF NextShown
<1>2. CASE mem[d].op = "revert_event"
  <2>1. mem[d].target \in 1 .. Len(log)
    BY <1>2 DEF Asks
  <2>2. log'[mem[d].target] = log[mem[d].target]
    BY <2>1 DEF Frame
  <2> QED BY <1>2, <2>2 DEF NextShown
<1>3. CASE mem[d].op \in FieldActions
  <2>1. mem[d].op # "accept_suggestion" /\ mem[d].op # "revert_event"
    BY <1>3 DEF FieldActions
  <2> QED BY <1>0, <2>1 DEF NextShown
<1> QED BY <1>1, <1>2, <1>3 DEF FieldOps

(* Who does not move may go on relying on what it relied on.                  *)
LEMMA OthersStay ==
  ASSUME TypeOK, TypeOK', Frame, NEW d \in Clients, OwnOK(d), mem'[d] = mem[d]
  PROVE  OwnOK(d)'
<1> DEFINE m == mem[d]
<1>1. m \in Mems /\ Len(log) \in Nat /\ Len(log') \in Nat
  BY DEF TypeOK
<1>2. Seen(d)' = Seen(d) /\ Field(d)' = Field(d)
  BY DEF Seen, Field
<1>3. RowsAreRead(d)'
  BY <1>2 DEF OwnOK, RowsAreRead, AllThere, Frame
<1>4. Asks(d)'
  <2>1. m.op \in {"accept_suggestion", "reject_suggestion"} =>
          m.job \in Jobs /\ suggestion'[m.job][Field(d)].status # "absent"
    <3> HAVE m.op \in {"accept_suggestion", "reject_suggestion"}
    <3>1. m.job \in Jobs /\ suggestion[m.job][Field(d)].status # "absent" /\ m.todo # <<>>
      BY DEF OwnOK, Asks, FieldOps
    <3>2. Field(d) \in Fields
      BY <1>1, <3>1 DEF Mems, Field
    <3> QED BY <3>1, <3>2 DEF Frame
  <2>2. m.op = "revert_event" => m.target \in 1 .. Len(log') /\ Revertible(m.target)'
    BY <1>1 DEF OwnOK, Asks, Frame, Revertible
  <2> QED BY <1>2, <2>1, <2>2 DEF OwnOK, Asks, Revertible
<1>5. Course(d)'
  BY DEF OwnOK, Course
<1>6. EventIsWritten(d)'
  <2>1. ASSUME m.pc \in {"put_state", "revert_link"}
        PROVE  /\ m.event \in 1 .. Len(log')
               /\ log'[m.event].field = Field(d) /\ log'[m.event].new = NextShown(d)'
               /\ log'[m.event].type = EventType(m.op) /\ log'[m.event].job = m.job
    <3>1. m.op \in FieldOps
      BY <2>1 DEF OwnOK, Course, OnField
    <3>2. NextShown(d)' = NextShown(d)
      BY <1>2, <3>1, NextStays DEF OwnOK
    <3>3. /\ m.event \in 1 .. Len(log)
          /\ log[m.event].field = Field(d) /\ log[m.event].new = NextShown(d)
          /\ log[m.event].type = EventType(m.op) /\ log[m.event].job = m.job
      BY <2>1 DEF OwnOK, EventIsWritten
    <3>4. log'[m.event] = log[m.event]
      BY <3>3 DEF Frame
    <3> QED BY <1>1, <3>2, <3>3, <3>4 DEF Frame
  <2>2. ASSUME m.pc = "mark" PROVE IsLogged(Field(d), m.job, Resolution(m.op))'
    <3>1. IsLogged(Field(d), m.job, Resolution(m.op))
      BY <2>2 DEF OwnOK, EventIsWritten
    <3> QED BY <1>1, <1>2, <3>1 DEF IsLogged, Frame, Resolution
  <2> QED BY <1>2, <2>1, <2>2 DEF EventIsWritten
<1> QED BY <1>3, <1>4, <1>5, <1>6 DEF OwnOK

(* What a request is about to write can be shown.                             *)
LEMMA NextTypes ==
  ASSUME TypeOK, EventsOfRows, NEW c \in Clients, OwnOK(c), mem[c].pc \in OnField \ {"read_state"}
  PROVE  /\ Seen(c) \in FieldRows /\ Field(c) \in Fields /\ NextShown(c) \in Shown
         /\ mem[c].op \in FieldOps /\ mem[c].todo # <<>>
<1> DEFINE m == mem[c]
<1>1. m \in Mems /\ m.op \in FieldOps /\ m.todo # <<>>
  BY DEF TypeOK, OwnOK, Course, Asks
<1>2. Field(c) \in Fields
  BY <1>1 DEF Mems, Field
<1>3. Seen(c) \in FieldRows
  BY <1>1, <1>2 DEF OwnOK, RowsAreRead, Seen, Mems
<1>4. CASE m.op = "accept_suggestion"
  <2>1. m.job \in Jobs
    BY <1>4 DEF OwnOK, Asks
  <2>2. suggestion[m.job][Field(c)].value \in Values
    BY <1>2, <2>1 DEF TypeOK, Suggestions
  <2> QED BY <1>1, <1>2, <1>3, <1>4, <2>2, SuggestedTypes DEF NextShown
<1>5. CASE m.op = "revert_event"
  <2>1. m.target \in 1 .. Len(log) /\ log[m.target].type # "reject_multimodal_suggestion"
    BY <1>5 DEF OwnOK, Asks, Revertible, MultimodalEvents
  <2>2. log[m.target].old \in Shown
    BY <2>1 DEF EventsOfRows
  <2> QED BY <1>1, <1>2, <1>3, <1>5, <2>2 DEF NextShown
<1>6. CASE m.op \in FieldActions
  <2>1. m.op # "accept_suggestion" /\ m.op # "revert_event"
    BY <1>6 DEF FieldActions
  <2>2. NextShown(c) = Applied(m.op, Field(c), Seen(c), m.target = 1)
    BY <2>1 DEF NextShown
  <2>3. (m.target = 1) \in BOOLEAN
    OBVIOUS
  <2> QED BY <1>1, <1>2, <1>3, <1>6, <2>2, <2>3, AppliedTypes
<1> QED BY <1>1, <1>4, <1>5, <1>6 DEF FieldOps

-----------------------------------------------------------------------------
(* The steps of requests: types, what others rely on, and their own order.    *)

Keeps(c) ==
  /\ TypeOK' /\ Frame /\ EventsOfRows' /\ OwnOK(c)'
  /\ \A d \in Clients \ {c} : mem'[d] = mem[d]

Tables == <<state, log, suggestion, job, core, exports, export_count, scan>>

(* Types, when only requests move.                                            *)
LEMMA TablesStay ==
  ASSUME TypeOK, UNCHANGED Tables, mem' \in [Clients -> Mems], asked' \subseteq Jobs,
         requests' \in 0 .. MaxRequests, crashes' \in 0 .. MaxCrashes
  PROVE  TypeOK' /\ Frame
<1>1. TypeOK'
  BY DEF TypeOK, Tables, core
<1>2. Frame
  BY LogLen DEF Frame, Tables
<1> QED BY <1>1, <1>2

(* Events are of rows that are there, as long as none is added.               *)
LEMMA EventsStay ==
  ASSUME TypeOK, Frame, EventsOfRows, log' = log
  PROVE  EventsOfRows'
BY DEF EventsOfRows, AllThere, Frame

(* Somebody at rest relies on nothing.                                        *)
LEMMA RestIsOK ==
  ASSUME NEW c, mem'[c] = Idle
  PROVE  OwnOK(c)'
<1>1. mem'[c].pc = "idle" /\ mem'[c].op = "none"
  BY RestTypes
<1> QED BY <1>1 DEF OwnOK, RowsAreRead, Asks, Course, EventIsWritten, WithRows, OnField, OnJob, FieldOps,
          FieldActions

(* A request that asks for the same as before still may.                      *)
LEMMA AsksStay ==
  ASSUME TypeOK, TypeOK', Frame, NEW c \in Clients, Asks(c), mem'[c].op = mem[c].op, mem'[c].todo = mem[c].todo,
         mem'[c].target = mem[c].target, mem'[c].job = mem[c].job,
         mem'[c].pc \in OnJob => mem[c].job \in Jobs
  PROVE  Asks(c)'
<1> DEFINE m == mem[c]
<1>1. m \in Mems /\ Len(log) \in Nat /\ Len(log') \in Nat
  BY DEF TypeOK
<1>2. Field(c)' = Field(c)
  BY DEF Field
<1>3. m.op \in {"accept_suggestion", "reject_suggestion"} =>
        m.job \in Jobs /\ suggestion'[m.job][Field(c)].status # "absent"
  <2> HAVE m.op \in {"accept_suggestion", "reject_suggestion"}
  <2>1. m.job \in Jobs /\ suggestion[m.job][Field(c)].status # "absent" /\ m.todo # <<>>
    BY DEF Asks, FieldOps
  <2>2. Field(c) \in Fields
    BY <1>1, <2>1 DEF Mems, Field
  <2> QED BY <2>1, <2>2 DEF Frame
<1>4. m.op = "revert_event" => m.target \in 1 .. Len(log') /\ Revertible(m.target)'
  BY <1>1 DEF Asks, Frame, Revertible
<1> QED BY <1>2, <1>3, <1>4 DEF Asks, Revertible

(* Where a request has nothing to rely on but what it asks for.               *)
LEMMA QuietIsOK ==
  ASSUME NEW c, Asks(c)', Course(c)', mem'[c].pc \notin WithRows \cup {"insert_states", "mark"}
  PROVE  OwnOK(c)'
BY DEF OwnOK, RowsAreRead, EventIsWritten, WithRows, OnField

(* A request begins with what it asks for.                                    *)
LEMMA BeginIsOK ==
  ASSUME TypeOK, EventsOfRows, NEW c \in Clients, NEW m \in Mems, Begin(c, m), asked' \subseteq Jobs,
         m.pc \in {"select_states", "insert_reject", "cancel_queued", "cancelling"},
         m.op \in FieldOps \cup {"reject_suggestion"} => m.todo # <<>>,
         m.op = "revert_event" => m.target \in 1 .. Len(log) /\ Revertible(m.target),
         m.op \in {"accept_suggestion", "reject_suggestion"} =>
           m.job \in Jobs /\ suggestion[m.job][Head(m.todo)].status # "absent",
         m.pc \in OnJob => m.job \in Jobs,
         m.pc = "select_states" => m.op \in FieldOps \cup {"table", "export", "start_job"},
         m.pc = "insert_reject" => m.op = "reject_suggestion"
  PROVE  Keeps(c)
<1>1. MemIs(c, m) /\ UNCHANGED Tables
  BY DEF Begin, MemIs, Tables
<1>2. mem' \in [Clients -> Mems] /\ mem'[c] = m /\ \A d \in Clients \ {c} : mem'[d] = mem[d]
  BY <1>1, MemChanges
<1>3. requests' \in 0 .. MaxRequests /\ crashes' \in 0 .. MaxCrashes
  BY ConstantsAssumption DEF Begin, TypeOK
<1>4. TypeOK' /\ Frame
  BY <1>1, <1>2, <1>3, TablesStay
<1>5. EventsOfRows'
  BY <1>1, <1>4, EventsStay DEF Tables
<1>6. Asks(c)'
  BY <1>1, <1>2 DEF Asks, Field, Tables, Revertible
<1>7. Course(c)'
  BY <1>2 DEF Course, OnField
<1>8. mem'[c].pc \notin WithRows \cup {"insert_states", "mark"}
  BY <1>2 DEF WithRows, OnField
<1>9. OwnOK(c)'
  BY <1>6, <1>7, <1>8, QuietIsOK
<1> QED BY <1>2, <1>4, <1>5, <1>9 DEF Keeps

(* Requests on rows begin by making sure that the rows are there.             *)
LEMMA AskingIs ==
  ASSUME NEW op \in Ops
  PROVE  Asking(op) \in Mems /\ Asking(op) = [Idle EXCEPT !.pc = "select_states", !.op = op]
BY RestTypes DEF Asking, Mems, PCs

(* One field to act on, for a request that is typed otherwise.                *)
For(m, q, n) == [m EXCEPT !.todo = q, !.target = n]
Of(m, q, j) == [m EXCEPT !.todo = q, !.job = j]

(* A request for fields with a number: the event, or the lock.                *)
LEMMA WithTarget ==
  ASSUME NEW m \in Mems, NEW q \in Seq(Fields), NEW n \in Nat
  PROVE  /\ For(m, q, n) \in Mems /\ For(m, q, n).pc = m.pc /\ For(m, q, n).op = m.op
         /\ For(m, q, n).todo = q /\ For(m, q, n).target = n
BY DEF Mems, For

(* A request for fields and a review job.                                     *)
LEMMA WithJob ==
  ASSUME NEW m \in Mems, NEW q \in Seq(Fields), NEW j \in Jobs
  PROVE  /\ Of(m, q, j) \in Mems /\ Of(m, q, j).pc = m.pc /\ Of(m, q, j).op = m.op
         /\ Of(m, q, j).todo = q /\ Of(m, q, j).job = j
BY DEF Mems, Of

(* The fields of a request for one.                                           *)
LEMMA OneField ==
  ASSUME NEW f \in Fields
  PROVE  <<f>> \in Seq(Fields) /\ <<f>> # <<>> /\ Head(<<f>>) = f
OBVIOUS

(* Every request begins in order.                                             *)
LEMMA RequestsKeep ==
  ASSUME TypeOK, EventsOfRows, NEW c \in Clients, Requests(c)
  PROVE  Keeps(c)
<1> USE DEF FieldOps, OnJob
<1>0. asked \subseteq Jobs
  BY DEF TypeOK
<1>1. ASSUME NEW op \in {"table", "export", "start_job"}, Begin(c, Asking(op)), UNCHANGED asked PROVE Keeps(c)
  <2>1. op \in Ops /\ op \notin FieldActions
    BY DEF Ops, FieldActions
  <2>2. Asking(op) \in Mems /\ Asking(op).pc = "select_states" /\ Asking(op).op = op
    BY <2>1, AskingIs DEF Idle
  <2> QED BY <1>0, <1>1, <2>1, <2>2, BeginIsOK
<1>2. CASE table(c)
  BY <1>1, <1>2 DEF table
<1>3. CASE create_export(c)
  BY <1>1, <1>3 DEF create_export
<1>4. CASE start_job(c)
  BY <1>1, <1>4 DEF start_job
<1>5. CASE field_action(c)
  <2>1. PICK op \in FieldActions, f \in Fields, lock \in BOOLEAN :
          /\ Begin(c, [Asking(op) EXCEPT !.todo = <<f>>, !.target = IF lock THEN 1 ELSE 0])
          /\ UNCHANGED asked
    BY <1>5 DEF field_action
  <2> DEFINE m == [Asking(op) EXCEPT !.todo = <<f>>, !.target = IF lock THEN 1 ELSE 0]
  <2>2. op \in Ops /\ op \notin {"revert_event", "accept_suggestion", "reject_suggestion"}
    BY DEF Ops, FieldActions
  <2>3. Asking(op) \in Mems /\ Asking(op).pc = "select_states" /\ Asking(op).op = op
    BY <2>2, AskingIs DEF Idle
  <2>4. m \in Mems /\ m.pc = "select_states" /\ m.op = op /\ m.todo # <<>>
    <3>1. (IF lock THEN 1 ELSE 0) \in Nat /\ <<f>> \in Seq(Fields) /\ <<f>> # <<>>
      BY OneField
    <3>2. m = For(Asking(op), <<f>>, IF lock THEN 1 ELSE 0)
      BY DEF For
    <3> DEFINE a == Asking(op)
               q == <<f>>
               n == IF lock THEN 1 ELSE 0
    <3>3. a \in Mems /\ q \in Seq(Fields) /\ q # <<>> /\ n \in Nat /\ m = For(a, q, n)
      BY <2>3, <3>1, <3>2
    <3> HIDE DEF a, q, n, m
    <3>4. For(a, q, n) \in Mems /\ For(a, q, n).pc = a.pc /\ For(a, q, n).op = a.op
      BY <3>3, WithTarget
    <3>5. For(a, q, n).todo = q /\ For(a, q, n).target = n
      BY <3>3, WithTarget
    <3> QED BY <2>3, <3>3, <3>4, <3>5 DEF a
  <2> HIDE DEF m
  <2> QED BY <1>0, <2>1, <2>2, <2>4, BeginIsOK DEF m
<1>6. CASE bulk(c)
  <2>1. PICK op \in BulkActions :
          /\ Begin(c, [Asking(op) EXCEPT !.todo = [f \in Fields |-> f], !.target = 1])
          /\ UNCHANGED asked
    BY <1>6 DEF bulk
  <2> DEFINE m == [Asking(op) EXCEPT !.todo = [f \in Fields |-> f], !.target = 1]
  <2>2. op \in Ops /\ op \notin {"revert_event", "accept_suggestion", "reject_suggestion"} /\ op \in FieldActions
    BY DEF Ops, FieldActions, BulkActions
  <2>3. Asking(op) \in Mems /\ Asking(op).pc = "select_states" /\ Asking(op).op = op
    BY <2>2, AskingIs DEF Idle
  <2>4. [f \in Fields |-> f] \in Seq(Fields) /\ [f \in Fields |-> f] # <<>>
    <3>1. [f \in 1 .. NFields |-> f] \in Seq(Fields) /\ Len([f \in 1 .. NFields |-> f]) = NFields
      BY FieldsAre DEF Fields
    <3> QED BY <3>1, ConstantsAssumption DEF Fields
  <2>5. m \in Mems /\ m.pc = "select_states" /\ m.op = op /\ m.todo # <<>>
    BY <2>3, <2>4 DEF Mems
  <2> HIDE DEF m
  <2> QED BY <1>0, <2>1, <2>2, <2>5, BeginIsOK DEF m
<1>7. CASE revert_event(c)
  <2>1. PICK e \in 1 .. Len(log) :
          /\ Revertible(e)
          /\ Begin(c, [Asking("revert_event") EXCEPT !.todo = <<log[e].field>>, !.target = e])
          /\ UNCHANGED asked
    BY <1>7 DEF revert_event
  <2> DEFINE m == [Asking("revert_event") EXCEPT !.todo = <<log[e].field>>, !.target = e]
  <2>2. "revert_event" \in Ops
    BY DEF Ops
  <2>3. Asking("revert_event") \in Mems /\ Asking("revert_event").pc = "select_states"
        /\ Asking("revert_event").op = "revert_event"
    BY <2>2, AskingIs DEF Idle
  <2>4. log[e].field \in Fields /\ e \in Nat
    <3>1. log \in Seq(Events) /\ Len(log) \in Nat
      BY LogLen DEF TypeOK
    <3>2. log[e] \in Events /\ e \in Nat
      BY <3>1
    <3> QED BY <3>2 DEF Events
  <2>5. m \in Mems /\ m.pc = "select_states" /\ m.op = "revert_event" /\ m.todo # <<>> /\ m.target = e
    <3>1. <<log[e].field>> \in Seq(Fields) /\ <<log[e].field>> # <<>>
      BY <2>4, OneField
    <3>2. m = For(Asking("revert_event"), <<log[e].field>>, e)
      BY DEF For
    <3> DEFINE a == Asking("revert_event")
               q == <<log[e].field>>
               n == e
    <3>3. a \in Mems /\ q \in Seq(Fields) /\ q # <<>> /\ n \in Nat /\ m = For(a, q, n)
      BY <2>3, <2>4, <3>1, <3>2
    <3> HIDE DEF a, q, n, m
    <3>4. For(a, q, n) \in Mems /\ For(a, q, n).pc = a.pc /\ For(a, q, n).op = a.op
      BY <3>3, WithTarget
    <3>5. For(a, q, n).todo = q /\ For(a, q, n).target = n
      BY <3>3, WithTarget
    <3> QED BY <2>3, <3>3, <3>4, <3>5 DEF a, n
  <2> HIDE DEF m
  <2> QED BY <1>0, <2>1, <2>5, BeginIsOK DEF m
<1>8. CASE accept_suggestion(c)
  <2>1. PICK j \in Jobs, f \in Fields :
          /\ suggestion[j][f].status = "pending"
          /\ Begin(c, [Asking("accept_suggestion") EXCEPT !.todo = <<f>>, !.job = j])
          /\ UNCHANGED asked
    BY <1>8 DEF accept_suggestion
  <2> DEFINE m == [Asking("accept_suggestion") EXCEPT !.todo = <<f>>, !.job = j]
  <2>2. "accept_suggestion" \in Ops
    BY DEF Ops
  <2>3. Asking("accept_suggestion") \in Mems /\ Asking("accept_suggestion").pc = "select_states"
        /\ Asking("accept_suggestion").op = "accept_suggestion"
    BY <2>2, AskingIs DEF Idle
  <2>5. /\ m \in Mems /\ m.pc = "select_states" /\ m.op = "accept_suggestion" /\ m.todo # <<>>
        /\ m.job = j /\ Head(m.todo) = f
    <3>1. <<f>> \in Seq(Fields) /\ <<f>> # <<>> /\ Head(<<f>>) = f
      BY OneField
    <3>2. m = Of(Asking("accept_suggestion"), <<f>>, j)
      BY DEF Of
    <3> DEFINE a == Asking("accept_suggestion")
               q == <<f>>
               n == j
    <3>3. a \in Mems /\ q \in Seq(Fields) /\ q # <<>> /\ n \in Jobs /\ m = Of(a, q, n)
      BY <2>3, <3>1, <3>2
    <3> HIDE DEF a, q, n, m
    <3>4. Of(a, q, n) \in Mems /\ Of(a, q, n).pc = a.pc /\ Of(a, q, n).op = a.op
      BY <3>3, WithJob
    <3>5. Of(a, q, n).todo = q /\ Of(a, q, n).job = n
      BY <3>3, WithJob
    <3> QED BY <2>3, <3>1, <3>3, <3>4, <3>5 DEF a, n, q
  <2> HIDE DEF m
  <2> QED BY <1>0, <2>1, <2>5, BeginIsOK DEF m
<1>9. CASE reject_suggestion(c)
  <2>1. PICK j \in Jobs, f \in Fields :
          /\ suggestion[j][f].status = "pending"
          /\ Begin(c, [Idle EXCEPT !.pc = AfterReject, !.op = "reject_suggestion", !.todo = <<f>>, !.job = j])
          /\ UNCHANGED asked
    BY <1>9 DEF reject_suggestion
  <2> DEFINE m == [Idle EXCEPT !.pc = AfterReject, !.op = "reject_suggestion", !.todo = <<f>>, !.job = j]
  <2>5. /\ m \in Mems /\ m.pc = "insert_reject" /\ m.op = "reject_suggestion" /\ m.todo # <<>>
        /\ m.job = j /\ Head(m.todo) = f
    <3>1. /\ DOMAIN Idle = {"pc", "op", "todo", "target", "job", "seen", "event"}
          /\ <<f>> \in Seq(Fields) /\ Head(<<f>>) = f /\ <<f>> # <<>>
      BY DEF Idle
    <3>2. m \in Mems
      BY <3>1, RestTypes DEF Mems, PCs, Ops, AfterReject
    <3> QED BY <3>1, <3>2 DEF AfterReject, Idle
  <2> HIDE DEF m
  <2> QED BY <1>0, <2>1, <2>5, BeginIsOK DEF m
<1>10. CASE cancel_job(c)
  <2>1. PICK j \in Jobs :
          /\ Begin(c, [Idle EXCEPT !.op = "cancel_job", !.job = j,
                         !.pc = IF job[j].status = "queued" THEN "cancel_queued" ELSE "cancelling",
                         !.target = IF job[j].linked THEN 1 ELSE 0])
          /\ asked' = asked \cup {j}
    BY <1>10 DEF cancel_job
  <2> DEFINE m == [Idle EXCEPT !.op = "cancel_job", !.job = j,
                         !.pc = IF job[j].status = "queued" THEN "cancel_queued" ELSE "cancelling",
                         !.target = IF job[j].linked THEN 1 ELSE 0]
  <2>5. m \in Mems /\ m.pc \in {"cancel_queued", "cancelling"} /\ m.op = "cancel_job" /\ m.job = j
    BY RestTypes DEF Mems, PCs, Ops, OnJob
  <2>6. "cancel_job" \notin FieldActions
    BY DEF FieldActions
  <2> HIDE DEF m
  <2> QED BY <1>0, <2>1, <2>5, <2>6, BeginIsOK DEF m
<1> QED BY <1>2, <1>3, <1>4, <1>5, <1>6, <1>7, <1>8, <1>9, <1>10 DEF Requests

(* A step that changes only what its request is at.                           *)
LEMMA MoveKeeps ==
  ASSUME TypeOK, EventsOfRows, NEW c \in Clients, OwnOK(c), NEW m, MemIs(c, m),
         UNCHANGED <<Tables, asked>>, requests' \in 0 .. MaxRequests, crashes' \in 0 .. MaxCrashes
  PROVE  /\ TypeOK' /\ Frame /\ EventsOfRows' /\ mem'[c] = m
         /\ \A d \in Clients \ {c} : mem'[d] = mem[d]
         /\ OwnOK(c)' => Keeps(c)
<1>1. mem' \in [Clients -> Mems] /\ mem'[c] = m /\ \A d \in Clients \ {c} : mem'[d] = mem[d]
  BY MemChanges
<1>2. asked' \subseteq Jobs /\ UNCHANGED Tables /\ log' = log
  BY DEF TypeOK, Tables
<1>3. TypeOK' /\ Frame
  BY <1>1, <1>2, TablesStay
<1>4. EventsOfRows'
  BY <1>2, <1>3, EventsStay
<1> QED BY <1>1, <1>3, <1>4 DEF Keeps

(* The counters of a step that leaves them alone.                             *)
LEMMA BoundsStay ==
  ASSUME TypeOK, UNCHANGED bounds
  PROVE  requests' \in 0 .. MaxRequests /\ crashes' \in 0 .. MaxCrashes
BY DEF TypeOK, bounds

(* Where a request is done its step keeps what the others rely on.            *)
LEMMA LeaveKeeps ==
  ASSUME TypeOK, EventsOfRows, NEW c \in Clients, OwnOK(c), Goto(c, "idle"),
         UNCHANGED <<Tables, asked>>, requests' \in 0 .. MaxRequests, crashes' \in 0 .. MaxCrashes
  PROVE  Keeps(c)
<1>1. MemIs(c, Idle)
  BY GotoIs DEF PCs
<1> QED BY <1>1, MoveKeeps, RestIsOK

(* What requests on rows go on with.                                          *)
LEMMA AfterEnsureIs ==
  ASSUME NEW op \in FieldOps \cup {"table", "export", "start_job"}
  PROVE  /\ op = "table" => AfterEnsure(op) = "idle"
         /\ op = "export" => AfterEnsure(op) = "read_rows"
         /\ op = "start_job" => AfterEnsure(op) = "select_active"
         /\ op \in FieldOps => AfterEnsure(op) = "read_state"
         /\ AfterEnsure(op) \in {"idle", "read_rows", "select_active", "read_state"}
         /\ AfterEnsure(op) = "read_state" => op \in FieldOps
         /\ AfterEnsure(op) = "select_active" => op = "start_job"
         /\ AfterEnsure(op) \in PCs
BY DEF AfterEnsure, FieldOps, FieldActions, PCs, OnField

(* A request on rows that are all there goes on with what it is for.          *)
LEMMA EnsuredIsOK ==
  ASSUME TypeOK, TypeOK', Frame, NEW c \in Clients, OwnOK(c), mem[c].pc \in {"select_states", "insert_states"},
         AllThere', NEW s \in [Fields -> FieldRows \cup {Absent}],
         mem'[c] = [mem[c] EXCEPT !.pc = AfterEnsure(mem[c].op), !.seen = s]
  PROVE  OwnOK(c)'
<1> DEFINE m == mem[c]
<1>1. m \in Mems
  BY DEF TypeOK
<1>2. m.op \in FieldOps \cup {"table", "export", "start_job"}
  BY DEF OwnOK, Course
<1>3. /\ mem'[c].pc = AfterEnsure(m.op) /\ mem'[c].op = m.op /\ mem'[c].todo = m.todo
      /\ mem'[c].target = m.target /\ mem'[c].job = m.job
  BY <1>1 DEF Mems
<1>4. mem'[c].pc \in {"idle", "read_rows", "select_active", "read_state"}
  BY <1>2, <1>3, AfterEnsureIs
<1>5. Asks(c)'
  BY <1>3, <1>4, AsksStay DEF OwnOK, OnJob
<1>6. Course(c)'
  BY <1>2, <1>3, <1>4, AfterEnsureIs DEF Course, OnField
<1>7. RowsAreRead(c)'
  BY <1>4 DEF RowsAreRead, OnField
<1>8. EventIsWritten(c)'
  BY <1>4 DEF EventIsWritten
<1> QED BY <1>5, <1>6, <1>7, <1>8 DEF OwnOK

(* select_states: when every row is found, all are there.                     *)
LEMMA SelectStatesKeeps ==
  ASSUME TypeOK, EventsOfRows, NEW c \in Clients, OwnOK(c), select_states(c)
  PROVE  Keeps(c)
<1> DEFINE m == mem[c]
<1>0. /\ UNCHANGED <<Tables, asked>> /\ requests' \in 0 .. MaxRequests /\ crashes' \in 0 .. MaxCrashes
      /\ m.pc = "select_states" /\ m \in Mems
  BY BoundsStay DEF select_states, Tables, bounds, TypeOK
<1>1. m.op \in FieldOps \cup {"table", "export", "start_job"}
  BY <1>0 DEF OwnOK, Course
<1>2. CASE \E f \in Fields : state[f] = Absent
  <2> DEFINE n == [m EXCEPT !.pc = "insert_states", !.seen = state]
  <2>1. n \in Mems
    BY <1>0 DEF Mems, PCs, TypeOK
  <2>2. mem' = [mem EXCEPT ![c] = n]
    BY <1>0, <1>2 DEF select_states, TypeOK, Mems
  <2>3. MemIs(c, n)
    BY <2>1, <2>2 DEF MemIs
  <2>4. n.pc = "insert_states" /\ n.seen = state /\ n.op = m.op /\ n.todo = m.todo /\ n.target = m.target
        /\ n.job = m.job
    BY <1>0 DEF Mems
  <2> HIDE DEF n
  <2>5. TypeOK' /\ Frame /\ mem'[c] = n /\ (OwnOK(c)' => Keeps(c))
    BY <1>0, <2>3, MoveKeeps
  <2>6. Asks(c)'
    BY <2>4, <2>5, AsksStay DEF OwnOK, OnJob
  <2>7. Course(c)' /\ EventIsWritten(c)'
    BY <1>1, <2>4, <2>5 DEF Course, EventIsWritten, OnField
  <2>8. RowsAreRead(c)'
    BY <1>0, <2>4, <2>5 DEF RowsAreRead, WithRows, OnField, Tables
  <2> QED BY <2>5, <2>6, <2>7, <2>8 DEF OwnOK
<1>3. CASE AllThere
  <2>1. Goto(c, AfterEnsure(m.op)) /\ AllThere' /\ AfterEnsure(m.op) \in PCs
    <3>1. AllThere'
      BY <1>0, <1>3 DEF AllThere, Tables
    <3>2. Goto(c, AfterEnsure(m.op))
      BY <1>3 DEF select_states, AllThere
    <3> QED BY <1>1, <3>1, <3>2, AfterEnsureIs
  <2>2. CASE AfterEnsure(m.op) = "idle"
    BY <1>0, <2>1, <2>2, LeaveKeeps
  <2>3. CASE AfterEnsure(m.op) # "idle"
    <3>1. MemIs(c, [m EXCEPT !.pc = AfterEnsure(m.op)])
      BY <2>1, <2>3, GotoIs
    <3>2. [m EXCEPT !.pc = AfterEnsure(m.op)] = [m EXCEPT !.pc = AfterEnsure(m.op), !.seen = m.seen]
      BY <1>0 DEF Mems
    <3>3. m.seen \in [Fields -> FieldRows \cup {Absent}]
      BY <1>0 DEF Mems
    <3>4. TypeOK' /\ Frame /\ mem'[c] = [m EXCEPT !.pc = AfterEnsure(m.op)] /\ (OwnOK(c)' => Keeps(c))
      BY <1>0, <3>1, MoveKeeps
    <3> QED BY <1>0, <2>1, <3>2, <3>3, <3>4, EnsuredIsOK
  <2> QED BY <2>2, <2>3
<1> QED BY <1>2, <1>3 DEF AllThere

(* insert_states: then all are there, and no row that was there changes.      *)
LEMMA InsertStatesKeeps ==
  ASSUME TypeOK, EventsOfRows, NEW c \in Clients, OwnOK(c), insert_states(c)
  PROVE  Keeps(c) /\ \A f \in Fields : state'[f] = state[f] \/ (state[f] = Absent /\ state'[f] = Unreviewed(f))
<1> DEFINE m == mem[c]
<1>0. /\ m.pc = "insert_states" /\ m \in Mems /\ state \in [Fields -> FieldRows \cup {Absent}]
      /\ requests' \in 0 .. MaxRequests /\ crashes' \in 0 .. MaxCrashes
      /\ UNCHANGED <<log, suggestion, job, core, exports, export_count, scan, asked>>
  BY BoundsStay DEF insert_states, TypeOK, bounds
<1>1. m.op \in FieldOps \cup {"table", "export", "start_job"}
  BY <1>0 DEF OwnOK, Course
<1>2. \A f \in Fields : f \in Unseen(c) => state[f] = Absent /\ state'[f] = Unreviewed(f)
  BY <1>0 DEF insert_states, MayInsert
<1>3. \A f \in Fields : f \notin Unseen(c) => state[f] # Absent /\ state'[f] = state[f]
  BY <1>0 DEF insert_states, Unseen, OwnOK, RowsAreRead
<1>4. AllThere' /\ state' \in [Fields -> FieldRows \cup {Absent}]
  <2>1. \A f \in Fields : state'[f] \in FieldRows
    BY <1>0, <1>2, <1>3, RowTypes
  <2>2. DOMAIN state' = Fields /\ state' = [f \in Fields |-> state'[f]]
    BY DEF insert_states
  <2> QED BY <2>1, <2>2, RowTypes DEF AllThere
<1>5. \A f \in Fields : state'[f].last # NoEvent => state'[f].last <= Len(log') /\ log'[state'[f].last].field = f
  <2>1. \A f \in Fields : state[f].last # NoEvent => state[f].last <= Len(log) /\ log[state[f].last].field = f
    BY DEF TypeOK
  <2>2. \A f \in Fields : Unreviewed(f).last = NoEvent
    BY DEF Unreviewed
  <2> QED BY <1>0, <1>2, <1>3, <2>1, <2>2
<1> DEFINE n == IF AfterEnsure(m.op) = "idle" THEN Idle
                ELSE [m EXCEPT !.pc = AfterEnsure(m.op), !.seen = Idle.seen]
<1>6. MemIs(c, n)
  <2>1. AfterEnsure(m.op) \in PCs
    BY <1>1, AfterEnsureIs
  <2>2. n \in Mems
    BY <1>0, <2>1, RestTypes DEF Mems
  <2>3. mem' = [mem EXCEPT ![c] = n]
    BY <1>0 DEF insert_states, TypeOK, Mems
  <2> QED BY <2>2, <2>3 DEF MemIs
<1>7. mem' \in [Clients -> Mems] /\ mem'[c] = n /\ \A d \in Clients \ {c} : mem'[d] = mem[d]
  BY <1>6, MemChanges
<1> HIDE DEF n
<1>8. TypeOK'
  BY <1>0, <1>4, <1>5, <1>7 DEF TypeOK, core
<1>9. Frame
  BY <1>0, <1>2, <1>3, LogLen, RowTypes DEF Frame
<1>10. EventsOfRows'
  BY <1>0, <1>9, EventsStay
<1>11. OwnOK(c)'
  <2>1. CASE AfterEnsure(m.op) = "idle"
    BY <1>7, <2>1, RestIsOK DEF n
  <2>2. CASE AfterEnsure(m.op) # "idle"
    <3>1. Idle.seen \in [Fields -> FieldRows \cup {Absent}]
      BY RestTypes
    <3>2. mem'[c] = [m EXCEPT !.pc = AfterEnsure(m.op), !.seen = Idle.seen]
      BY <1>7, <2>2 DEF n
    <3> HIDE DEF m
    <3> QED BY <1>0, <1>4, <1>8, <1>9, <3>1, <3>2, EnsuredIsOK DEF m
  <2> QED BY <2>1, <2>2
<1> QED BY <1>2, <1>3, <1>7, <1>8, <1>9, <1>10, <1>11 DEF Keeps

(* insert_conflict: the request is over.                                      *)
LEMMA InsertConflictKeeps ==
  ASSUME TypeOK, EventsOfRows, NEW c \in Clients, OwnOK(c), insert_conflict(c)
  PROVE  Keeps(c)
<1>1. /\ UNCHANGED <<Tables, asked>> /\ requests' \in 0 .. MaxRequests /\ crashes' \in 0 .. MaxCrashes
      /\ Goto(c, "idle")
  BY BoundsStay DEF insert_conflict, Tables, bounds, TypeOK
<1> QED BY <1>1, LeaveKeeps

(* read_state: the row that is read is there.                                 *)
LEMMA ReadStateKeeps ==
  ASSUME TypeOK, EventsOfRows, NEW c \in Clients, OwnOK(c), read_state(c)
  PROVE  Keeps(c)
<1> DEFINE m == mem[c]
           f == Field(c)
           n == [m EXCEPT !.seen = [m.seen EXCEPT ![f] = state[f]],
                          !.pc = IF m.op = "revert_event" THEN "revert_put" ELSE "insert_event"]
<1>0. /\ m.pc = "read_state" /\ m \in Mems /\ state \in [Fields -> FieldRows \cup {Absent}]
      /\ requests' \in 0 .. MaxRequests /\ crashes' \in 0 .. MaxCrashes
      /\ UNCHANGED <<Tables, asked>>
  BY BoundsStay DEF read_state, TypeOK, bounds, Tables
<1>1. m.op \in FieldOps /\ m.todo # <<>> /\ AllThere
  BY <1>0 DEF OwnOK, Course, Asks, RowsAreRead, WithRows, OnField
<1>2. f \in Fields
  BY <1>0, <1>1 DEF Mems, Field
<1>3. n \in Mems
  BY <1>0, <1>2 DEF Mems, PCs, OnField
<1>4. mem' = [mem EXCEPT ![c] = n]
  BY <1>0 DEF read_state, TypeOK, Mems
<1>5. /\ n.op = m.op /\ n.todo = m.todo /\ n.target = m.target /\ n.job = m.job
      /\ n.seen[f] = state[f] /\ n.pc \in {"revert_put", "insert_event"}
      /\ n.pc = "revert_put" => n.op = "revert_event"
  BY <1>0, <1>2 DEF Mems
<1> HIDE DEF n
<1>6. TypeOK' /\ Frame /\ mem'[c] = n /\ (OwnOK(c)' => Keeps(c))
  BY <1>0, <1>3, <1>4, MoveKeeps DEF MemIs
<1>7. Asks(c)'
  BY <1>5, <1>6, AsksStay DEF OwnOK, OnJob
<1>8. Course(c)' /\ EventIsWritten(c)'
  BY <1>1, <1>5, <1>6 DEF Course, EventIsWritten, OnField
<1>9. Seen(c)' = state[f] /\ AllThere'
  BY <1>0, <1>1, <1>5, <1>6 DEF Seen, Field, AllThere, Tables
<1>10. RowsAreRead(c)'
  BY <1>1, <1>2, <1>5, <1>6, <1>9 DEF RowsAreRead, AllThere
<1> QED BY <1>6, <1>7, <1>8, <1>10 DEF OwnOK

(* An event is appended: the others stay where they are.                      *)
LEMMA AppendedLog ==
  ASSUME TypeOK, NEW ev \in Events, log' = Append(log, ev), state' = state, suggestion' = suggestion
  PROVE  /\ log' \in Seq(Events) /\ Len(log') = Len(log) + 1 /\ log'[Len(log) + 1] = ev /\ Frame
         /\ \A f \in Fields : state'[f].last # NoEvent =>
              state'[f].last <= Len(log') /\ log'[state'[f].last].field = f
<1>1. log \in Seq(Events) /\ Len(log) \in Nat
  BY LogLen DEF TypeOK
<1>2. /\ log' \in Seq(Events) /\ Len(log') = Len(log) + 1 /\ log'[Len(log) + 1] = ev
      /\ \A e \in 1 .. Len(log) : log'[e] = log[e]
  BY <1>1
<1>3. Frame
  BY <1>1, <1>2 DEF Frame
<1>4. ASSUME NEW f \in Fields, state'[f].last # NoEvent
      PROVE  state'[f].last <= Len(log') /\ log'[state'[f].last].field = f
  <2>1. state[f].last <= Len(log) /\ log[state[f].last].field = f /\ state[f].last # 0
    BY <1>4 DEF TypeOK, NoEvent
  <2>2. state[f].last \in Nat
    BY DEF TypeOK, FieldRows, Absent, NoEvent
  <2> QED BY <1>1, <1>2, <2>1, <2>2
<1> QED BY <1>2, <1>3, <1>4

(* The types of events of actions on fields.                                  *)
LEMMA EventTypesAre ==
  ASSUME NEW op \in FieldOps
  PROVE  EventType(op) \in EventTypes /\ EventType(op) # "reject_multimodal_suggestion"
         /\ (op = "accept_suggestion" => EventType(op) = "accept_multimodal_suggestion")
BY DEF EventType, EventTypes, MultimodalEvents, FieldOps, FieldActions

(* The event that a request appends for its action on a field.                *)
Written(c) == [field |-> Field(c), type |-> EventType(mem[c].op), job |-> mem[c].job,
               old |-> Show(Seen(c)), new |-> NextShown(c)]

(* insert_event: the event says what the request is about to write.           *)
LEMMA InsertEventKeeps ==
  ASSUME TypeOK, EventsOfRows, NEW c \in Clients, OwnOK(c), insert_event(c)
  PROVE  /\ Keeps(c) /\ log' = Append(log, Written(c)) /\ Written(c) \in Events
         /\ Written(c).new = NextShown(c) /\ Written(c).field = Field(c)
         /\ mem'[c].pc = IF mem[c].op = "revert_event" THEN "revert_link" ELSE "put_state"
         /\ mem'[c].op = mem[c].op /\ Field(c)' = Field(c)
<1> DEFINE m == mem[c]
           n == [m EXCEPT !.event = Len(log) + 1,
                          !.pc = IF m.op = "revert_event" THEN "revert_link" ELSE "put_state"]
<1>0. /\ m.pc = "insert_event" /\ m \in Mems
      /\ requests' \in 0 .. MaxRequests /\ crashes' \in 0 .. MaxCrashes
      /\ UNCHANGED <<state, suggestion, job, core, exports, export_count, scan, asked>>
  BY BoundsStay DEF insert_event, TypeOK, bounds
<1>1. /\ Seen(c) \in FieldRows /\ Field(c) \in Fields /\ NextShown(c) \in Shown
      /\ m.op \in FieldOps /\ m.todo # <<>>
  BY <1>0, NextTypes DEF OnField
<1>2. Written(c) \in Events
  <2>1. Show(Seen(c)) \in Shown /\ EventType(m.op) \in EventTypes /\ m.job \in Jobs \cup {"none"}
    BY <1>0, <1>1, RowTypes, EventTypesAre DEF Mems
  <2> QED BY <1>1, <2>1 DEF Written, Events
<1>3. log' = Append(log, Written(c))
  BY DEF insert_event, Written, Recorded
<1>4. /\ log' \in Seq(Events) /\ Len(log') = Len(log) + 1 /\ log'[Len(log) + 1] = Written(c) /\ Frame
      /\ \A f \in Fields : state'[f].last # NoEvent =>
           state'[f].last <= Len(log') /\ log'[state'[f].last].field = f
  BY <1>0, <1>2, <1>3, AppendedLog
<1>5. MemIs(c, n)
  <2>1. n \in Mems
    <3>1. Len(log) + 1 \in Nat
      BY LogLen
    <3>2. (IF m.op = "revert_event" THEN "revert_link" ELSE "put_state") \in PCs
      BY DEF PCs, OnField
    <3> QED BY <1>0, <3>1, <3>2 DEF Mems
  <2>2. mem' = [mem EXCEPT ![c] = n]
    BY <1>0 DEF insert_event, TypeOK, Mems
  <2> QED BY <2>1, <2>2 DEF MemIs
<1>6. mem' \in [Clients -> Mems] /\ mem'[c] = n /\ \A d \in Clients \ {c} : mem'[d] = mem[d]
  BY <1>5, MemChanges
<1>7. /\ n.op = m.op /\ n.todo = m.todo /\ n.target = m.target /\ n.job = m.job /\ n.seen = m.seen
      /\ n.event = Len(log) + 1 /\ n.pc = IF m.op = "revert_event" THEN "revert_link" ELSE "put_state"
  BY <1>0 DEF Mems
<1> HIDE DEF n
<1>8. TypeOK'
  BY <1>0, <1>4, <1>6 DEF TypeOK, core
<1>9. Field(c)' = Field(c) /\ Seen(c)' = Seen(c)
  BY <1>6, <1>7 DEF Field, Seen
<1>10. NextShown(c)' = NextShown(c)
  BY <1>1, <1>4, <1>6, <1>7, <1>8, <1>9, NextStays DEF OwnOK
<1>11. AllThere /\ AllThere'
  BY <1>0 DEF OwnOK, RowsAreRead, WithRows, OnField, AllThere
<1>12. Written(c).new = NextShown(c) /\ Written(c).field = Field(c) /\ Written(c).old = Show(Seen(c))
       /\ Written(c).type = EventType(m.op) /\ Written(c).job = m.job
  BY DEF Written
<1>13. EventsOfRows'
  <2> SUFFICES ASSUME NEW e \in 1 .. Len(log'), log'[e].type # "reject_multimodal_suggestion"
               PROVE  log'[e].old \in Shown /\ log'[e].new \in Shown
    BY <1>11 DEF EventsOfRows
  <2>1. CASE e = Len(log) + 1
    BY <1>1, <1>4, <1>12, <2>1, RowTypes
  <2>2. CASE e # Len(log) + 1
    <3>1. e \in 1 .. Len(log) /\ log'[e] = log[e]
      BY <1>4, <2>2, LogLen DEF Frame
    <3> QED BY <3>1 DEF EventsOfRows
  <2> QED BY <2>1, <2>2
<1>14. Asks(c)'
  BY <1>4, <1>6, <1>7, <1>8, AsksStay DEF OwnOK, OnJob
<1>15. Course(c)'
  BY <1>1, <1>6, <1>7 DEF Course, OnField
<1>16. RowsAreRead(c)'
  BY <1>0, <1>6, <1>7, <1>9, <1>11 DEF RowsAreRead, OwnOK, OnField
<1>17. EventIsWritten(c)'
  <2>1. Len(log) + 1 \in 1 .. Len(log')
    BY <1>4, LogLen
  <2>2. mem'[c].pc # "mark"
    BY <1>6, <1>7
  <2> QED BY <1>4, <1>6, <1>7, <1>9, <1>10, <1>12, <2>1, <2>2 DEF EventIsWritten
<1> QED BY <1>2, <1>3, <1>4, <1>6, <1>7, <1>8, <1>9, <1>12, <1>13, <1>14, <1>15, <1>16, <1>17 DEF Keeps, OwnOK

(* A row that is written: the fields of the others stay.                      *)
LEMMA WrittenRow ==
  ASSUME TypeOK, NEW f \in Fields, NEW r \in Shown, NEW n \in Nat, log' = log, suggestion' = suggestion,
         state' = [state EXCEPT ![f] = [value |-> r.value, status |-> r.status, locked |-> r.locked, last |-> n]],
         n # NoEvent => n <= Len(log) /\ log[n].field = f
  PROVE  /\ state' \in [Fields -> FieldRows \cup {Absent}] /\ Frame
         /\ state'[f] # Absent /\ Show(state'[f]) = r /\ state'[f].last = n
         /\ \A g \in Fields \ {f} : state'[g] = state[g]
         /\ \A g \in Fields : state'[g].last # NoEvent =>
              state'[g].last <= Len(log') /\ log'[state'[g].last].field = g
<1> DEFINE s == [value |-> r.value, status |-> r.status, locked |-> r.locked, last |-> n]
<1>1. s \in FieldRows /\ Show(s) = r /\ s.last = n
  BY RowTypes
<1> HIDE DEF s
<1>2. state' = [state EXCEPT ![f] = s]
  BY DEF s
<1>3. /\ state' \in [Fields -> FieldRows \cup {Absent}] /\ state'[f] = s
      /\ \A g \in Fields \ {f} : state'[g] = state[g]
  BY <1>1, <1>2 DEF TypeOK
<1>4. s # Absent
  BY <1>1, RowTypes
<1>5. Frame
  BY <1>3, <1>4, LogLen DEF Frame
<1>6. \A g \in Fields : state'[g].last # NoEvent =>
        state'[g].last <= Len(log') /\ log'[state'[g].last].field = g
  BY <1>1, <1>3 DEF TypeOK
<1> QED BY <1>1, <1>3, <1>4, <1>5, <1>6

(* What the steps on a row and its suggestion keep, given what they write.    *)
LEMMA PutStateKeeps ==
  ASSUME TypeOK, EventsOfRows, NEW c \in Clients, OwnOK(c), put_state(c)
  PROVE  /\ Keeps(c) /\ log' = log /\ Field(c) \in Fields /\ NextShown(c) \in Shown
         /\ state'[Field(c)] # Absent /\ Show(state'[Field(c)]) = NextShown(c)
         /\ state'[Field(c)].last = mem[c].event /\ mem[c].event # NoEvent
         /\ \A g \in Fields \ {Field(c)} : state'[g] = state[g]
<1> DEFINE m == mem[c]
           f == Field(c)
<1>0. /\ m.pc = "put_state" /\ m \in Mems
      /\ requests' \in 0 .. MaxRequests /\ crashes' \in 0 .. MaxCrashes
      /\ UNCHANGED <<log, suggestion, job, core, exports, export_count, scan, asked>>
  BY BoundsStay DEF put_state, TypeOK, bounds
<1>1. /\ f \in Fields /\ NextShown(c) \in Shown /\ m.op \in FieldOps \ {"revert_event"} /\ m.todo # <<>>
  BY <1>0, NextTypes DEF OnField, OwnOK, Course
<1>2. /\ m.event \in 1 .. Len(log) /\ m.event \in Nat \ {NoEvent} /\ log[m.event].field = f
      /\ log[m.event].type = EventType(m.op) /\ log[m.event].job = m.job
  BY <1>0, LogLen DEF OwnOK, EventIsWritten, NoEvent
<1>3. /\ state' \in [Fields -> FieldRows \cup {Absent}] /\ Frame
      /\ state'[f] # Absent /\ Show(state'[f]) = NextShown(c) /\ state'[f].last = m.event
      /\ \A g \in Fields \ {f} : state'[g] = state[g]
      /\ \A g \in Fields : state'[g].last # NoEvent =>
           state'[g].last <= Len(log') /\ log'[state'[g].last].field = g
  <2>1. state' = [state EXCEPT ![f] = [value |-> NextShown(c).value, status |-> NextShown(c).status,
                                       locked |-> NextShown(c).locked, last |-> m.event]]
    BY DEF put_state
  <2>2. m.event <= Len(log) /\ m.event \in Nat
    BY <1>2, LogLen
  <2> HIDE DEF m, f
  <2> QED BY <1>0, <1>1, <1>2, <2>1, <2>2, WrittenRow
<1>4. EventsOfRows'
  BY <1>0, <1>3, EventsStay
<1>5. AllThere'
  BY <1>0, <1>3 DEF OwnOK, RowsAreRead, WithRows, OnField, AllThere, Frame
<1>6. ASSUME NEW n, MemIs(c, n)
      PROVE  TypeOK' /\ mem'[c] = n /\ (OwnOK(c)' => Keeps(c))
  <2>1. mem' \in [Clients -> Mems] /\ mem'[c] = n /\ \A d \in Clients \ {c} : mem'[d] = mem[d]
    BY <1>6, MemChanges
  <2>2. TypeOK'
    BY <1>0, <1>3, <2>1 DEF TypeOK, core
  <2> QED BY <1>3, <1>4, <2>1, <2>2 DEF Keeps
<1>7. CASE m.op = "accept_suggestion"
  <2> DEFINE n == [m EXCEPT !.pc = "mark"]
  <2>1. MemIs(c, n)
    BY <1>7, GotoIs DEF put_state, PCs
  <2>2. n.pc = "mark" /\ n.op = m.op /\ n.todo = m.todo /\ n.target = m.target /\ n.job = m.job
    BY <1>0 DEF Mems
  <2> HIDE DEF n
  <2>3. TypeOK' /\ mem'[c] = n /\ (OwnOK(c)' => Keeps(c))
    BY <1>6, <2>1
  <2>4. Asks(c)'
    BY <1>3, <2>2, <2>3, AsksStay DEF OwnOK, OnJob
  <2>5. Course(c)' /\ RowsAreRead(c)'
    BY <1>7, <2>2, <2>3 DEF Course, RowsAreRead, WithRows, OnField
  <2>6. EventIsWritten(c)'
    <3>1. Field(c)' = f
      BY <2>2, <2>3 DEF Field
    <3>2. Resolution(m.op) = EventType(m.op)
      BY <1>7 DEF Resolution, EventType
    <3> QED BY <1>0, <1>2, <2>2, <2>3, <3>1, <3>2 DEF EventIsWritten, IsLogged, Resolution
  <2>7. Keeps(c)
    BY <2>3, <2>4, <2>5, <2>6 DEF OwnOK
  <2> QED BY <1>0, <1>1, <1>2, <1>3, <2>7
<1>8. CASE m.op # "accept_suggestion" /\ Len(m.todo) = 1
  <2>1. MemIs(c, Idle)
    BY <1>8, GotoIs DEF put_state, PCs
  <2>2. Keeps(c)
    BY <1>6, <2>1, RestIsOK
  <2> QED BY <1>0, <1>1, <1>2, <1>3, <2>2
<1>9. CASE m.op # "accept_suggestion" /\ Len(m.todo) # 1
  <2> DEFINE n == [m EXCEPT !.pc = "read_state", !.todo = Tail(m.todo), !.event = NoEvent, !.seen = Idle.seen]
  <2>1. Tail(m.todo) \in Seq(Fields) /\ Tail(m.todo) # <<>>
    <3> DEFINE q == m.todo
    <3>1. q \in Seq(Fields) /\ q # <<>> /\ Len(q) # 1
      BY <1>0, <1>1, <1>9 DEF Mems
    <3> HIDE DEF q
    <3>2. Len(q) \in Nat /\ Len(q) # 0 /\ Tail(q) \in Seq(Fields) /\ Len(Tail(q)) = Len(q) - 1
      BY <3>1
    <3>3. Len(Tail(q)) # Len(<<>>)
      BY <3>1, <3>2
    <3> QED BY <3>2, <3>3 DEF q
  <2>2. n \in Mems
    BY <1>0, <2>1, RestTypes DEF Mems, PCs, OnField, NoEvent
  <2>3. mem' = [mem EXCEPT ![c] = n]
    BY <1>0, <1>9 DEF put_state, TypeOK, Mems
  <2>4. n.pc = "read_state" /\ n.op = m.op /\ n.todo = Tail(m.todo) /\ n.job = m.job
    BY <1>0 DEF Mems
  <2>5. m.op \in FieldActions
    BY <1>1, <1>9 DEF FieldOps
  <2> HIDE DEF n
  <2>6. TypeOK' /\ mem'[c] = n /\ (OwnOK(c)' => Keeps(c))
    BY <1>6, <2>2, <2>3 DEF MemIs
  <2>7. Asks(c)'
    BY <2>1, <2>4, <2>5, <2>6 DEF Asks, OnJob, FieldActions
  <2>8. Course(c)' /\ RowsAreRead(c)' /\ EventIsWritten(c)'
    BY <1>1, <1>5, <2>4, <2>6 DEF Course, RowsAreRead, OnField, EventIsWritten
  <2>9. Keeps(c)
    BY <2>6, <2>7, <2>8 DEF OwnOK
  <2> QED BY <1>0, <1>1, <1>2, <1>3, <2>9
<1> QED BY <1>7, <1>8, <1>9

(* revert_put: the row shows what its event is going to say.                  *)
LEMMA RevertPutKeeps ==
  ASSUME TypeOK, EventsOfRows, NEW c \in Clients, OwnOK(c), revert_put(c)
  PROVE  /\ Keeps(c) /\ log' = log /\ Field(c) \in Fields
         /\ state'[Field(c)] # Absent /\ Show(state'[Field(c)]) = NextShown(c)
         /\ \A g \in Fields \ {Field(c)} : state'[g] = state[g]
         /\ mem'[c].pc = "insert_event" /\ mem'[c].op = "revert_event" /\ mem[c].op = "revert_event"
         /\ Field(c)' = Field(c) /\ NextShown(c)' = NextShown(c)
<1> DEFINE m == mem[c]
           f == Field(c)
           n == [m EXCEPT !.pc = "insert_event"]
<1>0. /\ m.pc = "revert_put" /\ m \in Mems
      /\ requests' \in 0 .. MaxRequests /\ crashes' \in 0 .. MaxCrashes
      /\ UNCHANGED <<log, suggestion, job, core, exports, export_count, scan, asked>>
  BY BoundsStay DEF revert_put, TypeOK, bounds
<1>1. /\ f \in Fields /\ NextShown(c) \in Shown /\ m.op = "revert_event" /\ m.todo # <<>> /\ m.op \in FieldOps
  BY <1>0, NextTypes DEF OnField, OwnOK, Course
<1>3. /\ state' \in [Fields -> FieldRows \cup {Absent}] /\ Frame
      /\ state'[f] # Absent /\ Show(state'[f]) = NextShown(c)
      /\ \A g \in Fields \ {f} : state'[g] = state[g]
      /\ \A g \in Fields : state'[g].last # NoEvent =>
           state'[g].last <= Len(log') /\ log'[state'[g].last].field = g
  <2>1. state' = [state EXCEPT ![f] = [value |-> NextShown(c).value, status |-> NextShown(c).status,
                                       locked |-> NextShown(c).locked, last |-> NoEvent]]
    BY DEF revert_put
  <2>2. NoEvent \in Nat
    BY DEF NoEvent
  <2> HIDE DEF m, f
  <2> QED BY <1>0, <1>1, <2>1, <2>2, WrittenRow
<1>4. EventsOfRows'
  BY <1>0, <1>3, EventsStay
<1>5. AllThere'
  BY <1>0, <1>3 DEF OwnOK, RowsAreRead, WithRows, OnField, AllThere, Frame
<1>6. MemIs(c, n)
  BY GotoIs DEF revert_put, PCs, OnField
<1>7. /\ n.pc = "insert_event" /\ n.op = m.op /\ n.todo = m.todo /\ n.target = m.target /\ n.job = m.job
      /\ n.seen = m.seen
  BY <1>0 DEF Mems
<1> HIDE DEF n
<1>8. mem' \in [Clients -> Mems] /\ mem'[c] = n /\ \A d \in Clients \ {c} : mem'[d] = mem[d]
  BY <1>6, MemChanges
<1>9. TypeOK'
  BY <1>0, <1>3, <1>8 DEF TypeOK, core
<1>10. Field(c)' = f /\ Seen(c)' = Seen(c)
  BY <1>7, <1>8 DEF Field, Seen
<1>11. NextShown(c)' = NextShown(c)
  BY <1>1, <1>3, <1>7, <1>8, <1>9, <1>10, NextStays DEF OwnOK
<1>12. Asks(c)'
  BY <1>3, <1>7, <1>8, <1>9, AsksStay DEF OwnOK, OnJob
<1>13. Course(c)' /\ EventIsWritten(c)'
  BY <1>1, <1>7, <1>8 DEF Course, OnField, EventIsWritten
<1>14. RowsAreRead(c)'
  BY <1>0, <1>5, <1>7, <1>8, <1>10 DEF RowsAreRead, OwnOK, OnField
<1> QED BY <1>0, <1>1, <1>3, <1>4, <1>7, <1>8, <1>9, <1>10, <1>11, <1>12, <1>13, <1>14 DEF Keeps, OwnOK

(* revert_link: the row names its event and shows what it showed.             *)
LEMMA RevertLinkKeeps ==
  ASSUME TypeOK, EventsOfRows, NEW c \in Clients, OwnOK(c), revert_link(c)
  PROVE  /\ Keeps(c) /\ log' = log /\ Field(c) \in Fields
         /\ state'[Field(c)].last # NoEvent /\ state[Field(c)] # Absent
         /\ \A g \in Fields : Show(state'[g]) = Show(state[g])
         /\ \A g \in Fields \ {Field(c)} : state'[g] = state[g]
<1> DEFINE m == mem[c]
           f == Field(c)
           s == [state[f] EXCEPT !.last = m.event]
<1>0. /\ m.pc = "revert_link" /\ m \in Mems /\ state \in [Fields -> FieldRows \cup {Absent}]
      /\ requests' \in 0 .. MaxRequests /\ crashes' \in 0 .. MaxCrashes
      /\ UNCHANGED <<log, suggestion, job, core, exports, export_count, scan, asked>>
  BY BoundsStay DEF revert_link, TypeOK, bounds
<1>1. f \in Fields
  BY <1>0, NextTypes DEF OnField
<1>2. m.event \in 1 .. Len(log) /\ m.event \in Nat \ {NoEvent} /\ log[m.event].field = f
  BY <1>0, LogLen DEF OwnOK, EventIsWritten, NoEvent
<1>3. state[f] # Absent /\ state[f] \in FieldRows
  BY <1>0, <1>1 DEF OwnOK, RowsAreRead, WithRows, OnField, AllThere
<1>4. s \in FieldRows /\ s.last = m.event /\ Show(s) = Show(state[f])
  BY <1>2, <1>3 DEF FieldRows, Show
<1>5. state' = [state EXCEPT ![f] = s]
  BY <1>0, <1>1, <1>3 DEF revert_link
<1> HIDE DEF s
<1>6. /\ state' \in [Fields -> FieldRows \cup {Absent}] /\ state'[f] = s
      /\ \A g \in Fields \ {f} : state'[g] = state[g]
  BY <1>0, <1>1, <1>4, <1>5
<1>7. Frame
  BY <1>0, <1>4, <1>6, LogLen, RowTypes DEF Frame
<1>8. \A g \in Fields : state'[g].last # NoEvent =>
           state'[g].last <= Len(log') /\ log'[state'[g].last].field = g
  <2>1. \A g \in Fields : state[g].last # NoEvent =>
             state[g].last <= Len(log) /\ log[state[g].last].field = g
    BY DEF TypeOK
  <2>2. Len(log) \in Nat /\ log' = log
    BY <1>0, LogLen
  <2> QED BY <1>2, <1>4, <1>6, <2>1, <2>2
<1>9. EventsOfRows'
  BY <1>0, <1>7, EventsStay
<1>10. MemIs(c, Idle)
  BY GotoIs DEF revert_link, PCs
<1>11. mem' \in [Clients -> Mems] /\ mem'[c] = Idle /\ \A d \in Clients \ {c} : mem'[d] = mem[d]
  BY <1>10, MemChanges
<1>12. TypeOK'
  BY <1>0, <1>6, <1>8, <1>11 DEF TypeOK, core
<1>13. OwnOK(c)'
  BY <1>11, RestIsOK
<1> QED BY <1>0, <1>1, <1>2, <1>3, <1>4, <1>6, <1>7, <1>9, <1>11, <1>12, <1>13 DEF Keeps

(* insert_reject: an event that concerns no row.                              *)
LEMMA InsertRejectKeeps ==
  ASSUME TypeOK, EventsOfRows, NEW c \in Clients, OwnOK(c), insert_reject(c)
  PROVE  /\ Keeps(c)
         /\ \E ev \in Events : log' = Append(log, ev) /\ ev.type = "reject_multimodal_suggestion"
<1> DEFINE m == mem[c]
           n == [m EXCEPT !.pc = "mark"]
           ev == [field |-> Field(c), type |-> "reject_multimodal_suggestion",
                  job |-> m.job, old |-> Show(Absent), new |-> Show(Absent)]
<1>0. /\ m.pc = "insert_reject" /\ m \in Mems
      /\ requests' \in 0 .. MaxRequests /\ crashes' \in 0 .. MaxCrashes
      /\ UNCHANGED <<state, suggestion, job, core, exports, export_count, scan, asked>>
  BY BoundsStay DEF insert_reject, TypeOK, bounds
<1>1. m.op = "reject_suggestion" /\ m.todo # <<>>
  BY <1>0 DEF OwnOK, Course, Asks
<1>2. Field(c) \in Fields
  BY <1>0, <1>1 DEF Mems, Field
<1>3. ev \in Events
  BY <1>0, <1>2 DEF Events, EventTypes, MultimodalEvents, Mems
<1>4. log' = Append(log, ev)
  BY DEF insert_reject
<1>5. ev.type = "reject_multimodal_suggestion" /\ ev.field = Field(c) /\ ev.job = m.job
  OBVIOUS
<1> HIDE DEF ev
<1>6. /\ log' \in Seq(Events) /\ Len(log') = Len(log) + 1 /\ log'[Len(log) + 1] = ev /\ Frame
      /\ \A f \in Fields : state'[f].last # NoEvent =>
           state'[f].last <= Len(log') /\ log'[state'[f].last].field = f
  BY <1>0, <1>3, <1>4, AppendedLog
<1>7. MemIs(c, n)
  BY GotoIs DEF insert_reject, PCs
<1>8. n.pc = "mark" /\ n.op = m.op /\ n.todo = m.todo /\ n.target = m.target /\ n.job = m.job
  BY <1>0 DEF Mems
<1> HIDE DEF n
<1>9. mem' \in [Clients -> Mems] /\ mem'[c] = n /\ \A d \in Clients \ {c} : mem'[d] = mem[d]
  BY <1>7, MemChanges
<1>10. TypeOK'
  BY <1>0, <1>6, <1>9 DEF TypeOK, core
<1>11. EventsOfRows'
  <2> SUFFICES ASSUME NEW e \in 1 .. Len(log'), log'[e].type # "reject_multimodal_suggestion"
               PROVE  AllThere' /\ log'[e].old \in Shown /\ log'[e].new \in Shown
    BY DEF EventsOfRows
  <2>1. e \in 1 .. Len(log) /\ log'[e] = log[e]
    BY <1>5, <1>6, LogLen DEF Frame
  <2> QED BY <1>0, <2>1 DEF EventsOfRows, AllThere
<1>12. Asks(c)'
  BY <1>6, <1>8, <1>9, <1>10, AsksStay DEF OwnOK, OnJob
<1>13. Course(c)' /\ RowsAreRead(c)'
  BY <1>1, <1>8, <1>9 DEF Course, RowsAreRead, WithRows, OnField
<1>14. EventIsWritten(c)'
  <2>1. Field(c)' = Field(c)
    BY <1>8, <1>9 DEF Field
  <2>2. Len(log) + 1 \in 1 .. Len(log') /\ Resolution(m.op) = "reject_multimodal_suggestion"
    BY <1>1, <1>6, LogLen DEF Resolution
  <2> QED BY <1>5, <1>6, <1>8, <1>9, <2>1, <2>2 DEF EventIsWritten, IsLogged, Resolution
<1> QED BY <1>3, <1>4, <1>5, <1>6, <1>9, <1>10, <1>11, <1>12, <1>13, <1>14 DEF Keeps, OwnOK

(* mark: one suggestion is resolved, and it stays a suggestion.               *)
LEMMA MarkKeeps ==
  ASSUME TypeOK, EventsOfRows, NEW c \in Clients, OwnOK(c), mark(c)
  PROVE  /\ Keeps(c) /\ log' = log /\ state' = state /\ mem[c].job \in Jobs /\ Field(c) \in Fields
         /\ \A j \in Jobs : Made(j)' = Made(j)
         /\ \A j \in Jobs, f \in Fields :
              \/ suggestion'[j][f].status = suggestion[j][f].status
              \/ /\ j = mem[c].job /\ f = Field(c)
                 /\ suggestion'[j][f].status =
                      IF mem[c].op = "accept_suggestion" THEN "accepted" ELSE "rejected"
<1> DEFINE m == mem[c]
           st == IF m.op = "accept_suggestion" THEN "accepted" ELSE "rejected"
           F == Field(c)
           old == suggestion[m.job][F]
<1>0. /\ m.pc = "mark" /\ m \in Mems /\ suggestion \in [Jobs -> [Fields -> Suggestions]]
      /\ requests' \in 0 .. MaxRequests /\ crashes' \in 0 .. MaxCrashes
      /\ UNCHANGED <<state, log, job, core, exports, export_count, scan, asked>>
  BY BoundsStay DEF mark, TypeOK, bounds
<1>1. m.op \in {"accept_suggestion", "reject_suggestion"} /\ m.todo # <<>> /\ m.job \in Jobs
      /\ old.status # "absent"
  BY <1>0 DEF OwnOK, Course, Asks, FieldOps
<1>2. F \in Fields
  BY <1>0, <1>1 DEF Mems, Field
<1>3. old \in Suggestions /\ [old EXCEPT !.status = st] \in Suggestions
      /\ [old EXCEPT !.status = st].status = st /\ [old EXCEPT !.status = st].value = old.value
  <2>1. old \in Suggestions
    BY <1>0, <1>1, <1>2
  <2>2. st \in {"accepted", "rejected"}
    OBVIOUS
  <2> HIDE DEF old, st
  <2> QED BY <2>1, <2>2 DEF Suggestions
<1>4. suggestion' = [suggestion EXCEPT ![m.job] = [suggestion[m.job] EXCEPT ![F] = [old EXCEPT !.status = st]]]
  BY <1>0, <1>1, <1>2 DEF mark
<1>5. suggestion' \in [Jobs -> [Fields -> Suggestions]]
  BY <1>0, <1>1, <1>2, <1>3, <1>4
<1>6. \A j \in Jobs, f \in Fields :
        suggestion'[j][f] = IF j = m.job /\ f = F THEN [old EXCEPT !.status = st] ELSE suggestion[j][f]
  BY <1>0, <1>1, <1>2, <1>4
<1>7. \A j \in Jobs, f \in Fields :
        /\ suggestion'[j][f].value = suggestion[j][f].value
        /\ suggestion'[j][f].status = "absent" <=> suggestion[j][f].status = "absent"
  <2> SUFFICES ASSUME NEW j \in Jobs, NEW f \in Fields
               PROVE  /\ suggestion'[j][f].value = suggestion[j][f].value
                      /\ suggestion'[j][f].status = "absent" <=> suggestion[j][f].status = "absent"
    OBVIOUS
  <2>1. CASE j = m.job /\ f = F
    <3>1. st # "absent"
      OBVIOUS
    <3>2. suggestion[j][f] = old
      BY <2>1
    <3> HIDE DEF old, st, m, F
    <3> QED BY <1>1, <1>3, <1>6, <2>1, <3>1, <3>2
  <2>2. CASE ~(j = m.job /\ f = F)
    BY <1>6, <2>2
  <2> QED BY <2>1, <2>2
<1>8. Frame /\ \A j \in Jobs : Made(j)' = Made(j)
  <2> HIDE DEF old, st, m, F
  <2>1. Frame
    BY <1>0, <1>7, LogLen DEF Frame
  <2>2. \A j \in Jobs : Made(j)' = Made(j)
    BY <1>7 DEF Made
  <2> QED BY <2>1, <2>2
<1>9. MemIs(c, Idle)
  BY GotoIs DEF mark, PCs
<1>10. mem' \in [Clients -> Mems] /\ mem'[c] = Idle /\ \A d \in Clients \ {c} : mem'[d] = mem[d]
  BY <1>9, MemChanges
<1>11. TypeOK'
  BY <1>0, <1>5, <1>10 DEF TypeOK, core
<1>12. EventsOfRows' /\ OwnOK(c)'
  BY <1>0, <1>8, <1>10, EventsStay, RestIsOK
<1> QED BY <1>0, <1>1, <1>2, <1>3, <1>6, <1>8, <1>10, <1>11, <1>12 DEF Keeps

(* A step that leaves rows, events and suggestions alone.                     *)
LEMMA SideKeeps ==
  ASSUME TypeOK, EventsOfRows, NEW c \in Clients, NEW m, MemIs(c, m), UNCHANGED <<state, log, suggestion>>,
         mem' \in [Clients -> Mems] => TypeOK'
  PROVE  /\ TypeOK' /\ Frame /\ EventsOfRows' /\ mem'[c] = m
         /\ \A d \in Clients \ {c} : mem'[d] = mem[d]
         /\ OwnOK(c)' => Keeps(c)
<1>1. mem' \in [Clients -> Mems] /\ mem'[c] = m /\ \A d \in Clients \ {c} : mem'[d] = mem[d]
  BY MemChanges
<1>2. TypeOK'
  BY <1>1
<1>3. Frame
  BY LogLen DEF Frame
<1>4. EventsOfRows'
  BY <1>3, EventsStay
<1> QED BY <1>1, <1>2, <1>3, <1>4 DEF Keeps

-----------------------------------------------------------------------------
(* Exports.                                                                   *)

(* What an export says of rows that are all there.                            *)
LEMMA ExportTypes ==
  ASSUME NEW rows \in [Fields -> FieldRows]
  PROVE  /\ Export(rows) \in ExportsOfRows
         /\ Export(rows).statuses \cap {"unreviewed", "rerun_required"} # {} =>
              Export(rows).unreviewed_fields_present \/ "multimodal_pending" \in Export(rows).statuses
<1> DEFINE statuses == {rows[f].status : f \in Fields}
           values == {rows[f].value : f \in {g \in Fields : rows[g].status # "rejected"}}
           present == ReviewStatus(statuses) \in {"unreviewed", "partially_reviewed"}
<1>1. statuses \subseteq FieldStatuses /\ values \subseteq Values /\ present \in BOOLEAN
  BY DEF FieldRows
<1>2. statuses \cap {"unreviewed", "rerun_required"} # {} => present \/ "multimodal_pending" \in statuses
  <2> HIDE DEF statuses
  <2> QED BY DEF ReviewStatus
<1>3. Export(rows) = [unreviewed_fields_present |-> present, statuses |-> statuses, values |-> values]
  BY DEF Export
<1> HIDE DEF statuses, values, present
<1> QED BY <1>1, <1>2, <1>3 DEF ExportsOfRows

(* read_rows: every row that an export reads is there.                        *)
LEMMA ReadRowsKeeps ==
  ASSUME TypeOK, EventsOfRows, NEW c \in Clients, OwnOK(c), read_rows(c)
  PROVE  Keeps(c) /\ mem[c].pc = "read_rows" /\ mem'[c].pc = "insert_export"
<1> DEFINE m == mem[c]
           n == [m EXCEPT !.pc = "insert_export", !.seen = state]
<1>0. /\ m.pc = "read_rows" /\ m \in Mems /\ state \in [Fields -> FieldRows \cup {Absent}]
      /\ requests' \in 0 .. MaxRequests /\ crashes' \in 0 .. MaxCrashes
      /\ UNCHANGED <<Tables, asked>>
  BY BoundsStay DEF read_rows, TypeOK, bounds, Tables
<1>1. n \in Mems
  BY <1>0 DEF Mems, PCs
<1>2. MemIs(c, n)
  BY <1>0, <1>1 DEF read_rows, MemIs, TypeOK, Mems
<1>3. n.pc = "insert_export" /\ n.seen = state /\ n.op = m.op /\ n.todo = m.todo /\ n.target = m.target
      /\ n.job = m.job
  BY <1>0 DEF Mems
<1> HIDE DEF n
<1>4. TypeOK' /\ Frame /\ mem'[c] = n /\ (OwnOK(c)' => Keeps(c))
  BY <1>0, <1>2, MoveKeeps
<1>5. AllThere /\ AllThere'
  BY <1>0 DEF OwnOK, RowsAreRead, WithRows, AllThere, Tables
<1>6. RowsAreRead(c)'
  BY <1>3, <1>4, <1>5 DEF RowsAreRead, AllThere, OnField
<1>7. Asks(c)'
  BY <1>3, <1>4, AsksStay DEF OwnOK, OnJob
<1>8. Course(c)' /\ EventIsWritten(c)'
  BY <1>3, <1>4 DEF Course, OnField, EventIsWritten
<1> QED BY <1>0, <1>3, <1>4, <1>6, <1>7, <1>8 DEF OwnOK

(* insert_export: one more export, of rows that are there.                    *)
LEMMA InsertExportKeeps ==
  ASSUME TypeOK, EventsOfRows, NEW c \in Clients, OwnOK(c), insert_export(c)
  PROVE  /\ Keeps(c) /\ mem[c].pc = "insert_export" /\ mem'[c].pc = "export_get"
         /\ mem[c].seen \in [Fields -> FieldRows] /\ Len(exports') = Len(exports) + 1
         /\ exports' = Append(exports, Export(mem[c].seen))
<1> DEFINE m == mem[c]
           n == [Idle EXCEPT !.op = "export", !.pc = "export_get"]
<1>0. /\ m.pc = "insert_export" /\ m \in Mems /\ exports \in Seq(ExportsOfRows)
      /\ requests' \in 0 .. MaxRequests /\ crashes' \in 0 .. MaxCrashes
      /\ UNCHANGED <<state, log, suggestion, job, core, export_count, scan, asked>>
      /\ exports' = Append(exports, Export(m.seen)) /\ mem' = [mem EXCEPT ![c] = n]
  BY BoundsStay DEF insert_export, TypeOK, bounds
<1>1. m.seen \in [Fields -> FieldRows]
  BY <1>0 DEF OwnOK, RowsAreRead, Mems
<1>2. Export(m.seen) \in ExportsOfRows
  BY <1>1, ExportTypes
<1>3. exports' \in Seq(ExportsOfRows) /\ Len(exports') = Len(exports) + 1
  <2> DEFINE e == Export(m.seen)
  <2>1. e \in ExportsOfRows /\ exports' = Append(exports, e)
    BY <1>0, <1>2
  <2> HIDE DEF e
  <2> QED BY <1>0, <2>1
<1>4. n \in Mems /\ n.pc = "export_get" /\ n.op = "export"
  BY RestTypes DEF Mems, PCs, Ops
<1>5. MemIs(c, n)
  BY <1>0, <1>4 DEF MemIs
<1> HIDE DEF n
<1>6. mem' \in [Clients -> Mems] => TypeOK'
  BY <1>0, <1>3 DEF TypeOK, core
<1>7. mem'[c] = n /\ (OwnOK(c)' => Keeps(c))
  BY <1>0, <1>5, <1>6, SideKeeps
<1>8. Asks(c)' /\ Course(c)'
  BY <1>4, <1>7 DEF Asks, Course, FieldOps, FieldActions, OnJob, OnField
<1>9. OwnOK(c)'
  BY <1>4, <1>7, <1>8, QuietIsOK DEF WithRows, OnField
<1> QED BY <1>0, <1>1, <1>3, <1>4, <1>7, <1>9

(* export_get: the count is read.                                             *)
LEMMA ExportGetKeeps ==
  ASSUME TypeOK, EventsOfRows, NEW c \in Clients, OwnOK(c), export_get(c)
  PROVE  Keeps(c) /\ mem[c].pc = "export_get" /\ mem'[c].pc = "export_put" /\ mem'[c].target = export_count
<1> DEFINE m == mem[c]
           n == [m EXCEPT !.pc = "export_put", !.target = export_count]
<1>0. /\ m.pc = "export_get" /\ m \in Mems /\ export_count \in Nat
      /\ requests' \in 0 .. MaxRequests /\ crashes' \in 0 .. MaxCrashes
      /\ UNCHANGED <<Tables, asked>>
  BY BoundsStay DEF export_get, TypeOK, bounds, Tables
<1>1. n \in Mems
  BY <1>0 DEF Mems, PCs
<1>2. MemIs(c, n)
  BY <1>0, <1>1 DEF export_get, MemIs, TypeOK, Mems
<1>3. n.pc = "export_put" /\ n.op = m.op /\ n.target = export_count
  BY <1>0 DEF Mems
<1> HIDE DEF n
<1>4. TypeOK' /\ mem'[c] = n /\ (OwnOK(c)' => Keeps(c))
  BY <1>0, <1>2, MoveKeeps
<1>5. m.op = "export"
  BY <1>0 DEF OwnOK, Course
<1>6. Asks(c)' /\ Course(c)'
  BY <1>3, <1>4, <1>5 DEF Asks, Course, FieldOps, FieldActions, OnJob, OnField
<1>7. OwnOK(c)'
  BY <1>3, <1>4, <1>6, QuietIsOK DEF WithRows, OnField
<1> QED BY <1>0, <1>3, <1>4, <1>7

(* export_put: the count that was read goes up by one.                        *)
LEMMA ExportPutKeeps ==
  ASSUME TypeOK, EventsOfRows, NEW c \in Clients, OwnOK(c), export_put(c)
  PROVE  /\ Keeps(c) /\ mem[c].pc = "export_put" /\ mem'[c].pc = "idle"
         /\ export_count' = mem[c].target + 1
<1> DEFINE m == mem[c]
<1>0. /\ m.pc = "export_put" /\ m \in Mems /\ m.target \in Nat /\ export_count' = m.target + 1
      /\ requests' \in 0 .. MaxRequests /\ crashes' \in 0 .. MaxCrashes
      /\ UNCHANGED <<state, log, suggestion, job, core, exports, scan, asked>>
  BY BoundsStay DEF export_put, Exported, TypeOK, bounds, Mems
<1>1. MemIs(c, Idle)
  BY GotoIs DEF export_put, PCs
<1>2. mem' \in [Clients -> Mems] => TypeOK'
  BY <1>0 DEF TypeOK, core
<1>3. mem'[c] = Idle /\ (OwnOK(c)' => Keeps(c))
  BY <1>0, <1>1, <1>2, SideKeeps
<1> QED BY <1>0, <1>3, RestIsOK, RestTypes

-----------------------------------------------------------------------------
(* Starting and cancelling review jobs.                                       *)

(* A request whose next step is on jobs.                                      *)
LEMMA OnJobsIsOK ==
  ASSUME TypeOK, TypeOK', Frame, NEW c \in Clients, OwnOK(c), mem'[c].op = mem[c].op,
         mem'[c].todo = mem[c].todo, mem'[c].target = mem[c].target, mem'[c].job = mem[c].job,
         mem'[c].pc \in OnJob, mem[c].job \in Jobs
  PROVE  OwnOK(c)'
<1>1. Asks(c)'
  BY AsksStay DEF OwnOK
<1>2. Course(c)'
  BY DEF Course, OnJob, OnField
<1> QED BY <1>1, <1>2, QuietIsOK DEF OnJob, WithRows, OnField

(* select_active: nothing is written.                                         *)
LEMMA SelectActiveKeeps ==
  ASSUME TypeOK, EventsOfRows, NEW c \in Clients, OwnOK(c), select_active(c)
  PROVE  Keeps(c) /\ mem'[c].pc \notin {"export_get", "export_put"}
<1> DEFINE m == mem[c]
<1>0. /\ m.pc = "select_active" /\ m \in Mems
      /\ requests' \in 0 .. MaxRequests /\ crashes' \in 0 .. MaxCrashes
      /\ UNCHANGED <<Tables, asked>>
  BY BoundsStay DEF select_active, TypeOK, bounds, Tables
<1>1. CASE Goto(c, "idle")
  <2>1. MemIs(c, Idle)
    BY <1>1, GotoIs DEF PCs
  <2>2. mem'[c] = Idle
    BY <2>1, MemChanges
  <2> QED BY <1>0, <1>1, <2>2, LeaveKeeps, RestTypes
<1>2. CASE Goto(c, "insert_job")
  <2> DEFINE n == [m EXCEPT !.pc = "insert_job"]
  <2>1. MemIs(c, n)
    BY <1>2, GotoIs DEF PCs
  <2>2. n.pc = "insert_job" /\ n.op = m.op /\ n.todo = m.todo /\ n.target = m.target /\ n.job = m.job
    BY <1>0 DEF Mems
  <2> HIDE DEF n
  <2>3. TypeOK' /\ Frame /\ mem'[c] = n /\ (OwnOK(c)' => Keeps(c))
    BY <1>0, <2>1, MoveKeeps
  <2>4. Asks(c)'
    BY <2>2, <2>3, AsksStay DEF OwnOK, OnJob
  <2>5. Course(c)'
    BY <1>0, <2>2, <2>3 DEF Course, OnField, OwnOK
  <2> QED BY <2>2, <2>3, <2>4, <2>5, QuietIsOK DEF WithRows, OnField
<1> QED BY <1>1, <1>2 DEF select_active

(* Review jobs change by one column at a time.                                *)
LEMMA JobTypes ==
  ASSUME NEW r \in ReviewJobs
  PROVE  /\ \A st \in ACTIVE_JOB_STATUSES \cup {"completed", "failed", "cancelled"} :
              LET s == [r EXCEPT !.status = st]
              IN  s \in ReviewJobs /\ s.status = st /\ s.count = r.count
         /\ LET s == [r EXCEPT !.linked = TRUE]
            IN  s \in ReviewJobs /\ s.status = r.status /\ s.count = r.count
BY DEF ReviewJobs

(* The status of a job is written, and nothing else of it.                    *)
JobGets(j, st) ==
  /\ job' \in [Jobs -> ReviewJobs] /\ job'[j].status = st /\ job'[j].count = job[j].count
  /\ \A k \in Jobs \ {j} : job'[k] = job[k]

(* What writing the status of a review job leaves alone.                      *)
LEMMA JobGetsIt ==
  ASSUME TypeOK, NEW j \in Jobs, NEW st \in ACTIVE_JOB_STATUSES \cup {"completed", "failed", "cancelled"},
         job' = [job EXCEPT ![j].status = st]
  PROVE  JobGets(j, st)
<1> DEFINE s == [job[j] EXCEPT !.status = st]
<1>1. job \in [Jobs -> ReviewJobs]
  BY DEF TypeOK
<1>2. s \in ReviewJobs /\ s.status = st /\ s.count = job[j].count
  BY <1>1, JobTypes
<1>3. job' = [job EXCEPT ![j] = s]
  BY <1>1
<1> HIDE DEF s
<1> QED BY <1>1, <1>2, <1>3 DEF JobGets

(* insert_job: a job that was not there is queued.                            *)
LEMMA InsertJobKeeps ==
  ASSUME TypeOK, EventsOfRows, NEW c \in Clients, OwnOK(c), insert_job(c)
  PROVE  /\ Keeps(c) /\ mem[c].pc = "insert_job" /\ mem'[c].pc = "enqueue"
         /\ NewJob \in Jobs /\ job[NewJob].status = "absent" /\ JobGets(NewJob, "queued")
<1> DEFINE m == mem[c]
           n == [m EXCEPT !.pc = "enqueue", !.job = NewJob]
<1>0. /\ m.pc = "insert_job" /\ m \in Mems /\ job \in [Jobs -> ReviewJobs]
      /\ requests' \in 0 .. MaxRequests /\ crashes' \in 0 .. MaxCrashes
      /\ UNCHANGED <<state, log, suggestion, core, exports, export_count, scan, asked>>
  BY BoundsStay DEF insert_job, TypeOK, bounds
<1>1. NewJob \in Jobs /\ job[NewJob].status = "absent"
  BY DEF insert_job, NewJob, Unused
<1>2. JobGets(NewJob, "queued")
  BY <1>1, JobGetsIt DEF insert_job, ACTIVE_JOB_STATUSES
<1>3. n \in Mems
  BY <1>0, <1>1 DEF Mems, PCs, OnJob
<1>4. MemIs(c, n)
  BY <1>0, <1>3 DEF insert_job, MemIs, TypeOK, Mems
<1>5. n.pc = "enqueue" /\ n.op = m.op /\ n.todo = m.todo /\ n.target = m.target /\ n.job = NewJob
  BY <1>0 DEF Mems
<1> HIDE DEF n
<1>6. mem' \in [Clients -> Mems] => TypeOK'
  BY <1>0, <1>2 DEF TypeOK, core, JobGets
<1>7. TypeOK' /\ Frame /\ mem'[c] = n /\ (OwnOK(c)' => Keeps(c))
  BY <1>0, <1>4, <1>6, SideKeeps
<1>8. m.op = "start_job"
  BY <1>0 DEF OwnOK, Course
<1>9. Asks(c)' /\ Course(c)'
  BY <1>1, <1>5, <1>7, <1>8 DEF Asks, Course, FieldOps, FieldActions, OnJob, OnField
<1>10. OwnOK(c)'
  BY <1>5, <1>7, <1>9, QuietIsOK DEF WithRows, OnField
<1> QED BY <1>0, <1>1, <1>2, <1>5, <1>7, <1>10

(* Where a request goes on to after a step on a job.                          *)
LEMMA GoesOn ==
  ASSUME TypeOK, EventsOfRows, NEW c \in Clients, OwnOK(c), NEW pc \in OnJob, Goto(c, pc),
         mem[c].job \in Jobs, UNCHANGED <<state, log, suggestion>>,
         mem' \in [Clients -> Mems] => TypeOK'
  PROVE  Keeps(c) /\ mem'[c].pc = pc
<1> DEFINE m == mem[c]
           n == [m EXCEPT !.pc = pc]
<1>0. m \in Mems /\ pc # "idle" /\ pc \in PCs
  BY DEF TypeOK, OnJob, PCs
<1>1. MemIs(c, n)
  BY <1>0, GotoIs
<1>2. n.pc = pc /\ n.op = m.op /\ n.todo = m.todo /\ n.target = m.target /\ n.job = m.job
  BY <1>0 DEF Mems
<1> HIDE DEF n
<1>3. TypeOK' /\ Frame /\ mem'[c] = n /\ (OwnOK(c)' => Keeps(c))
  BY <1>1, SideKeeps
<1> QED BY <1>2, <1>3, OnJobsIsOK

(* A request that is over after a step that leaves rows and events alone.     *)
LEMMA Goes ==
  ASSUME TypeOK, EventsOfRows, NEW c \in Clients, OwnOK(c), Goto(c, "idle"),
         UNCHANGED <<state, log, suggestion>>, mem' \in [Clients -> Mems] => TypeOK'
  PROVE  Keeps(c) /\ mem'[c].pc = "idle"
<1>1. MemIs(c, Idle)
  BY GotoIs DEF PCs
<1>2. mem'[c] = Idle /\ (OwnOK(c)' => Keeps(c))
  BY <1>1, SideKeeps
<1> QED BY <1>2, RestIsOK, RestTypes

(* enqueue: the core job was not there.                                       *)
LEMMA EnqueueKeeps ==
  ASSUME TypeOK, EventsOfRows, NEW c \in Clients, OwnOK(c), enqueue(c)
  PROVE  /\ Keeps(c) /\ mem[c].pc = "enqueue" /\ mem'[c].pc = "link"
         /\ mem[c].job \in Jobs /\ life[mem[c].job] = "absent"
         /\ life' = [life EXCEPT ![mem[c].job] = "pending"]
<1> DEFINE m == mem[c]
<1>0. /\ m.pc = "enqueue" /\ Goto(c, "link") /\ life[m.job] = "absent"
      /\ life' = [life EXCEPT ![m.job] = "pending"] /\ attempts' = attempts
      /\ requests' \in 0 .. MaxRequests /\ crashes' \in 0 .. MaxCrashes
      /\ UNCHANGED <<state, log, suggestion, job, exports, export_count, scan, asked>>
  BY BoundsStay DEF enqueue, bounds, Queue!Submit
<1>1. m.job \in Jobs
  BY <1>0 DEF OwnOK, Asks, OnJob
<1>2. mem' \in [Clients -> Mems] => TypeOK'
  BY <1>0, <1>1 DEF TypeOK
<1> QED BY <1>0, <1>1, <1>2, GoesOn DEF OnJob

(* link: no status and no count changes.                                      *)
LEMMA LinkKeeps ==
  ASSUME TypeOK, EventsOfRows, NEW c \in Clients, OwnOK(c), link(c)
  PROVE  /\ Keeps(c) /\ mem[c].pc = "link" /\ mem'[c].pc = "idle"
         /\ \A j \in Jobs : job'[j].status = job[j].status /\ job'[j].count = job[j].count
<1> DEFINE m == mem[c]
           s == [job[m.job] EXCEPT !.linked = TRUE]
<1>0. /\ m.pc = "link" /\ Goto(c, "idle") /\ job \in [Jobs -> ReviewJobs]
      /\ requests' \in 0 .. MaxRequests /\ crashes' \in 0 .. MaxCrashes
      /\ UNCHANGED <<state, log, suggestion, core, exports, export_count, scan, asked>>
  BY BoundsStay DEF link, bounds, TypeOK
<1>1. m.job \in Jobs
  BY <1>0 DEF OwnOK, Asks, OnJob
<1>2. s \in ReviewJobs /\ s.status = job[m.job].status /\ s.count = job[m.job].count
  BY <1>0, <1>1, JobTypes
<1>3. job' = [job EXCEPT ![m.job] = s]
  BY <1>0, <1>1 DEF link
<1> HIDE DEF s
<1>4. job' \in [Jobs -> ReviewJobs] /\ \A j \in Jobs : job'[j].status = job[j].status /\ job'[j].count = job[j].count
  BY <1>0, <1>1, <1>2, <1>3
<1>5. mem' \in [Clients -> Mems] => TypeOK'
  BY <1>0, <1>4 DEF TypeOK, core
<1> QED BY <1>0, <1>4, <1>5, Goes

(* cancel_put: the status, and no count.                                      *)
LEMMA CancelPutKeeps ==
  ASSUME TypeOK, EventsOfRows, NEW c \in Clients, OwnOK(c), cancel_put(c)
  PROVE  /\ Keeps(c) /\ mem[c].pc \in {"cancel_queued", "cancelling"} /\ mem'[c].pc = "core_cancel"
         /\ mem[c].job \in Jobs /\ \E st \in {"cancelled", "cancelling"} : JobGets(mem[c].job, st)
<1> DEFINE m == mem[c]
           st == IF m.pc = "cancel_queued" THEN "cancelled" ELSE "cancelling"
<1>0. /\ m.pc \in {"cancel_queued", "cancelling"} /\ Goto(c, "core_cancel")
      /\ requests' \in 0 .. MaxRequests /\ crashes' \in 0 .. MaxCrashes
      /\ UNCHANGED <<state, log, suggestion, core, exports, export_count, scan, asked>>
      /\ job' = [job EXCEPT ![m.job].status = st]
  BY BoundsStay DEF cancel_put, bounds
<1>1. m.job \in Jobs
  BY <1>0 DEF OwnOK, Asks, OnJob
<1>2. st \in {"cancelled", "cancelling"}
  OBVIOUS
<1> HIDE DEF st
<1>3. JobGets(m.job, st)
  BY <1>0, <1>1, <1>2, JobGetsIt DEF ACTIVE_JOB_STATUSES
<1>4. mem' \in [Clients -> Mems] => TypeOK'
  BY <1>0, <1>3 DEF TypeOK, core, JobGets
<1>5. Keeps(c) /\ mem'[c].pc = "core_cancel"
  BY <1>0, <1>1, <1>4, GoesOn DEF OnJob
<1> QED BY <1>0, <1>1, <1>2, <1>3, <1>5

(* core_cancel: a core job is settled, or nothing happens.                    *)
LEMMA CoreCancelKeeps ==
  ASSUME TypeOK, EventsOfRows, NEW c \in Clients, OwnOK(c), core_cancel(c)
  PROVE  /\ Keeps(c) /\ mem[c].pc = "core_cancel" /\ mem'[c].pc = "idle"
         /\ \A j \in Jobs : life'[j] = life[j] \/ life'[j] = "settled"
<1> DEFINE m == mem[c]
<1>0. /\ m.pc = "core_cancel" /\ Goto(c, "idle")
      /\ requests' \in 0 .. MaxRequests /\ crashes' \in 0 .. MaxCrashes
      /\ UNCHANGED <<state, log, suggestion, job, attempts, exports, export_count, scan, asked>>
      /\ life' = life \/ life' = [life EXCEPT ![m.job] = "settled"]
      /\ life \in [Jobs -> {"absent", "pending", "running", "settled"}]
  BY BoundsStay DEF core_cancel, bounds, TypeOK
<1>1. /\ life' \in [Jobs -> {"absent", "pending", "running", "settled"}]
      /\ \A j \in Jobs : life'[j] = life[j] \/ life'[j] = "settled"
  BY <1>0
<1>2. mem' \in [Clients -> Mems] => TypeOK'
  BY <1>0, <1>1 DEF TypeOK
<1> QED BY <1>0, <1>1, <1>2, Goes

-----------------------------------------------------------------------------
(* Workers and crashes.                                                       *)

(* A step that no request takes part in.                                      *)
Works == TypeOK' /\ Frame /\ EventsOfRows' /\ UNCHANGED <<state, log, mem, exports, export_count>>

(* A step of a worker that takes no suggestion away.                          *)
LEMMA WorksSo ==
  ASSUME TypeOK, EventsOfRows, TypeOK', UNCHANGED <<state, log, mem, exports, export_count>>,
         \A j \in Jobs, f \in Fields : suggestion[j][f].status # "absent" =>
           suggestion'[j][f].status # "absent" /\ suggestion'[j][f].value = suggestion[j][f].value
  PROVE  Works
<1>1. Frame
  BY LogLen DEF Frame
<1> QED BY <1>1, EventsStay DEF Works

(* A worker that goes on.                                                     *)
LEMMA ScanTypes ==
  ASSUME NEW s \in Scans
  PROVE  /\ [s EXCEPT !.pc = "set_running"] \in Scans /\ [s EXCEPT !.pc = "set_running"].pc = "set_running"
         /\ \A n \in 1 .. NFields + 1 :
              LET t == [s EXCEPT !.next = n] IN t \in Scans /\ t.pc = s.pc /\ t.next = n
BY DEF Scans

(* A worker that turns to something else.                                     *)
LEMMA ScanGets ==
  ASSUME TypeOK, NEW j \in Jobs, NEW s \in Scans, scan' = [scan EXCEPT ![j] = s]
  PROVE  scan' \in [Jobs -> Scans] /\ scan'[j] = s /\ \A k \in Jobs \ {j} : scan'[k] = scan[k]
BY DEF TypeOK

(* dispatch: the worker takes a job that is pending.                          *)
LEMMA DispatchWorks ==
  ASSUME TypeOK, EventsOfRows, NEW j \in Jobs, dispatch(j)
  PROVE  /\ Works /\ UNCHANGED <<suggestion, job>> /\ life[j] = "pending" /\ life'[j] = "running"
         /\ scan'[j].pc = "set_running" /\ crashes' = crashes
         /\ \A k \in Jobs \ {j} : life'[k] = life[k] /\ scan'[k] = scan[k]
<1> DEFINE s == [scan[j] EXCEPT !.pc = "set_running"]
<1>0. /\ life[j] = "pending" /\ life' = [life EXCEPT ![j] = "running"]
      /\ attempts' = [attempts EXCEPT ![j] = @ + 1]
      /\ UNCHANGED <<state, log, suggestion, job, exports, export_count, mem, asked, requests, crashes>>
      /\ requests' \in 0 .. MaxRequests /\ crashes' \in 0 .. MaxCrashes
  BY BoundsStay DEF dispatch, Queue!Dispatch, bounds
<1>1. scan[j] \in Scans /\ scan' = [scan EXCEPT ![j] = s]
  BY DEF dispatch, TypeOK
<1>2. s \in Scans /\ s.pc = "set_running"
  BY <1>1, ScanTypes
<1> HIDE DEF s
<1>3. scan' \in [Jobs -> Scans] /\ scan'[j] = s /\ \A k \in Jobs \ {j} : scan'[k] = scan[k]
  BY <1>1, <1>2, ScanGets
<1>4. /\ life' \in [Jobs -> {"absent", "pending", "running", "settled"}] /\ attempts' \in [Jobs -> Nat]
      /\ life'[j] = "running" /\ \A k \in Jobs \ {j} : life'[k] = life[k]
  BY <1>0 DEF TypeOK
<1>5. TypeOK'
  BY <1>0, <1>3, <1>4 DEF TypeOK
<1>6. Works
  BY <1>0, <1>5, WorksSo
<1> QED BY <1>0, <1>2, <1>3, <1>4, <1>6

(* set_running: the worker begins with the first field.                       *)
LEMMA SetRunningWorks ==
  ASSUME TypeOK, EventsOfRows, NEW j \in Jobs, set_running(j)
  PROVE  /\ Works /\ UNCHANGED <<suggestion, life>> /\ scan[j].pc = "set_running" /\ JobGets(j, "running")
         /\ scan'[j].pc = "scan" /\ scan'[j].next = 1 /\ crashes' = crashes
         /\ \A k \in Jobs \ {j} : scan'[k] = scan[k]
<1> DEFINE s == [pc |-> "scan", next |-> FirstField, rows |-> [f \in Fields |-> state[f].value]]
<1>0. /\ scan[j].pc = "set_running" /\ job' = [job EXCEPT ![j].status = "running"]
      /\ scan' = [scan EXCEPT ![j] = s]
      /\ UNCHANGED <<state, log, suggestion, life, attempts, exports, export_count, mem, asked, requests, crashes>>
      /\ requests' \in 0 .. MaxRequests /\ crashes' \in 0 .. MaxCrashes
  BY BoundsStay DEF set_running, bounds, core
<1>1. s \in Scans /\ s.pc = "scan" /\ s.next = 1
  <2>1. \A f \in Fields : state[f].value \in Values
    BY DEF TypeOK, FieldRows, Absent, Values
  <2>2. 1 \in 1 .. NFields + 1
    BY FieldsAre
  <2> QED BY <2>1, <2>2 DEF Scans, FirstField
<1> HIDE DEF s
<1>2. scan' \in [Jobs -> Scans] /\ scan'[j] = s /\ \A k \in Jobs \ {j} : scan'[k] = scan[k]
  BY <1>0, <1>1, ScanGets
<1>3. JobGets(j, "running")
  BY <1>0, JobGetsIt DEF ACTIVE_JOB_STATUSES
<1>4. TypeOK'
  BY <1>0, <1>2, <1>3 DEF TypeOK, JobGets
<1>5. Works
  BY <1>0, <1>4, WorksSo
<1> QED BY <1>0, <1>1, <1>2, <1>3, <1>5

(* The worker is done with a job, and has said how it ended.                  *)
LEMMA EndsWorks ==
  ASSUME TypeOK, EventsOfRows, NEW j \in Jobs, NEW st \in {"completed", "failed", "cancelled"}, Ends(j, st),
         UNCHANGED <<state, log, suggestion, core, exports, export_count, mem, asked, bounds>>
  PROVE  /\ Works /\ UNCHANGED <<suggestion, life>> /\ JobGets(j, st) /\ scan'[j].pc = "done"
         /\ crashes' = crashes /\ \A k \in Jobs \ {j} : scan'[k] = scan[k]
<1> DEFINE s == [NotScanning EXCEPT !.pc = "done"]
<1>1. s \in Scans /\ s.pc = "done"
  BY RestTypes
<1>2. scan' = [scan EXCEPT ![j] = s] /\ job' = [job EXCEPT ![j].status = st]
  BY DEF Ends
<1> HIDE DEF s
<1>3. scan' \in [Jobs -> Scans] /\ scan'[j] = s /\ \A k \in Jobs \ {j} : scan'[k] = scan[k]
  BY <1>1, <1>2, ScanGets
<1>4. JobGets(j, st)
  BY <1>2, JobGetsIt
<1>5. TypeOK'
  BY <1>3, <1>4, BoundsStay DEF TypeOK, JobGets, core
<1>6. Works
  BY <1>5, WorksSo
<1> QED BY <1>1, <1>3, <1>4, <1>6 DEF core, bounds

(* Sets of fields are finite, and have no more elements than there are fields.*)
LEMMA FieldsCounted ==
  /\ IsFiniteSet(Fields) /\ Cardinality(Fields) = NFields
  /\ \A S \in SUBSET Fields : IsFiniteSet(S) /\ Cardinality(S) \in 0 .. NFields
<1>1. IsFiniteSet(Fields) /\ Cardinality(Fields) = NFields
  BY FieldsAre, FS_Interval DEF Fields
<1>2. ASSUME NEW S \in SUBSET Fields
      PROVE  IsFiniteSet(S) /\ Cardinality(S) \in 0 .. NFields
  <2>1. IsFiniteSet(S) /\ Cardinality(S) <= NFields
    BY <1>1, FS_Subset
  <2>2. Cardinality(S) \in Nat
    BY <2>1, FS_CardinalityType
  <2> QED BY <2>1, <2>2, FieldsAre
<1> QED BY <1>1, <1>2

(* The worker goes past one field, and makes its suggestion if it is flagged. *)
LEMMA ScanFieldWorks ==
  ASSUME TypeOK, EventsOfRows, ScansInOrder, NEW j \in Jobs, scan_field(j)
  PROVE  /\ Works /\ life' = life /\ crashes' = crashes
         /\ scan[j].pc = "scan" /\ scan'[j].pc = "scan" /\ job'[j].status = job[j].status
         /\ Made(j)' = Passed(j)' /\ job'[j].count = Cardinality(Passed(j)')
         /\ \A k \in Jobs \ {j} : /\ scan'[k] = scan[k] /\ job'[k] = job[k]
                                  /\ suggestion'[k] = suggestion[k]
         /\ \A k \in Jobs, f \in Fields :
              suggestion'[k][f].status \in {suggestion[k][f].status, "pending"}
<1> DEFINE F == scan[j].next
           s == [scan[j] EXCEPT !.next = F + 1]
           new == [status |-> "pending", value |-> scan[j].rows[F]]
<1>0. /\ scan[j].pc = "scan" /\ F <= NFields /\ scan' = [scan EXCEPT ![j].next = F + 1]
      /\ UNCHANGED <<state, log, life, attempts, exports, export_count, mem, asked, requests, crashes>>
      /\ requests' \in 0 .. MaxRequests /\ crashes' \in 0 .. MaxCrashes
      /\ scan \in [Jobs -> Scans] /\ job \in [Jobs -> ReviewJobs]
      /\ suggestion \in [Jobs -> [Fields -> Suggestions]]
  BY BoundsStay DEF scan_field, bounds, core, TypeOK
<1>1. /\ F \in Fields /\ F + 1 \in 1 .. NFields + 1 /\ F \in Nat
      /\ scan[j].rows \in [Fields -> Values] /\ scan[j] \in Scans
  BY <1>0, FieldsAre DEF Scans, Fields
<1>2. s \in Scans /\ s.pc = "scan" /\ s.next = F + 1 /\ scan' = [scan EXCEPT ![j] = s]
  BY <1>0, <1>1, ScanTypes
<1>3. new \in Suggestions /\ new.status = "pending"
  BY <1>1 DEF Suggestions
<1>4. Made(j) = Passed(j) /\ job[j].count = Cardinality(Passed(j))
  BY <1>0 DEF ScansInOrder
<1>5. F \notin Passed(j) /\ suggestion[j][F].status = "absent"
  <2>1. F \notin Passed(j)
    BY <1>1 DEF Passed
  <2> QED BY <1>1, <1>4, <2>1 DEF Made
<1> HIDE DEF s, new, F
<1>6. scan' \in [Jobs -> Scans] /\ scan'[j] = s /\ \A k \in Jobs \ {j} : scan'[k] = scan[k]
  BY <1>2, ScanGets
<1>7. Passed(j)' = IF Flagged(F) THEN Passed(j) \cup {F} ELSE Passed(j)
  <2>1. Passed(j)' = {f \in Fields : f < F + 1 /\ Flagged(f)}
    BY <1>2, <1>6 DEF Passed
  <2>2. \A f \in Fields : f < F + 1 <=> (f < F \/ f = F)
    BY <1>1, FieldsAre
  <2>3. Passed(j) = {f \in Fields : f < F /\ Flagged(f)}
    BY DEF Passed, F
  <2>4. CASE Flagged(F)
    BY <1>1, <2>1, <2>2, <2>3, <2>4
  <2>5. CASE ~Flagged(F)
    BY <1>1, <2>1, <2>2, <2>3, <2>5
  <2> QED BY <2>4, <2>5
<1>8. /\ IsFiniteSet(Passed(j)) /\ Passed(j) \cup {F} \in SUBSET Fields
      /\ Cardinality(Passed(j) \cup {F}) = Cardinality(Passed(j)) + 1
      /\ Cardinality(Passed(j)) \in 0 .. NFields /\ Cardinality(Passed(j) \cup {F}) \in 0 .. NFields
  <2>1. Passed(j) \in SUBSET Fields /\ Passed(j) \cup {F} \in SUBSET Fields
    BY <1>1 DEF Passed
  <2>2. /\ IsFiniteSet(Passed(j)) /\ Cardinality(Passed(j)) \in 0 .. NFields
        /\ Cardinality(Passed(j) \cup {F}) \in 0 .. NFields
    BY <2>1, FieldsCounted
  <2> QED BY <1>5, <2>1, <2>2, FS_AddElement
<1>9. CASE Flagged(F)
  <2> DEFINE r == [job[j] EXCEPT !.count = @ + 1]
  <2>1. /\ suggestion' = [suggestion EXCEPT ![j] = [suggestion[j] EXCEPT ![F] = new]]
        /\ job' = [job EXCEPT ![j] = r]
    BY <1>0, <1>1, <1>9 DEF scan_field, F, new
  <2>2. r \in ReviewJobs /\ r.status = job[j].status /\ r.count = Cardinality(Passed(j)) + 1
    <3>1. job[j] \in ReviewJobs /\ Cardinality(Passed(j)) + 1 \in 0 .. NFields
      BY <1>0, <1>8
    <3> QED BY <1>4, <3>1 DEF ReviewJobs
  <2> HIDE DEF r
  <2>3. /\ job' \in [Jobs -> ReviewJobs] /\ job'[j] = r /\ \A k \in Jobs \ {j} : job'[k] = job[k]
    BY <1>0, <2>1, <2>2
  <2>4. /\ suggestion' \in [Jobs -> [Fields -> Suggestions]] /\ suggestion'[j][F] = new
        /\ \A f \in Fields \ {F} : suggestion'[j][f] = suggestion[j][f]
        /\ \A k \in Jobs \ {j} : suggestion'[k] = suggestion[k]
    BY <1>0, <1>1, <1>3, <2>1
  <2>5. TypeOK'
    BY <1>0, <1>6, <2>3, <2>4 DEF TypeOK
  <2>6. \A k \in Jobs, f \in Fields : suggestion[k][f].status # "absent" =>
           suggestion'[k][f].status # "absent" /\ suggestion'[k][f].value = suggestion[k][f].value
    BY <1>5, <2>4
  <2>7. Works
    BY <1>0, <2>5, <2>6, WorksSo
  <2>8. Made(j)' = Made(j) \cup {F}
    BY <1>1, <1>3, <2>4 DEF Made
  <2>9. \A k \in Jobs, f \in Fields : suggestion'[k][f].status \in {suggestion[k][f].status, "pending"}
    BY <1>3, <2>4
  <2> QED BY <1>0, <1>2, <1>4, <1>6, <1>7, <1>8, <1>9, <2>2, <2>3, <2>4, <2>7, <2>8, <2>9
<1>10. CASE ~Flagged(F)
  <2>1. suggestion' = suggestion /\ job' = job
    BY <1>10 DEF scan_field, F
  <2>2. TypeOK'
    BY <1>0, <1>6, <2>1 DEF TypeOK
  <2>3. Works
    BY <1>0, <2>1, <2>2, WorksSo
  <2>4. Made(j)' = Made(j)
    BY <2>1 DEF Made
  <2> QED BY <1>0, <1>2, <1>4, <1>6, <1>7, <1>10, <2>1, <2>3, <2>4
<1> QED BY <1>9, <1>10

(* A request dies, or a worker does.                                          *)
LEMMA CrashKeeps ==
  ASSUME TypeOK, EventsOfRows, \A c \in Clients : OwnOK(c), crash
  PROVE  /\ TypeOK' /\ UNCHANGED <<state, log, suggestion, job, life, exports, export_count>>
         /\ crashes' \in Nat /\ crashes' # 0
         /\ \/ scan' = scan /\ \E c \in Clients : Keeps(c) /\ mem'[c].pc = "idle"
            \/ /\ Works
               /\ \E j \in Jobs : /\ scan[j].pc \in {"set_running", "scan"} /\ scan'[j].pc = "done"
                                  /\ \A k \in Jobs \ {j} : scan'[k] = scan[k]
<1>0. /\ UNCHANGED <<state, log, suggestion, job, life, attempts, exports, export_count, asked, requests>>
      /\ crashes' \in 0 .. MaxCrashes /\ crashes' # 0 /\ crashes' \in Nat
      /\ requests' \in 0 .. MaxRequests
  BY ConstantsAssumption DEF crash, core, TypeOK
<1>1. CASE \E c \in Clients : Goto(c, "idle") /\ scan' = scan
  <2>1. PICK c \in Clients : Goto(c, "idle") /\ scan' = scan
    BY <1>1
  <2>2. mem' \in [Clients -> Mems] => TypeOK'
    BY <1>0, <2>1 DEF TypeOK
  <2>3. Keeps(c) /\ mem'[c].pc = "idle"
    BY <1>0, <2>1, <2>2, Goes
  <2> QED BY <1>0, <2>1, <2>3 DEF Keeps
<1>2. CASE \E j \in Jobs : /\ scan[j].pc \in {"set_running", "scan"} /\ mem' = mem
                           /\ scan' = [scan EXCEPT ![j] = [NotScanning EXCEPT !.pc = "done"]]
  <2> DEFINE s == [NotScanning EXCEPT !.pc = "done"]
  <2>1. PICK j \in Jobs : scan[j].pc \in {"set_running", "scan"} /\ mem' = mem /\ scan' = [scan EXCEPT ![j] = s]
    BY <1>2
  <2>2. s \in Scans /\ s.pc = "done"
    BY RestTypes
  <2> HIDE DEF s
  <2>3. scan' \in [Jobs -> Scans] /\ scan'[j] = s /\ \A k \in Jobs \ {j} : scan'[k] = scan[k]
    BY <2>1, <2>2, ScanGets
  <2>4. TypeOK'
    BY <1>0, <2>1, <2>3 DEF TypeOK
  <2>5. Works
    BY <1>0, <2>1, <2>4, WorksSo
  <2> QED BY <1>0, <2>1, <2>2, <2>3, <2>4, <2>5
<1> QED BY <1>1, <1>2 DEF crash

-----------------------------------------------------------------------------
(* The steps together.                                                        *)

(* The parts of RequestsInOrder.                                              *)
LEMMA InOrder == RequestsInOrder <=> EventsOfRows /\ \A c \in Clients : OwnOK(c)
BY DEF RequestsInOrder, OwnOK

(* A step of a request that leaves rows and events alone, and is none of      *)
(* those that come before or after writing them.                              *)
Quiet(c) == UNCHANGED <<state, log>> /\ mem[c].pc \notin {"insert_event", "put_state", "revert_link"}
Writes(c) ==
  \/ insert_states(c) \/ insert_event(c) \/ put_state(c) \/ revert_put(c) \/ revert_link(c)
  \/ insert_reject(c)

(* Every step of a request keeps what others rely on.                         *)
LEMMA ClientSteps ==
  ASSUME TypeOK, EventsOfRows, NEW c \in Clients, OwnOK(c), Requests(c) \/ ClientStep(c)
  PROVE  Keeps(c) /\ crashes' = crashes /\ (Writes(c) \/ Quiet(c))
<1>1. CASE Requests(c)
  <2>1. UNCHANGED <<state, log, crashes>> /\ mem[c].pc = "idle"
    BY <1>1 DEF Requests, table, field_action, bulk, revert_event, accept_suggestion, reject_suggestion,
                create_export, start_job, cancel_job, Begin
  <2> QED BY <1>1, <2>1, RequestsKeep DEF Quiet
<1>2. CASE Writes(c)
  <2>1. crashes' = crashes
    BY <1>2 DEF Writes, insert_states, insert_event, put_state, revert_put, revert_link, insert_reject, bounds
  <2> QED BY <1>2, <2>1, InsertStatesKeeps, InsertEventKeeps, PutStateKeeps, RevertPutKeeps, RevertLinkKeeps,
             InsertRejectKeeps DEF Writes
<1>3. CASE select_states(c) \/ insert_conflict(c) \/ read_state(c) \/ mark(c)
  <2>1. crashes' = crashes /\ Quiet(c)
    BY <1>3 DEF select_states, insert_conflict, read_state, mark, bounds, Quiet
  <2> QED BY <1>3, <2>1, SelectStatesKeeps, InsertConflictKeeps, ReadStateKeeps, MarkKeeps
<1>4. CASE read_rows(c) \/ insert_export(c) \/ export_get(c) \/ export_put(c)
  <2>1. crashes' = crashes /\ Quiet(c)
    BY <1>4 DEF read_rows, insert_export, export_get, export_put, bounds, Quiet
  <2> QED BY <1>4, <2>1, ReadRowsKeeps, InsertExportKeeps, ExportGetKeeps, ExportPutKeeps
<1>5. CASE select_active(c) \/ insert_job(c) \/ enqueue(c) \/ link(c) \/ cancel_put(c) \/ core_cancel(c)
  <2>1. crashes' = crashes /\ Quiet(c)
    BY <1>5 DEF select_active, insert_job, enqueue, link, cancel_put, core_cancel, bounds, Quiet
  <2> QED BY <1>5, <2>1, SelectActiveKeeps, InsertJobKeeps, EnqueueKeeps, LinkKeeps, CancelPutKeeps, CoreCancelKeeps
<1> QED BY <1>1, <1>2, <1>3, <1>4, <1>5 DEF ClientStep, Writes

(* Every step of a worker takes nothing away.                                 *)
LEMMA WorkerSteps ==
  ASSUME TypeOK, EventsOfRows, ScansInOrder, NEW j \in Jobs, WorkerStep(j)
  PROVE  Works /\ crashes' = crashes
<1>1. CASE dispatch(j)
  BY <1>1, DispatchWorks
<1>2. CASE set_running(j)
  BY <1>2, SetRunningWorks
<1>3. CASE scan_field(j)
  BY <1>3, ScanFieldWorks
<1>4. CASE run_cancelled(j)
  BY <1>4, EndsWorks DEF run_cancelled
<1>5. CASE complete(j)
  BY <1>5, EndsWorks DEF complete
<1>6. CASE fail(j)
  BY <1>6, EndsWorks DEF fail
<1> QED BY <1>1, <1>2, <1>3, <1>4, <1>5, <1>6 DEF WorkerStep

(* One request at most is at a step; nothing is taken away from the others.   *)
LEMMA StepKeeps ==
  ASSUME TypeOK, RequestsInOrder, ScansInOrder, [Next]_vars
  PROVE  TypeOK' /\ Frame /\ RequestsInOrder'
<1>0. EventsOfRows /\ \A c \in Clients : OwnOK(c)
  BY InOrder
<1>1. ASSUME NEW c \in Clients, Keeps(c) PROVE TypeOK' /\ Frame /\ RequestsInOrder'
  <2>1. ASSUME NEW d \in Clients PROVE OwnOK(d)'
    BY <1>0, <1>1, OthersStay DEF Keeps
  <2> QED BY <1>1, <2>1 DEF Keeps, RequestsInOrder, OwnOK
<1>2. ASSUME Works PROVE TypeOK' /\ Frame /\ RequestsInOrder'
  <2>1. ASSUME NEW d \in Clients PROVE OwnOK(d)'
    BY <1>0, <1>2, OthersStay DEF Works
  <2> QED BY <1>2, <2>1 DEF Works, RequestsInOrder, OwnOK
<1>3. CASE \E c \in Clients : Requests(c) \/ ClientStep(c)
  BY <1>0, <1>1, <1>3, ClientSteps
<1>4. CASE \E j \in Jobs : WorkerStep(j)
  BY <1>0, <1>2, <1>4, WorkerSteps
<1>5. CASE crash
  BY <1>0, <1>1, <1>2, <1>5, CrashKeeps
<1>6. CASE UNCHANGED vars
  <2>1. TypeOK'
    BY <1>6 DEF TypeOK, vars, core, bounds
  <2>2. Works
    BY <1>0, <1>6, <2>1, WorksSo DEF vars
  <2> QED BY <1>2, <2>2
<1> QED BY <1>3, <1>4, <1>5, <1>6 DEF Next

-----------------------------------------------------------------------------
(* The log explains the rows.                                                 *)

Explained(f) ==
  \/ state[f] = Absent \/ Show(state[f]) = Show(Unreviewed(f)) \/ Unlogged(f)
  \/ \E e \in 1 .. Len(log) : log[e].field = f /\ log[e].new = Show(state[f])

Undoes(c) == mem[c].op = "revert_event" /\ mem[c].pc = "insert_event"

(* A row that keeps what it shows stays explained.                            *)
LEMMA StaysExplained ==
  ASSUME TypeOK, TypeOK', Frame, \A d \in Clients : Asks(d), NEW f \in Fields, Explained(f),
         Show(state'[f]) = Show(state[f]), state[f] = Absent => state'[f] = Absent,
         \A d \in Clients : \/ mem'[d] = mem[d] \/ ~Undoes(d)
                            \/ log' = Append(log, Written(d)) /\ Written(d) \in Events
  PROVE  Explained(f)'
<1>0. log \in Seq(Events) /\ Len(log) \in Nat /\ Len(log') \in Nat /\ Len(log) <= Len(log')
  BY DEF TypeOK, Frame
<1>1. CASE state[f] = Absent
  BY <1>1 DEF Explained
<1>2. CASE Show(state[f]) = Show(Unreviewed(f))
  <2>1. Show(state'[f]) = Show(Unreviewed(f))
    BY <1>2
  <2> QED BY <2>1 DEF Explained, Show, Unreviewed
<1>3. CASE \E e \in 1 .. Len(log) : log[e].field = f /\ log[e].new = Show(state[f])
  <2>1. PICK e \in 1 .. Len(log) : log[e].field = f /\ log[e].new = Show(state[f])
    BY <1>3
  <2>2. e \in 1 .. Len(log') /\ log'[e].field = f /\ log'[e].new = Show(state'[f])
    BY <1>0, <2>1 DEF Frame
  <2> QED BY <2>2 DEF Explained, Show
<1>4. CASE Unlogged(f)
  <2>1. PICK d \in Clients : Undoes(d) /\ Field(d) = f /\ Show(state[f]) = NextShown(d)
    BY <1>4 DEF Unlogged, Undoes
  <2>2. CASE mem'[d] = mem[d]
    <3>1. Seen(d)' = Seen(d) /\ Field(d)' = Field(d)
      BY <2>2 DEF Seen, Field
    <3>2. NextShown(d)' = NextShown(d)
      BY <2>1, <2>2, <3>1, NextStays DEF Undoes, FieldOps
    <3> QED BY <2>1, <2>2, <3>1, <3>2 DEF Explained, Unlogged, Undoes, Show
  <2>3. CASE log' = Append(log, Written(d)) /\ Written(d) \in Events
    <3> DEFINE w == Written(d)
    <3>1. w.field = f /\ w.new = Show(state'[f])
      BY <2>1 DEF Written
    <3>2. log' = Append(log, w) /\ w \in Events
      BY <2>3
    <3> HIDE DEF w
    <3>3. Len(log) + 1 \in 1 .. Len(log') /\ log'[Len(log) + 1] = w
      BY <1>0, <3>2
    <3> QED BY <3>1, <3>3 DEF Explained, Show
  <2> QED BY <2>1, <2>2, <2>3
<1> QED BY <1>1, <1>2, <1>3, <1>4 DEF Explained

(* StateIsLogged is preserved.                                                *)
LEMMA ExplainedKept ==
  ASSUME TypeOK, RequestsInOrder, ScansInOrder, StateIsLogged, [Next]_vars
  PROVE  StateIsLogged'
<1> SUFFICES ASSUME crashes' = 0 PROVE \A f \in Fields : Explained(f)'
  BY DEF StateIsLogged, Explained
<1>0. /\ EventsOfRows /\ \A c \in Clients : OwnOK(c)
      /\ TypeOK' /\ Frame /\ RequestsInOrder' /\ crashes \in Nat
  BY InOrder, StepKeeps DEF TypeOK
<1>1. \A c \in Clients : Asks(c)
  BY <1>0 DEF OwnOK
<1>2. ASSUME crashes' = crashes PROVE \A f \in Fields : Explained(f)
  BY <1>2 DEF StateIsLogged, Explained
<1>3. ASSUME NEW c \in Clients, Requests(c) \/ ClientStep(c) PROVE \A f \in Fields : Explained(f)'
  <2>0. Keeps(c) /\ (Writes(c) \/ Quiet(c)) /\ \A f \in Fields : Explained(f)
    BY <1>0, <1>2, <1>3, ClientSteps
  <2>1. \A d \in Clients \ {c} : mem'[d] = mem[d]
    BY <2>0 DEF Keeps
  <2>2. CASE Quiet(c)
    BY <1>0, <1>1, <2>0, <2>1, <2>2, StaysExplained DEF Quiet, Undoes
  <2>3. CASE insert_reject(c)
    BY <1>0, <1>1, <2>0, <2>1, <2>3, StaysExplained DEF insert_reject, Undoes
  <2>4. CASE insert_event(c)
    <3>1. log' = Append(log, Written(c)) /\ Written(c) \in Events /\ state' = state
      BY <1>0, <2>4, InsertEventKeeps DEF insert_event
    <3> QED BY <1>0, <1>1, <2>0, <2>1, <3>1, StaysExplained
  <2>5. CASE insert_states(c)
    <3>1. \A f \in Fields : state'[f] = state[f] \/ (state[f] = Absent /\ state'[f] = Unreviewed(f))
      BY <1>0, <2>5, InsertStatesKeeps
    <3>2. ~Undoes(c)
      BY <2>5 DEF insert_states, Undoes
    <3>3. ASSUME NEW f \in Fields, state'[f] = Unreviewed(f) PROVE Explained(f)'
      BY <3>3 DEF Explained, Show, Unreviewed
    <3> QED BY <1>0, <1>1, <2>0, <2>1, <3>1, <3>2, <3>3, StaysExplained
  <2>6. CASE put_state(c)
    <3>1. /\ Show(state'[Field(c)]) = NextShown(c) /\ log' = log /\ Field(c) \in Fields
          /\ \A g \in Fields \ {Field(c)} : state'[g] = state[g]
      BY <1>0, <2>6, PutStateKeeps
    <3>2. ~Undoes(c)
      BY <2>6 DEF put_state, Undoes
    <3>3. ASSUME NEW g \in Fields, g = Field(c) PROVE Explained(g)'
      <4> DEFINE e == mem[c].event
      <4>1. e \in 1 .. Len(log) /\ log[e].field = g /\ log[e].new = NextShown(c)
        BY <1>0, <2>6, <3>3 DEF put_state, OwnOK, EventIsWritten
      <4>2. e \in 1 .. Len(log') /\ log'[e].field = g /\ log'[e].new = Show(state'[g])
        BY <3>1, <3>3, <4>1
      <4> HIDE DEF e
      <4>3. \E k \in 1 .. Len(log') : log'[k].field = g /\ log'[k].new = Show(state'[g])
        BY <4>2
      <4> QED BY <4>3 DEF Explained, Show
    <3>4. ASSUME NEW g \in Fields \ {Field(c)} PROVE Explained(g)'
      BY <1>0, <1>1, <2>0, <2>1, <3>1, <3>2, StaysExplained
    <3> QED BY <3>3, <3>4
  <2>7. CASE revert_put(c)
    <3>1. /\ Show(state'[Field(c)]) = NextShown(c) /\ log' = log /\ Field(c) \in Fields
          /\ \A g \in Fields \ {Field(c)} : state'[g] = state[g]
          /\ mem'[c].pc = "insert_event" /\ mem'[c].op = "revert_event"
          /\ Field(c)' = Field(c) /\ NextShown(c)' = NextShown(c)
      BY <1>0, <2>7, RevertPutKeeps
    <3>2. ~Undoes(c)
      BY <2>7 DEF revert_put, Undoes
    <3>3. ASSUME NEW g \in Fields, g = Field(c) PROVE Explained(g)'
      BY <3>1, <3>3 DEF Explained, Unlogged, Show
    <3>4. ASSUME NEW g \in Fields \ {Field(c)} PROVE Explained(g)'
      BY <1>0, <1>1, <2>0, <2>1, <3>1, <3>2, StaysExplained
    <3> QED BY <3>3, <3>4
  <2>8. CASE revert_link(c)
    <3>1. /\ log' = log /\ state[Field(c)] # Absent
          /\ \A g \in Fields : Show(state'[g]) = Show(state[g])
          /\ \A g \in Fields \ {Field(c)} : state'[g] = state[g]
      BY <1>0, <2>8, RevertLinkKeeps
    <3>2. ~Undoes(c)
      BY <2>8 DEF revert_link, Undoes
    <3> QED BY <1>0, <1>1, <2>0, <2>1, <3>1, <3>2, StaysExplained
  <2> QED BY <2>0, <2>2, <2>3, <2>4, <2>5, <2>6, <2>7, <2>8 DEF Writes
<1>4. ASSUME Works, crashes' = crashes PROVE \A f \in Fields : Explained(f)'
  BY <1>0, <1>1, <1>2, <1>4, StaysExplained DEF Works
<1>5. CASE \E j \in Jobs : WorkerStep(j)
  BY <1>0, <1>4, <1>5, WorkerSteps
<1>6. CASE crash
  BY <1>0, <1>6, CrashKeeps
<1>7. CASE UNCHANGED vars
  <2>1. UNCHANGED <<state, log, mem, crashes>>
    BY <1>7 DEF vars, bounds
  <2> QED BY <1>0, <1>1, <1>2, <2>1, StaysExplained
<1> QED BY <1>3, <1>5, <1>6, <1>7 DEF Next

(* A suggestion that is resolved has its event.                               *)
LEMMA ResolvedKept ==
  ASSUME TypeOK, RequestsInOrder, ScansInOrder, ResolvedIsLogged, [Next]_vars
  PROVE  ResolvedIsLogged'
<1> DEFINE Says(j, f) ==
      /\ suggestion[j][f].status = "accepted" => IsLogged(f, j, "accept_multimodal_suggestion")
      /\ suggestion[j][f].status = "rejected" => IsLogged(f, j, "reject_multimodal_suggestion")
<1>0. /\ EventsOfRows /\ \A c \in Clients : OwnOK(c)
      /\ TypeOK' /\ Frame /\ Len(log) \in Nat /\ Len(log') \in Nat /\ Len(log) <= Len(log')
  BY InOrder, StepKeeps, LogLen DEF TypeOK, Frame
<1>1. ASSUME NEW f, NEW j, NEW t, IsLogged(f, j, t) PROVE IsLogged(f, j, t)'
  BY <1>0, <1>1 DEF IsLogged, Frame
<1>2. ASSUME NEW j \in Jobs, NEW f \in Fields, suggestion'[j][f].status \in {suggestion[j][f].status, "pending"}
      PROVE  Says(j, f)'
  BY <1>1, <1>2 DEF ResolvedIsLogged
<1>3. ASSUME suggestion' = suggestion PROVE ResolvedIsLogged'
  BY <1>2, <1>3 DEF ResolvedIsLogged
<1>4. ASSUME NEW c \in Clients, mark(c) PROVE ResolvedIsLogged'
  <2>1. /\ mem[c].job \in Jobs /\ Field(c) \in Fields
        /\ \A j \in Jobs, f \in Fields :
              \/ suggestion'[j][f].status = suggestion[j][f].status
              \/ /\ j = mem[c].job /\ f = Field(c)
                 /\ suggestion'[j][f].status =
                      IF mem[c].op = "accept_suggestion" THEN "accepted" ELSE "rejected"
    BY <1>0, <1>4, MarkKeeps
  <2>2. IsLogged(Field(c), mem[c].job, Resolution(mem[c].op))
    BY <1>0, <1>4 DEF mark, OwnOK, EventIsWritten
  <2>3. ASSUME NEW j \in Jobs, NEW f \in Fields, j = mem[c].job, f = Field(c),
               suggestion'[j][f].status = IF mem[c].op = "accept_suggestion" THEN "accepted" ELSE "rejected"
        PROVE  Says(j, f)'
    <3>1. IsLogged(f, j, Resolution(mem[c].op))
      BY <2>2, <2>3
    <3>2. CASE mem[c].op = "accept_suggestion"
      <4>1. IsLogged(f, j, "accept_multimodal_suggestion")
        BY <3>1, <3>2 DEF Resolution
      <4> QED BY <1>1, <2>3, <3>2, <4>1
    <3>3. CASE mem[c].op # "accept_suggestion"
      <4>1. IsLogged(f, j, "reject_multimodal_suggestion")
        BY <3>1, <3>3 DEF Resolution
      <4> QED BY <1>1, <2>3, <3>3, <4>1
    <3> QED BY <3>2, <3>3
  <2> HIDE DEF Says
  <2>4. \A j \in Jobs, f \in Fields : Says(j, f)'
    BY <1>2, <2>1, <2>3
  <2> QED BY <2>4 DEF ResolvedIsLogged, Says
<1>5. ASSUME NEW j \in Jobs, scan_field(j) PROVE ResolvedIsLogged'
  <2>1. \A k \in Jobs, f \in Fields : suggestion'[k][f].status \in {suggestion[k][f].status, "pending"}
    BY <1>0, <1>5, ScanFieldWorks
  <2> HIDE DEF Says
  <2>2. \A k \in Jobs, f \in Fields : Says(k, f)'
    BY <1>2, <2>1
  <2> QED BY <2>2 DEF ResolvedIsLogged, Says
<1>6. CASE \E c \in Clients : Requests(c) \/ ClientStep(c)
  <2>1. PICK c \in Clients : Requests(c) \/ ClientStep(c)
    BY <1>6
  <2>2. mark(c) \/ suggestion' = suggestion
    <3>1. CASE Requests(c)
      BY <3>1 DEF Requests, table, field_action, bulk, revert_event, accept_suggestion, reject_suggestion,
                  create_export, start_job, cancel_job, Begin
    <3>2. CASE ClientStep(c)
      BY <3>2 DEF ClientStep, select_states, insert_states, insert_conflict, read_state, insert_event, put_state,
                  revert_put, revert_link, insert_reject, read_rows, insert_export, export_get, export_put,
                  select_active, insert_job, enqueue, link, cancel_put, core_cancel
    <3> QED BY <2>1, <3>1, <3>2
  <2> QED BY <1>3, <1>4, <2>2
<1>7. CASE \E j \in Jobs : WorkerStep(j)
  <2>1. PICK j \in Jobs : WorkerStep(j)
    BY <1>7
  <2>2. scan_field(j) \/ suggestion' = suggestion
    BY <2>1 DEF WorkerStep, dispatch, set_running, run_cancelled, complete, fail
  <2> QED BY <1>3, <1>5, <2>2
<1>8. CASE crash \/ UNCHANGED vars
  BY <1>3, <1>8 DEF crash, vars
<1> QED BY <1>6, <1>7, <1>8 DEF Next

-----------------------------------------------------------------------------
(* No review gets lost.                                                       *)

Logs(c) ==
  \/ mem[c].op = "revert_event" /\ mem[c].pc \in {"insert_event", "revert_link"}
  \/ mem[c].pc = "put_state"

(* Who is about to log, or to write what is logged.                           *)
LEMMA LoggingIs == \A f : Logging(f) <=> \E c \in Clients : Logs(c) /\ Field(c) = f
BY DEF Logging, Reverting, Logs

(* A row keeps naming an event when nobody who works on it moves.             *)
LEMMA StaysKept ==
  ASSUME NEW f \in Fields, state[f].last # NoEvent \/ Logging(f), ~Logging(f)', state'[f].last = state[f].last,
         \A d \in Clients : \/ mem'[d] = mem[d] \/ ~Logs(d) \/ Field(d) # f
                            \/ Logs(d)' /\ Field(d)' = Field(d)
  PROVE  state'[f].last # NoEvent
<1>1. SUFFICES ASSUME Logging(f) PROVE FALSE
  OBVIOUS
<1>2. PICK d \in Clients : Logs(d) /\ Field(d) = f
  BY <1>1, LoggingIs
<1>3. Logs(d)' /\ Field(d)' = f
  <2>1. CASE mem'[d] = mem[d]
    BY <1>2, <2>1 DEF Logs, Field
  <2> QED BY <1>2, <2>1
<1>4. Logging(f)'
  BY <1>3 DEF Logging, Reverting, Logs, Field
<1> QED BY <1>4

(* ReviewKept is preserved.                                                   *)
LEMMA ReviewStaysKept ==
  ASSUME TypeOK, RequestsInOrder, ScansInOrder, ReviewKept, [Next]_vars
  PROVE  ReviewKept'
<1> SUFFICES ASSUME crashes' = 0, NEW e \in 1 .. Len(log'), NEW f, f = log'[e].field,
                    log'[e].type # "reject_multimodal_suggestion", ~Logging(f)'
             PROVE  state'[f].last # NoEvent
  BY DEF ReviewKept, Logging, Reverting, Field
<1>0. /\ EventsOfRows /\ \A c \in Clients : OwnOK(c)
      /\ TypeOK' /\ Frame /\ crashes \in Nat /\ log \in Seq(Events) /\ Len(log) \in Nat
      /\ log' \in Seq(Events) /\ f \in Fields
  <2>1. TypeOK' /\ Frame
    BY StepKeeps
  <2>2. log' \in Seq(Events) /\ Len(log') \in Nat
    BY <2>1 DEF TypeOK
  <2>3. log'[e] \in Events
    BY <2>2
  <2> QED BY <2>1, <2>2, <2>3, InOrder, LogLen DEF TypeOK, Events
<1>1. ASSUME crashes' = crashes, e \in 1 .. Len(log)
      PROVE  /\ state[f].last # NoEvent \/ Logging(f)
             /\ AllThere
  <2>1. log'[e] = log[e]
    BY <1>0, <1>1 DEF Frame
  <2>2. f = log[e].field /\ log[e].type # "reject_multimodal_suggestion"
    BY <2>1
  <2>3. AllThere
    BY <1>0, <1>1, <2>2 DEF EventsOfRows
  <2>4. ~Logging(log[e].field) => state[log[e].field].last # NoEvent
    BY <1>1, <2>2 DEF ReviewKept
  <2> QED BY <2>2, <2>3, <2>4
<1>2. ASSUME Len(log') = Len(log) PROVE e \in 1 .. Len(log)
  BY <1>2
<1>3. ASSUME NEW c \in Clients, Requests(c) \/ ClientStep(c) PROVE state'[f].last # NoEvent
  <2>0. Keeps(c) /\ (Writes(c) \/ Quiet(c)) /\ crashes' = crashes
    BY <1>0, <1>3, ClientSteps
  <2>1. \A d \in Clients \ {c} : mem'[d] = mem[d]
    BY <2>0 DEF Keeps
  <2>2. CASE Quiet(c)
    <3>1. e \in 1 .. Len(log) /\ state'[f].last = state[f].last /\ ~Logs(c)
      BY <1>2, <2>2 DEF Quiet, Logs
    <3> QED BY <1>0, <1>1, <2>0, <2>1, <3>1, StaysKept
  <2>3. CASE insert_reject(c)
    <3>1. PICK ev \in Events : log' = Append(log, ev) /\ ev.type = "reject_multimodal_suggestion"
      BY <1>0, <2>3, InsertRejectKeeps
    <3>2. e \in 1 .. Len(log)
      BY <1>0, <3>1
    <3>3. state'[f].last = state[f].last /\ ~Logs(c)
      BY <2>3 DEF insert_reject, Logs
    <3> QED BY <1>0, <1>1, <2>0, <2>1, <3>2, <3>3, StaysKept
  <2>4. CASE insert_event(c)
    <3>1. /\ log' = Append(log, Written(c)) /\ Written(c) \in Events /\ Written(c).field = Field(c)
          /\ mem'[c].pc = IF mem[c].op = "revert_event" THEN "revert_link" ELSE "put_state"
          /\ mem'[c].op = mem[c].op /\ Field(c)' = Field(c) /\ state' = state
      BY <1>0, <2>4, InsertEventKeeps DEF insert_event
    <3>2. Logs(c)'
      BY <3>1 DEF Logs
    <3>3. f # Field(c)
      BY <3>1, <3>2 DEF Logging, Reverting, Logs, Field
    <3>4. e \in 1 .. Len(log)
      <4> DEFINE w == Written(c)
      <4>1. log' = Append(log, w) /\ w.field # f /\ w \in Events
        BY <3>1, <3>3
      <4> HIDE DEF w
      <4> QED BY <1>0, <4>1
    <3> QED BY <1>0, <1>1, <2>0, <2>1, <3>1, <3>3, <3>4, StaysKept
  <2>5. CASE insert_states(c)
    <3>1. \A g \in Fields : state'[g] = state[g] \/ (state[g] = Absent /\ state'[g] = Unreviewed(g))
      BY <1>0, <2>5, InsertStatesKeeps
    <3>2. ~Logs(c) /\ log' = log
      BY <2>5 DEF insert_states, Logs
    <3>3. e \in 1 .. Len(log) /\ state'[f] = state[f]
      BY <1>0, <1>1, <1>2, <2>0, <3>1, <3>2 DEF AllThere
    <3> QED BY <1>0, <1>1, <2>0, <2>1, <3>2, <3>3, StaysKept
  <2>6. CASE put_state(c)
    <3>1. /\ log' = log /\ Field(c) \in Fields /\ state'[Field(c)].last # NoEvent
          /\ \A g \in Fields \ {Field(c)} : state'[g] = state[g]
      BY <1>0, <2>6, PutStateKeeps
    <3>2. CASE f = Field(c)
      BY <3>1, <3>2
    <3>3. CASE f # Field(c)
      <4>1. e \in 1 .. Len(log) /\ state'[f] = state[f]
        BY <1>0, <1>2, <3>1, <3>3
      <4> QED BY <1>0, <1>1, <2>0, <2>1, <3>3, <4>1, StaysKept
    <3> QED BY <3>2, <3>3
  <2>7. CASE revert_put(c)
    <3>1. /\ log' = log /\ Field(c) \in Fields /\ Field(c)' = Field(c)
          /\ \A g \in Fields \ {Field(c)} : state'[g] = state[g]
          /\ mem'[c].pc = "insert_event" /\ mem'[c].op = "revert_event"
      BY <1>0, <2>7, RevertPutKeeps
    <3>2. f # Field(c)
      BY <3>1 DEF Logging, Reverting, Field
    <3>3. e \in 1 .. Len(log) /\ state'[f] = state[f]
      BY <1>0, <1>2, <3>1, <3>2
    <3> QED BY <1>0, <1>1, <2>0, <2>1, <3>2, <3>3, StaysKept
  <2>8. CASE revert_link(c)
    <3>1. /\ log' = log /\ Field(c) \in Fields /\ state'[Field(c)].last # NoEvent
          /\ \A g \in Fields \ {Field(c)} : state'[g] = state[g]
      BY <1>0, <2>8, RevertLinkKeeps
    <3>2. CASE f = Field(c)
      BY <3>1, <3>2
    <3>3. CASE f # Field(c)
      <4>1. e \in 1 .. Len(log) /\ state'[f] = state[f]
        BY <1>0, <1>2, <3>1, <3>3
      <4> QED BY <1>0, <1>1, <2>0, <2>1, <3>3, <4>1, StaysKept
    <3> QED BY <3>2, <3>3
  <2> QED BY <2>0, <2>2, <2>3, <2>4, <2>5, <2>6, <2>7, <2>8 DEF Writes
<1>4. ASSUME UNCHANGED <<state, log, mem, crashes>> PROVE state'[f].last # NoEvent
  <2>1. e \in 1 .. Len(log) /\ state'[f].last = state[f].last
    BY <1>2, <1>4
  <2> QED BY <1>0, <1>1, <1>4, <2>1, StaysKept
<1>5. CASE \E j \in Jobs : WorkerStep(j)
  BY <1>0, <1>4, <1>5, WorkerSteps DEF Works
<1>6. CASE crash
  BY <1>0, <1>6, CrashKeeps
<1>7. CASE UNCHANGED vars
  BY <1>4, <1>7 DEF vars, bounds
<1> QED BY <1>3, <1>5, <1>6, <1>7 DEF Next

-----------------------------------------------------------------------------
(* The workers of review jobs.                                                *)

ScanOK(j) ==
  /\ life[j] \in {"absent", "pending"} => scan[j].pc = "absent"
  /\ scan[j].pc \in {"absent", "set_running"} => Made(j) = {} /\ job[j].count = 0
  /\ scan[j].pc = "scan" => Made(j) = Passed(j) /\ job[j].count = Cardinality(Passed(j))
  /\ job[j].status = "completed" => scan[j].pc = "done"
Covers(j) ==
  job[j].status = "completed" =>
    Made(j) = {f \in Fields : Flagged(f)} /\ job[j].count = Cardinality({f \in Fields : Flagged(f)})

(* ScansInOrder and CompletedJobCovers, job by job.                           *)
LEMMA ScansAndCovers ==
  /\ ScansInOrder <=> \A j \in Jobs : ScanOK(j)
  /\ CompletedJobCovers <=> \A j \in Jobs : Covers(j)
BY DEF ScansInOrder, ScanOK, CompletedJobCovers, Covers, Made

(* A job whose worker does not move.                                          *)
LEMMA ScanStays ==
  ASSUME NEW j \in Jobs, ScanOK(j), scan'[j] = scan[j], Made(j)' = Made(j), job'[j].count = job[j].count,
         job'[j].status # "completed" \/ job'[j].status = job[j].status,
         life'[j] \in {"absent", "pending"} => life[j] \in {"absent", "pending"}
  PROVE  ScanOK(j)' /\ (Covers(j) => Covers(j)')
<1>1. Passed(j)' = Passed(j)
  BY DEF Passed
<1>2. ScanOK(j)'
  BY <1>1 DEF ScanOK
<1>3. Covers(j) => Covers(j)'
  BY DEF Covers, Flagged, Flags
<1> QED BY <1>2, <1>3

(* What requests do to review jobs.                                           *)
LEMMA RequestsOnJobs ==
  ASSUME TypeOK, EventsOfRows, NEW c \in Clients, OwnOK(c), Requests(c) \/ ClientStep(c), NEW j \in Jobs
  PROVE  /\ scan' = scan /\ Made(j)' = Made(j) /\ job'[j].count = job[j].count
         /\ job'[j].status # "completed" \/ job'[j].status = job[j].status
         /\ life'[j] \in {"absent", "pending"} => life[j] \in {"absent", "pending"}
<1>0. life \in [Jobs -> {"absent", "pending", "running", "settled"}]
  BY DEF TypeOK
<1>1. ASSUME suggestion' = suggestion PROVE Made(j)' = Made(j)
  BY <1>1 DEF Made
<1>2. CASE Requests(c)
  <2>1. UNCHANGED <<suggestion, job, life, scan>>
    BY <1>2 DEF Requests, table, field_action, bulk, revert_event, accept_suggestion, reject_suggestion,
                create_export, start_job, cancel_job, Begin, core
  <2> QED BY <1>1, <2>1
<1>3. CASE select_states(c) \/ insert_states(c) \/ insert_conflict(c) \/ read_state(c) \/ insert_event(c)
           \/ put_state(c) \/ revert_put(c) \/ revert_link(c) \/ insert_reject(c)
  <2>1. UNCHANGED <<suggestion, job, life, scan>>
    BY <1>3 DEF select_states, insert_states, insert_conflict, read_state, insert_event, put_state,
                revert_put, revert_link, insert_reject, core
  <2> QED BY <1>1, <2>1
<1>4. CASE read_rows(c) \/ insert_export(c) \/ export_get(c) \/ export_put(c) \/ select_active(c)
  <2>1. UNCHANGED <<suggestion, job, life, scan>>
    BY <1>4 DEF read_rows, insert_export, export_get, export_put, select_active, core
  <2> QED BY <1>1, <2>1
<1>5. CASE mark(c)
  <2>1. \A k \in Jobs : Made(k)' = Made(k)
    BY <1>5, MarkKeeps
  <2>2. UNCHANGED <<job, life, scan>>
    BY <1>5 DEF mark, core
  <2> QED BY <2>1, <2>2
<1>6. CASE insert_job(c)
  <2>1. NewJob \in Jobs /\ JobGets(NewJob, "queued")
    BY <1>6, InsertJobKeeps
  <2>2. UNCHANGED <<suggestion, life, scan>>
    BY <1>6 DEF insert_job, core
  <2> QED BY <1>1, <2>1, <2>2 DEF JobGets
<1>7. CASE enqueue(c)
  <2>1. mem[c].job \in Jobs /\ life[mem[c].job] = "absent" /\ life' = [life EXCEPT ![mem[c].job] = "pending"]
    BY <1>7, EnqueueKeeps
  <2>2. UNCHANGED <<suggestion, job, scan>>
    BY <1>7 DEF enqueue
  <2> QED BY <1>0, <1>1, <2>1, <2>2
<1>8. CASE link(c)
  <2>1. \A k \in Jobs : job'[k].status = job[k].status /\ job'[k].count = job[k].count
    BY <1>8, LinkKeeps
  <2>2. UNCHANGED <<suggestion, life, scan>>
    BY <1>8 DEF link, core
  <2> QED BY <1>1, <2>1, <2>2
<1>9. CASE cancel_put(c)
  <2>1. mem[c].job \in Jobs /\ \E st \in {"cancelled", "cancelling"} : JobGets(mem[c].job, st)
    BY <1>9, CancelPutKeeps
  <2>2. UNCHANGED <<suggestion, life, scan>>
    BY <1>9 DEF cancel_put, core
  <2> QED BY <1>1, <2>1, <2>2 DEF JobGets
<1>10. CASE core_cancel(c)
  <2>1. \A k \in Jobs : life'[k] = life[k] \/ life'[k] = "settled"
    BY <1>10, CoreCancelKeeps
  <2>2. UNCHANGED <<suggestion, job, scan>>
    BY <1>10 DEF core_cancel
  <2> QED BY <1>1, <2>1, <2>2
<1> QED BY <1>2, <1>3, <1>4, <1>5, <1>6, <1>7, <1>8, <1>9, <1>10 DEF ClientStep

(* ScansInOrder is preserved, and CompletedJobCovers with it.                 *)
LEMMA ScansKept ==
  ASSUME TypeOK, RequestsInOrder, ScansInOrder, [Next]_vars
  PROVE  ScansInOrder' /\ (CompletedJobCovers => CompletedJobCovers')
<1> SUFFICES ASSUME NEW j \in Jobs PROVE ScanOK(j)' /\ (Covers(j) => Covers(j)')
  <2>1. /\ ScansInOrder' <=> \A j \in Jobs : ScanOK(j)'
        /\ CompletedJobCovers' <=> \A j \in Jobs : Covers(j)'
    BY DEF ScansInOrder, ScanOK, CompletedJobCovers, Covers, Made
  <2> QED BY <2>1, ScansAndCovers
<1>0. EventsOfRows /\ (\A c \in Clients : OwnOK(c)) /\ ScanOK(j)
  BY InOrder, ScansAndCovers
<1>1. CASE \E c \in Clients : Requests(c) \/ ClientStep(c)
  BY <1>0, <1>1, RequestsOnJobs, ScanStays
<1>2. ASSUME suggestion' = suggestion PROVE \A k \in Jobs : Made(k)' = Made(k)
  BY <1>2 DEF Made
<1>3. ASSUME NEW k \in Jobs, WorkerStep(k) PROVE ScanOK(j)' /\ (Covers(j) => Covers(j)')
  <2>1. CASE k # j
    <3>1. scan'[j] = scan[j] /\ job'[j] = job[j] /\ life'[j] = life[j] /\ Made(j)' = Made(j)
      <4>1. CASE dispatch(k)
        BY <1>0, <1>2, <2>1, <4>1, DispatchWorks
      <4>2. CASE set_running(k)
        BY <1>0, <1>2, <2>1, <4>2, SetRunningWorks DEF JobGets
      <4>3. CASE scan_field(k)
        <5>1. suggestion'[j] = suggestion[j] /\ scan'[j] = scan[j] /\ job'[j] = job[j] /\ life'[j] = life[j]
          BY <1>0, <2>1, <4>3, ScanFieldWorks
        <5> QED BY <5>1 DEF Made
      <4>4. CASE run_cancelled(k)
        BY <1>0, <1>2, <2>1, <4>4, EndsWorks DEF JobGets, run_cancelled
      <4>5. CASE complete(k)
        BY <1>0, <1>2, <2>1, <4>5, EndsWorks DEF JobGets, complete
      <4>6. CASE fail(k)
        BY <1>0, <1>2, <2>1, <4>6, EndsWorks DEF JobGets, fail
      <4> QED BY <1>3, <4>1, <4>2, <4>3, <4>4, <4>5, <4>6 DEF WorkerStep
    <3> QED BY <1>0, <3>1, ScanStays
  <2>2. CASE dispatch(j)
    <3>1. /\ UNCHANGED <<suggestion, job>> /\ life[j] = "pending" /\ life'[j] = "running"
          /\ scan'[j].pc = "set_running"
      BY <1>0, <2>2, DispatchWorks
    <3>2. scan[j].pc = "absent" /\ Made(j) = {} /\ job[j].count = 0 /\ job[j].status # "completed"
      BY <1>0, <3>1 DEF ScanOK
    <3> QED BY <1>2, <3>1, <3>2 DEF ScanOK, Covers
  <2>3. CASE set_running(j)
    <3>1. /\ UNCHANGED <<suggestion, life>> /\ scan[j].pc = "set_running" /\ JobGets(j, "running")
          /\ scan'[j].pc = "scan" /\ scan'[j].next = 1
      BY <1>0, <2>3, SetRunningWorks
    <3>2. Made(j)' = {} /\ job'[j].count = 0 /\ job'[j].status = "running"
      BY <1>0, <1>2, <3>1 DEF ScanOK, JobGets
    <3>3. Passed(j)' = {}
      <4>1. \A f \in Fields : ~(f < scan'[j].next)
        <5> SUFFICES ASSUME NEW f \in Fields PROVE ~(f < 1)
          BY <3>1
        <5> QED BY FieldsAre
      <4> QED BY <4>1 DEF Passed
    <3>4. life'[j] \notin {"absent", "pending"}
      BY <1>0, <3>1 DEF ScanOK
    <3> QED BY <3>1, <3>2, <3>3, <3>4, FS_EmptySet DEF ScanOK, Covers
  <2>4. CASE scan_field(j)
    <3>1. /\ life' = life /\ scan[j].pc = "scan" /\ scan'[j].pc = "scan" /\ job'[j].status = job[j].status
          /\ Made(j)' = Passed(j)' /\ job'[j].count = Cardinality(Passed(j)')
      BY <1>0, <2>4, ScanFieldWorks
    <3>2. job[j].status # "completed" /\ life[j] \notin {"absent", "pending"}
      BY <1>0, <3>1 DEF ScanOK
    <3>3. Cardinality(Passed(j)') = Cardinality(Passed(j))'
      OBVIOUS
    <3> QED BY <3>1, <3>2, <3>3 DEF ScanOK, Covers
  <2>5. ASSUME NEW st \in {"completed", "failed", "cancelled"}, JobGets(j, st), scan[j].pc = "scan",
               scan'[j].pc = "done", UNCHANGED <<suggestion, life>>
        PROVE  ScanOK(j)' /\ (st # "completed" => Covers(j)')
    <3>1. life'[j] \notin {"absent", "pending"}
      BY <1>0, <2>5 DEF ScanOK
    <3> QED BY <2>5, <3>1 DEF ScanOK, Covers, JobGets
  <2>6. CASE run_cancelled(j)
    BY <1>0, <2>5, <2>6, EndsWorks DEF run_cancelled
  <2>7. CASE fail(j)
    BY <1>0, <2>5, <2>7, EndsWorks DEF fail
  <2>8. CASE complete(j)
    <3>1. /\ JobGets(j, "completed") /\ scan[j].pc = "scan" /\ scan'[j].pc = "done" /\ scan[j].next > NFields
          /\ UNCHANGED <<suggestion, life>>
      BY <1>0, <2>8, EndsWorks DEF complete
    <3>2. ScanOK(j)'
      BY <2>5, <3>1
    <3>3. scan[j].next \in Nat
      BY FieldsAre DEF TypeOK, Scans
    <3>4. Passed(j) = {f \in Fields : Flagged(f)}
      BY <3>1, <3>3, FieldsAre DEF Passed, Fields
    <3>5. Made(j)' = Passed(j) /\ job'[j].count = Cardinality(Passed(j))
      BY <1>0, <1>2, <3>1 DEF ScanOK, JobGets
    <3> QED BY <3>2, <3>4, <3>5 DEF Covers, Flagged, Flags
  <2> QED BY <1>3, <2>1, <2>2, <2>3, <2>4, <2>6, <2>7, <2>8 DEF WorkerStep
<1>4. CASE crash
  <2>1. UNCHANGED <<suggestion, job, life>>
    BY <1>0, <1>4, CrashKeeps
  <2>2. CASE scan'[j] = scan[j]
    BY <1>0, <1>2, <2>1, <2>2, ScanStays
  <2>3. CASE scan'[j] # scan[j]
    <3>1. scan[j].pc \in {"set_running", "scan"} /\ scan'[j].pc = "done"
      BY <1>0, <1>4, <2>3, CrashKeeps
    <3>2. ScanOK(j)'
      BY <1>0, <2>1, <3>1 DEF ScanOK
    <3>3. job[j].status # "completed"
      BY <1>0, <3>1 DEF ScanOK
    <3> QED BY <2>1, <3>2, <3>3 DEF Covers
  <2> QED BY <2>2, <2>3
<1>5. CASE UNCHANGED vars
  <2>1. UNCHANGED <<suggestion, job, life, scan>>
    BY <1>5 DEF vars, core
  <2> QED BY <1>0, <1>2, <2>1, ScanStays
<1> QED BY <1>1, <1>3, <1>4, <1>5 DEF Next

-----------------------------------------------------------------------------
(* Exports.                                                                   *)

ExportPCs == {"export_get", "export_put"}

(* Where a request that goes somewhere is then.                               *)
LEMMA GotoPc ==
  ASSUME TypeOK, NEW c \in Clients, NEW pc \in PCs, Goto(c, pc)
  PROVE  mem'[c].pc = pc
<1>1. mem'[c] = IF pc = "idle" THEN Idle ELSE [mem[c] EXCEPT !.pc = pc]
  BY GotoIs, MemChanges
<1>2. mem[c] \in Mems
  BY DEF TypeOK
<1> QED BY <1>1, <1>2, RestTypes DEF Mems

(* Where a request is that has something to do with rows, events or jobs.     *)
LEMMA AsideSteps ==
  ASSUME TypeOK, EventsOfRows, NEW c \in Clients, OwnOK(c), Requests(c) \/ ClientStep(c),
         ~insert_export(c), ~export_get(c), ~export_put(c)
  PROVE  mem[c].pc \notin ExportPCs /\ mem'[c].pc \notin ExportPCs /\ UNCHANGED <<exports, export_count>>
<1> USE DEF ExportPCs
<1>0. mem \in [Clients -> Mems] /\ mem[c] \in Mems
  BY DEF TypeOK
<1>1. CASE Requests(c)
  <2>1. mem[c].pc = "idle" /\ UNCHANGED <<exports, export_count>>
    BY <1>1 DEF Requests, table, field_action, bulk, revert_event, accept_suggestion, reject_suggestion,
                create_export, start_job, cancel_job, Begin
  <2>3. ASSUME NEW op PROVE Asking(op).pc = "select_states" /\ DOMAIN Asking(op) = DOMAIN Idle
    BY DEF Asking, Idle
  <2>4. DOMAIN Idle = {"pc", "op", "todo", "target", "job", "seen", "event"}
    BY DEF Idle
  <2>5. CASE table(c) \/ create_export(c) \/ start_job(c)
    <3>1. PICK op : Begin(c, Asking(op))
      BY <2>5 DEF table, create_export, start_job
    <3>2. mem' = [mem EXCEPT ![c] = Asking(op)]
      BY <3>1 DEF Begin
    <3> QED BY <1>0, <2>1, <2>3, <3>2
  <2>6. CASE field_action(c)
    <3>1. PICK op, f, lock : Begin(c, [Asking(op) EXCEPT !.todo = <<f>>, !.target = IF lock THEN 1 ELSE 0])
      BY <2>6 DEF field_action
    <3> DEFINE m == [Asking(op) EXCEPT !.todo = <<f>>, !.target = IF lock THEN 1 ELSE 0]
    <3>2. m.pc = "select_states"
      BY <2>3, <2>4
    <3>3. mem' = [mem EXCEPT ![c] = m]
      BY <3>1 DEF Begin
    <3> HIDE DEF m
    <3> QED BY <1>0, <2>1, <3>2, <3>3
  <2>7. CASE bulk(c)
    <3>1. PICK op : Begin(c, [Asking(op) EXCEPT !.todo = [f \in Fields |-> f], !.target = 1])
      BY <2>7 DEF bulk
    <3> DEFINE m == [Asking(op) EXCEPT !.todo = [f \in Fields |-> f], !.target = 1]
    <3>2. m.pc = "select_states"
      BY <2>3, <2>4
    <3>3. mem' = [mem EXCEPT ![c] = m]
      BY <3>1 DEF Begin
    <3> HIDE DEF m
    <3> QED BY <1>0, <2>1, <3>2, <3>3
  <2>8. CASE revert_event(c)
    <3>1. PICK e : Begin(c, [Asking("revert_event") EXCEPT !.todo = <<log[e].field>>, !.target = e])
      BY <2>8 DEF revert_event
    <3> DEFINE m == [Asking("revert_event") EXCEPT !.todo = <<log[e].field>>, !.target = e]
    <3>2. m.pc = "select_states"
      BY <2>3, <2>4
    <3>3. mem' = [mem EXCEPT ![c] = m]
      BY <3>1 DEF Begin
    <3> HIDE DEF m
    <3> QED BY <1>0, <2>1, <3>2, <3>3
  <2>9. CASE accept_suggestion(c)
    <3>1. PICK j, f : Begin(c, [Asking("accept_suggestion") EXCEPT !.todo = <<f>>, !.job = j])
      BY <2>9 DEF accept_suggestion
    <3> DEFINE m == [Asking("accept_suggestion") EXCEPT !.todo = <<f>>, !.job = j]
    <3>2. m.pc = "select_states"
      BY <2>3, <2>4
    <3>3. mem' = [mem EXCEPT ![c] = m]
      BY <3>1 DEF Begin
    <3> HIDE DEF m
    <3> QED BY <1>0, <2>1, <3>2, <3>3
  <2>10. CASE reject_suggestion(c)
    <3>1. PICK j, f : Begin(c, [Idle EXCEPT !.pc = AfterReject, !.op = "reject_suggestion", !.todo = <<f>>, !.job = j])
      BY <2>10 DEF reject_suggestion
    <3> DEFINE m == [Idle EXCEPT !.pc = AfterReject, !.op = "reject_suggestion", !.todo = <<f>>, !.job = j]
    <3>2. m.pc = "insert_reject"
      BY <2>4 DEF AfterReject
    <3>3. mem' = [mem EXCEPT ![c] = m]
      BY <3>1 DEF Begin
    <3> HIDE DEF m
    <3> QED BY <1>0, <2>1, <3>2, <3>3
  <2>11. CASE cancel_job(c)
    <3>1. PICK j : Begin(c, [Idle EXCEPT !.op = "cancel_job", !.job = j,
                         !.pc = IF job[j].status = "queued" THEN "cancel_queued" ELSE "cancelling",
                         !.target = IF job[j].linked THEN 1 ELSE 0])
      BY <2>11 DEF cancel_job
    <3> DEFINE m == [Idle EXCEPT !.op = "cancel_job", !.job = j,
                         !.pc = IF job[j].status = "queued" THEN "cancel_queued" ELSE "cancelling",
                         !.target = IF job[j].linked THEN 1 ELSE 0]
    <3>2. m.pc \in {"cancel_queued", "cancelling"}
      BY <2>4
    <3>3. mem' = [mem EXCEPT ![c] = m]
      BY <3>1 DEF Begin
    <3> HIDE DEF m
    <3> QED BY <1>0, <2>1, <3>2, <3>3
  <2> QED BY <1>1, <2>1, <2>5, <2>6, <2>7, <2>8, <2>9, <2>10, <2>11 DEF Requests
<1>2. CASE select_states(c)
  <2>1. mem[c].op \in FieldOps \cup {"table", "export", "start_job"}
    BY <1>2 DEF select_states, OwnOK, Course
  <2>2. AfterEnsure(mem[c].op) \in {"idle", "read_rows", "select_active", "read_state"} /\ AfterEnsure(mem[c].op) \in PCs
    BY <2>1, AfterEnsureIs
  <2>3. mem'[c].pc \in {"insert_states", AfterEnsure(mem[c].op)}
    <3>1. CASE Goto(c, AfterEnsure(mem[c].op))
      BY <2>2, <3>1, GotoPc
    <3>2. CASE mem' = [mem EXCEPT ![c].pc = "insert_states", ![c].seen = state]
      BY <1>0, <3>2 DEF Mems
    <3> QED BY <1>2, <3>1, <3>2 DEF select_states
  <2> QED BY <1>2, <2>2, <2>3 DEF select_states
<1>3. CASE insert_states(c)
  <2>1. mem[c].op \in FieldOps \cup {"table", "export", "start_job"}
    BY <1>3 DEF insert_states, OwnOK, Course
  <2>2. AfterEnsure(mem[c].op) \in {"idle", "read_rows", "select_active", "read_state"}
    BY <2>1, AfterEnsureIs
  <2>3. mem'[c].pc = AfterEnsure(mem[c].op)
    BY <1>0, <1>3, RestTypes DEF insert_states, Mems
  <2> QED BY <1>3, <2>2, <2>3 DEF insert_states
<1>4. CASE insert_conflict(c) \/ revert_link(c) \/ mark(c) \/ link(c) \/ core_cancel(c)
  <2>1. Goto(c, "idle") /\ UNCHANGED <<exports, export_count>> /\ mem[c].pc \notin ExportPCs
    BY <1>4 DEF insert_conflict, revert_link, mark, link, core_cancel
  <2> QED BY <2>1, GotoPc DEF PCs
<1>5. CASE read_state(c) \/ insert_event(c)
  <2>1. mem'[c].pc \in {"revert_put", "insert_event", "revert_link", "put_state"}
    BY <1>0, <1>5 DEF read_state, insert_event, Mems
  <2> QED BY <1>5, <2>1 DEF read_state, insert_event
<1>6. CASE put_state(c)
  <2>1. CASE Goto(c, "mark") \/ Goto(c, "idle")
    BY <1>6, <2>1, GotoPc DEF put_state, PCs
  <2>2. CASE mem' = [mem EXCEPT ![c].pc = "read_state", ![c].todo = Tail(@), ![c].event = NoEvent, ![c].seen = Idle.seen]
    <3>1. mem'[c].pc = "read_state"
      BY <1>0, <2>2 DEF Mems
    <3> QED BY <1>6, <3>1 DEF put_state
  <2> QED BY <1>6, <2>1, <2>2 DEF put_state
<1>7. CASE revert_put(c)
  BY <1>7, GotoPc DEF revert_put, PCs, OnField
<1>8. CASE insert_reject(c)
  BY <1>8, GotoPc DEF insert_reject, PCs
<1>9. CASE read_rows(c)
  <2>1. mem'[c].pc = "insert_export"
    BY <1>9, ReadRowsKeeps
  <2> QED BY <1>9, <2>1 DEF read_rows
<1>10. CASE select_active(c)
  BY <1>10, SelectActiveKeeps DEF select_active
<1>11. CASE insert_job(c)
  <2>1. mem'[c].pc = "enqueue"
    BY <1>11, InsertJobKeeps
  <2> QED BY <1>11, <2>1 DEF insert_job
<1>12. CASE enqueue(c)
  BY <1>12, GotoPc DEF enqueue, PCs, OnJob
<1>13. CASE cancel_put(c)
  BY <1>13, GotoPc DEF cancel_put, PCs, OnJob
<1> QED BY <1>1, <1>2, <1>3, <1>4, <1>5, <1>6, <1>7, <1>8, <1>9, <1>10, <1>11, <1>12, <1>13 DEF ClientStep

(* Requests that are counting an export are finitely many.                    *)
LEMMA CountingIsCounted ==
  IsFiniteSet(Counting) /\ Cardinality(Counting) \in Nat /\ Counting \subseteq Clients
  /\ (Cardinality(Counting) = 0 <=> Counting = {})
<1>1. Counting \in SUBSET Clients /\ IsFiniteSet(Clients)
  BY ConstantsAssumption DEF Counting
<1>2. IsFiniteSet(Counting)
  BY <1>1, FS_Subset
<1> QED BY <1>1, <1>2, FS_CardinalityType, FS_EmptySet

(* An export is added, and the count goes up with it or later.                *)
LEMMA CountsKept ==
  ASSUME TypeOK, RequestsInOrder, ScansInOrder, CountsInOrder, [Next]_vars
  PROVE  CountsInOrder'
<1> USE DEF ExportPCs
<1> DEFINE n == Cardinality(Counting)
           L == Len(exports)
<1>0. /\ EventsOfRows /\ (\A c \in Clients : OwnOK(c)) /\ export_count \in Nat /\ L \in Nat /\ n \in Nat
      /\ IsFiniteSet(Counting) /\ Counting \subseteq Clients
      /\ export_count + n <= L
      /\ \A c \in Clients : mem[c].pc = "export_put" => mem[c].target + n <= L
      /\ exports # <<>> /\ crashes = 0 /\ Counting = {} => export_count > 0
      /\ \A c \in Clients : mem[c] \in Mems /\ mem[c].target \in Nat
  <2>1. export_count \in Nat /\ L \in Nat /\ \A c \in Clients : mem[c] \in Mems
    BY DEF TypeOK
  <2>2. \A c \in Clients : mem[c].target \in Nat
    BY <2>1 DEF Mems
  <2>3. /\ export_count + n <= L
        /\ \A c \in Clients : mem[c].pc = "export_put" => mem[c].target + n <= L
        /\ exports # <<>> /\ crashes = 0 /\ Counting = {} => export_count > 0
    BY DEF CountsInOrder
  <2> QED BY <2>1, <2>2, <2>3, InOrder, CountingIsCounted
<1>1. ASSUME Counting' = Counting, UNCHANGED <<exports, export_count, crashes>>,
             \A c \in Clients : mem'[c].pc = "export_put" => mem[c].pc = "export_put" /\ mem'[c].target = mem[c].target
      PROVE  CountsInOrder'
  BY <1>0, <1>1 DEF CountsInOrder
<1>2. ASSUME NEW c \in Clients, Requests(c) \/ ClientStep(c),
             ~insert_export(c), ~export_get(c), ~export_put(c)
      PROVE  CountsInOrder'
  <2>1. /\ mem[c].pc \notin ExportPCs /\ mem'[c].pc \notin ExportPCs
        /\ UNCHANGED <<exports, export_count>>
    BY <1>0, <1>2, AsideSteps
  <2>2. (\A d \in Clients \ {c} : mem'[d] = mem[d]) /\ crashes' = crashes
    BY <1>0, <1>2, ClientSteps DEF Keeps
  <2>3. Counting' = Counting
    BY <2>1, <2>2 DEF Counting
  <2> QED BY <1>1, <2>1, <2>2, <2>3
<1>3. ASSUME NEW c \in Clients, insert_export(c) PROVE CountsInOrder'
  <2>1. /\ mem[c].pc = "insert_export" /\ mem'[c].pc = "export_get" /\ Len(exports') = L + 1
        /\ \A d \in Clients \ {c} : mem'[d] = mem[d]
    BY <1>0, <1>3, InsertExportKeeps DEF Keeps
  <2>2. Counting' = Counting \cup {c} /\ c \notin Counting
    BY <2>1 DEF Counting
  <2>3. Cardinality(Counting') = n + 1
    BY <1>0, <2>2, FS_AddElement
  <2>4. export_count' = export_count
    BY <1>3 DEF insert_export
  <2>5. Cardinality(Counting)' = Cardinality(Counting')
    OBVIOUS
  <2>6. export_count' + Cardinality(Counting)' <= Len(exports')
    BY <1>0, <2>1, <2>3, <2>4, <2>5
  <2>7. ASSUME NEW d \in Clients, mem'[d].pc = "export_put"
        PROVE  mem'[d].target + Cardinality(Counting)' <= Len(exports')
    <3>1. mem'[d] = mem[d] /\ mem[d].target + n <= L /\ mem[d].target \in Nat
      BY <1>0, <2>1, <2>7
    <3> QED BY <1>0, <2>1, <2>3, <2>5, <3>1
  <2>8. Counting' # {}
    BY <2>2
  <2> QED BY <2>6, <2>7, <2>8 DEF CountsInOrder
<1>4. ASSUME NEW c \in Clients, export_get(c) PROVE CountsInOrder'
  <2>1. /\ mem[c].pc = "export_get" /\ mem'[c].pc = "export_put" /\ mem'[c].target = export_count
        /\ \A d \in Clients \ {c} : mem'[d] = mem[d]
    BY <1>0, <1>4, ExportGetKeeps DEF Keeps
  <2>2. Counting' = Counting /\ Counting' # {}
    BY <2>1 DEF Counting
  <2>3. UNCHANGED <<exports, export_count>>
    BY <1>4 DEF export_get
  <2>4. ASSUME NEW d \in Clients, mem'[d].pc = "export_put"
        PROVE  mem'[d].target + n <= L
    BY <1>0, <2>1, <2>4
  <2> QED BY <1>0, <2>2, <2>3, <2>4 DEF CountsInOrder
<1>5. ASSUME NEW c \in Clients, export_put(c) PROVE CountsInOrder'
  <2>1. /\ mem[c].pc = "export_put" /\ mem'[c].pc = "idle" /\ export_count' = mem[c].target + 1
        /\ \A d \in Clients \ {c} : mem'[d] = mem[d]
    BY <1>0, <1>5, ExportPutKeeps DEF Keeps
  <2>2. Counting' = Counting \ {c} /\ c \in Counting
    BY <2>1 DEF Counting
  <2>3. Cardinality(Counting') = n - 1
    BY <1>0, <2>2, FS_RemoveElement
  <2>4. Cardinality(Counting)' = Cardinality(Counting')
    OBVIOUS
  <2>5. exports' = exports
    BY <1>5 DEF export_put
  <2>6. export_count' + Cardinality(Counting)' <= Len(exports') /\ export_count' > 0
    BY <1>0, <2>1, <2>3, <2>4, <2>5
  <2>7. ASSUME NEW d \in Clients, mem'[d].pc = "export_put"
        PROVE  mem'[d].target + Cardinality(Counting)' <= Len(exports')
    <3>1. mem'[d] = mem[d] /\ mem[d].target + n <= L /\ mem[d].target \in Nat
      BY <1>0, <2>1, <2>7
    <3> QED BY <1>0, <2>3, <2>4, <2>5, <3>1
  <2> QED BY <2>6, <2>7 DEF CountsInOrder
<1>6. CASE \E c \in Clients : Requests(c) \/ ClientStep(c)
  BY <1>2, <1>3, <1>4, <1>5, <1>6
<1>7. ASSUME UNCHANGED <<mem, exports, export_count, crashes>> PROVE CountsInOrder'
  <2>1. Counting' = Counting
    BY <1>7 DEF Counting
  <2> QED BY <1>1, <1>7, <2>1
<1>8. CASE \E j \in Jobs : WorkerStep(j)
  BY <1>0, <1>7, <1>8, WorkerSteps DEF Works
<1>9. CASE crash
  <2>1. /\ UNCHANGED <<exports, export_count>> /\ crashes' # 0
        /\ \/ mem' = mem
           \/ \E c \in Clients : mem'[c].pc = "idle" /\ \A d \in Clients \ {c} : mem'[d] = mem[d]
    BY <1>0, <1>9, CrashKeeps DEF Keeps, Works
  <2>2. Counting' \in SUBSET Counting
    BY <2>1 DEF Counting
  <2>3. Cardinality(Counting') <= n /\ Cardinality(Counting') \in Nat
    BY <1>0, <2>2, FS_Subset, FS_CardinalityType
  <2>4. ASSUME NEW d \in Clients, mem'[d].pc = "export_put"
        PROVE  mem'[d].target + n <= L /\ mem'[d].target \in Nat
    BY <1>0, <2>1, <2>4
  <2>5. Cardinality(Counting)' = Cardinality(Counting')
    OBVIOUS
  <2>6. export_count' + Cardinality(Counting)' <= Len(exports')
    BY <1>0, <2>1, <2>3, <2>5
  <2>7. ASSUME NEW d \in Clients, mem'[d].pc = "export_put"
        PROVE  mem'[d].target + Cardinality(Counting)' <= Len(exports')
    BY <1>0, <2>1, <2>3, <2>4, <2>5, <2>7
  <2> QED BY <2>1, <2>6, <2>7 DEF CountsInOrder
<1>10. CASE UNCHANGED vars
  BY <1>7, <1>10 DEF vars, bounds
<1> QED BY <1>6, <1>8, <1>9, <1>10 DEF Next

(* ExportWarns is preserved.                                                  *)
LEMMA WarnsKept ==
  ASSUME TypeOK, RequestsInOrder, ScansInOrder, ExportWarns, [Next]_vars
  PROVE  ExportWarns'
<1>0. EventsOfRows /\ (\A c \in Clients : OwnOK(c)) /\ exports \in Seq(ExportsOfRows) /\ Len(exports) \in Nat
  BY InOrder DEF TypeOK
<1>1. ASSUME exports' = exports PROVE ExportWarns'
  BY <1>1 DEF ExportWarns
<1>2. ASSUME NEW c \in Clients, insert_export(c) PROVE ExportWarns'
  <2> DEFINE x == Export(mem[c].seen)
  <2>1. exports' = Append(exports, x) /\ mem[c].seen \in [Fields -> FieldRows]
    BY <1>0, <1>2, InsertExportKeeps
  <2>2. /\ x.statuses \cap {"unreviewed", "rerun_required"} # {} =>
              x.unreviewed_fields_present \/ "multimodal_pending" \in x.statuses
        /\ x \in ExportsOfRows
    BY <2>1, ExportTypes
  <2> HIDE DEF x
  <2>3. /\ Len(exports') = Len(exports) + 1 /\ exports'[Len(exports) + 1] = x
        /\ \A i \in 1 .. Len(exports) : exports'[i] = exports[i]
    BY <1>0, <2>1, <2>2
  <2>4. ASSUME NEW i \in 1 .. Len(exports'), exports'[i].statuses \cap {"unreviewed", "rerun_required"} # {}
        PROVE  exports'[i].unreviewed_fields_present \/ "multimodal_pending" \in exports'[i].statuses
    <3>1. CASE i = Len(exports) + 1
      BY <2>2, <2>3, <2>4, <3>1
    <3>2. CASE i \in 1 .. Len(exports)
      BY <2>3, <2>4, <3>2 DEF ExportWarns
    <3> QED BY <1>0, <2>3, <3>1, <3>2
  <2> QED BY <2>4 DEF ExportWarns
<1>3. CASE \E c \in Clients : Requests(c) \/ ClientStep(c)
  <2>1. PICK c \in Clients : Requests(c) \/ ClientStep(c)
    BY <1>3
  <2>2. insert_export(c) \/ exports' = exports
    <3>1. export_get(c) \/ export_put(c) => exports' = exports
      BY DEF export_get, export_put
    <3> QED BY <1>0, <2>1, <3>1, AsideSteps
  <2> QED BY <1>1, <1>2, <2>2
<1>4. CASE \E j \in Jobs : WorkerStep(j)
  BY <1>0, <1>1, <1>4, WorkerSteps DEF Works
<1>5. CASE crash \/ UNCHANGED vars
  BY <1>1, <1>5 DEF crash, vars
<1> QED BY <1>3, <1>4, <1>5 DEF Next

(* The count is never ahead, and no longer zero once every export is done.    *)
LEMMA Counted ==
  ASSUME TypeOK, RequestsInOrder, CountsInOrder
  PROVE  ExportsCounted
<1>1. export_count + Cardinality(Counting) <= Len(exports) /\ export_count \in Nat /\ Len(exports) \in Nat
      /\ Cardinality(Counting) \in Nat
  BY CountingIsCounted DEF CountsInOrder, TypeOK
<1>2. ASSUME \A c \in Clients : mem[c].op # "export" PROVE Counting = {}
  BY <1>2 DEF RequestsInOrder, Course, Counting
<1> QED BY <1>1, <1>2 DEF ExportsCounted, CountsInOrder

-----------------------------------------------------------------------------
(* The theorems.                                                              *)

(* The types of the initial state.                                            *)
LEMMA InitTypes == Init => TypeOK
<1> SUFFICES ASSUME Init PROVE TypeOK
  OBVIOUS
<1>1. state \in [Fields -> FieldRows \cup {Absent}] /\ (\A f \in Fields : state[f].last = NoEvent)
  BY RowTypes DEF Init
<1>2. log \in Seq(Events) /\ exports \in Seq(ExportsOfRows) /\ export_count \in Nat
  BY DEF Init
<1>3. suggestion \in [Jobs -> [Fields -> Suggestions]]
  BY DEF Init, NoSuggestion, Suggestions, Values, NoValue
<1>4. job \in [Jobs -> ReviewJobs]
  BY FieldsAre DEF Init, NoJob, ReviewJobs
<1>5. life \in [Jobs -> {"absent", "pending", "running", "settled"}] /\ attempts \in [Jobs -> Nat]
  BY DEF Init, Queue!Init
<1>6. mem \in [Clients -> Mems] /\ scan \in [Jobs -> Scans]
  BY RestTypes DEF Init
<1>7. requests \in 0 .. MaxRequests /\ crashes \in 0 .. MaxCrashes /\ asked \subseteq Jobs
  BY ConstantsAssumption DEF Init
<1> QED BY <1>1, <1>2, <1>3, <1>4, <1>5, <1>6, <1>7 DEF TypeOK

(* What holds initially.                                                      *)
LEMMA InitIsOK == Init => ReviewInv /\ ReviewKept /\ CompletedJobCovers /\ ExportWarns /\ CountsInOrder
<1> SUFFICES ASSUME Init PROVE ReviewInv /\ ReviewKept /\ CompletedJobCovers /\ ExportWarns /\ CountsInOrder
  OBVIOUS
<1>1. TypeOK
  BY InitTypes
<1>2. StateIsLogged
  BY DEF Init, StateIsLogged
<1>3. /\ \A j \in Jobs, f \in Fields : suggestion[j][f].status = "absent"
      /\ \A j \in Jobs : Made(j) = {}
      /\ \A j \in Jobs : job[j].status = "absent" /\ job[j].count = 0 /\ scan[j].pc = "absent"
  BY DEF Init, NoSuggestion, Made, NoJob, NotScanning
<1>4. ResolvedIsLogged
  BY <1>3 DEF ResolvedIsLogged
<1>5. \A c \in Clients : mem[c] = Idle
  BY DEF Init
<1>6. ASSUME NEW c \in Clients PROVE RowsAreRead(c) /\ Asks(c) /\ Course(c) /\ EventIsWritten(c)
  <2>1. mem[c].pc = "idle" /\ mem[c].op = "none"
    BY <1>5, RestTypes
  <2> QED BY <2>1 DEF RowsAreRead, Asks, Course, EventIsWritten, WithRows, OnField, OnJob, FieldOps, FieldActions
<1>7. EventsOfRows /\ ReviewKept
  BY DEF Init, EventsOfRows, ReviewKept
<1>8. ScansInOrder /\ CompletedJobCovers
  BY <1>3 DEF ScansInOrder, CompletedJobCovers
<1>9. ExportWarns
  BY DEF Init, ExportWarns
<1>10. CountsInOrder
  <2>1. \A c \in Clients : mem[c].pc = "idle"
    BY <1>5, RestTypes
  <2>2. Counting = {}
    BY <2>1 DEF Counting
  <2>3. Cardinality(Counting) = 0 /\ Len(exports) = 0 /\ export_count = 0 /\ exports = <<>>
    BY <2>2, FS_EmptySet DEF Init
  <2> QED BY <2>1, <2>3 DEF CountsInOrder
<1> QED BY <1>1, <1>2, <1>4, <1>6, <1>7, <1>8, <1>9, <1>10 DEF ReviewInv, RequestsInOrder

(* Types, the order of requests and of workers, and what the log explains.    *)
LEMMA ReviewStep == ReviewInv /\ [Next]_vars => ReviewInv'
BY StepKeeps, ExplainedKept, ResolvedKept, ScansKept DEF ReviewInv

(* The event log explains every row and every resolution of a suggestion,     *)
(* whatever requests and workers overlap.                                     *)
THEOREM ReviewCorrect == Spec => []ReviewInv
<1>1. Init => ReviewInv
  BY InitIsOK
<1> QED BY <1>1, ReviewStep, PTL DEF Spec

(* No review gets lost when requests overlap that find rows missing.          *)
THEOREM ReviewsAreKept == Spec => []ReviewKept
<1>1. Init => ReviewKept
  BY InitIsOK
<1>2. ReviewInv /\ ReviewKept /\ [Next]_vars => ReviewKept'
  BY ReviewStaysKept DEF ReviewInv
<1> QED BY <1>1, <1>2, ReviewCorrect, PTL DEF Spec

(* A completed review job has suggested something for each flagged field.     *)
THEOREM JobsCover == Spec => []CompletedJobCovers
<1>1. Init => CompletedJobCovers
  BY InitIsOK
<1>2. ReviewInv /\ CompletedJobCovers /\ [Next]_vars => CompletedJobCovers'
  BY ScansKept DEF ReviewInv
<1> QED BY <1>1, <1>2, ReviewCorrect, PTL DEF Spec

(* Exports warn of unreviewed fields, and are counted when they are done.     *)
THEOREM ExportsAreTold == Spec => []ExportsTell
<1>1. Init => ExportWarns /\ CountsInOrder
  BY InitIsOK
<1>2. ReviewInv /\ ExportWarns /\ CountsInOrder /\ [Next]_vars => (ExportWarns /\ CountsInOrder)'
  BY WarnsKept, CountsKept DEF ReviewInv
<1>3. ReviewInv /\ ExportWarns /\ CountsInOrder => ExportsTell
  BY Counted DEF ReviewInv, ExportsTell
<1> QED BY <1>1, <1>2, <1>3, ReviewCorrect, PTL DEF Spec
=============================================================================
