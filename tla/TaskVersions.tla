---------------------------- MODULE TaskVersions ----------------------------
(* The versions a structured extraction task is built from: frozen            *)
(* collections of papers (collection.py), frozen schemas (schema_designer.py) *)
(* and the prompt contracts compiled from both (prompt_contract.py), and what *)
(* the row of the task says of them (store.py).                               *)
(*                                                                            *)
(* Every statement commits on its own, so requests interleave between any two *)
(* of them and a process may die between any two.  Status, archive flag and   *)
(* duplicate groups are left out: no property tells them apart.  A schema is  *)
(* its number of fields and the collection its draft was saved against.       *)
EXTENDS Integers, Sequences, FiniteSets

CONSTANTS
    Candidates,     \* candidate papers of the task
    FieldCounts,    \* numbers of fields a draft may have
    Callers,        \* web requests in flight at the same time
    MaxCollections, MaxSchemas, MaxContracts,   \* bounds: versions of each kind
    MaxDeaths      \* bound: requests that die

ASSUME VersionsAssumption ==
    /\ IsFiniteSet(Candidates) /\ IsFiniteSet(Callers)
    /\ FieldCounts \subseteq Nat
    /\ MaxCollections \in Nat /\ MaxSchemas \in Nat /\ MaxContracts \in Nat /\ MaxDeaths \in Nat

VARIABLES
    included,     \* the ..._candidates whose user_decision is "include"
    collections,  \* ..._collection_versions with their ..._collection_papers
    version_draft,   \* ..._schema_drafts: the row of the task, or NoSchemaDraft
    schemas,      \* ..._schema_versions
    contracts,    \* ..._prompt_contracts
    task,         \* current versions and statistics of the task
    doing,        \* what each request is at and has read
    deaths

tables == <<included, collections, version_draft, schemas, contracts, task>>
version_vars == <<tables, doing, deaths>>

NoSchemaDraft == [fields |-> 0, base |-> 0]
IdleRequest ==
    [pc |-> "idle", ids |-> {}, version |-> 0, fields |-> 0, base |-> 0, schema |-> 0, papers |-> 0]

Steps == {"idle", "collection_next", "collection_insert", "insert_papers", "draft_put",
          "schema_next", "schema_insert", "contract_next", "contract_insert",
          "collection_get", "collection_put", "schema_get", "schema_put"}

Collection == [count : Nat, ids : SUBSET Candidates, papers : SUBSET Candidates]
CollectionNumber == 0 .. Len(collections)
SchemaNumber == 0 .. Len(schemas)
Schema == [fields : Nat, base : CollectionNumber]

VersionTypes ==
    /\ included \subseteq Candidates
    /\ collections \in Seq(Collection)
    /\ version_draft \in Schema
    /\ schemas \in Seq(Schema)
    /\ contracts \in Seq([collection : CollectionNumber, schema : SchemaNumber])
    /\ task \in [collection : CollectionNumber, schema : SchemaNumber, papers : Nat, fields : Nat]
    /\ doing \in [Callers -> [pc : Steps, ids : SUBSET Candidates, version : Nat, fields : Nat,
                              base : CollectionNumber, schema : SchemaNumber, papers : Nat]]
    /\ deaths \in 0 .. MaxDeaths

VersionsInit ==
    /\ included = {}
    /\ collections = <<>> /\ schemas = <<>> /\ contracts = <<>>
    /\ version_draft = NoSchemaDraft
    /\ task = [collection |-> 0, schema |-> 0, papers |-> 0, fields |-> 0]
    /\ doing = [c \in Callers |-> IdleRequest]
    /\ deaths = 0

-----------------------------------------------------------------------------
(* A definition named Bug... is a mutated form of the one after it.           *)

VersionGoto(c, pc) ==
    doing' = IF pc = "idle" THEN [doing EXCEPT ![c] = IdleRequest] ELSE [doing EXCEPT ![c].pc = pc]

BugTaken(versions, v) == FALSE

(* The primary key (task_id, version): another request has inserted it.       *)
Taken(versions, v) == v <= Len(versions)

(* The row of version v is written: a new one, when its number is free.       *)
Put(versions, v, row) ==
    IF v <= Len(versions) THEN [versions EXCEPT ![v] = row] ELSE Append(versions, row)

BugAfterVersion == "collection_get"

(* What freeze does when it has inserted the row of the version.              *)
AfterVersion == "insert_papers"

(* The number of papers the task is told of.                                  *)
PaperCount(c) == Cardinality(doing[c].ids)

(* The collection a draft is saved against: the current one, as it was read.  *)
Base(c) == doing[c].base

-----------------------------------------------------------------------------
(* What the user decides on a candidate; a search adds candidates that are not*)
(* included yet, and a bulk decision is a decision on one after the other.    *)

set_decision(x, d) ==
    /\ included' = IF d = "include" THEN included \cup {x} ELSE included \ {x}
    /\ UNCHANGED <<collections, version_draft, schemas, contracts, task, doing, deaths>>

-----------------------------------------------------------------------------
(* Freezing the collection.                                                   *)

freeze_collection(c) ==
    /\ doing[c].pc = "idle" /\ Len(collections) < MaxCollections
    /\ included # {}
    /\ doing' = [doing EXCEPT ![c].pc = "collection_next", ![c].ids = included]
    /\ UNCHANGED <<tables, deaths>>

next_collection_version(c) ==
    /\ doing[c].pc = "collection_next"
    /\ doing' = [doing EXCEPT ![c].pc = "collection_insert", ![c].version = Len(collections) + 1]
    /\ UNCHANGED <<tables, deaths>>

insert_collection(c) ==
    /\ doing[c].pc = "collection_insert" /\ ~Taken(collections, doing[c].version)
    /\ collections' = Put(collections, doing[c].version,
                          [count |-> Cardinality(doing[c].ids), ids |-> doing[c].ids, papers |-> {}])
    /\ VersionGoto(c, AfterVersion)
    /\ UNCHANGED <<included, version_draft, schemas, contracts, task, deaths>>

insert_paper(c) ==
    LET v == doing[c].version IN
    /\ doing[c].pc = "insert_papers"
    /\ \E x \in doing[c].ids \ collections[v].papers :
         /\ collections' = [collections EXCEPT ![v].papers = @ \cup {x}]
         /\ VersionGoto(c, IF collections'[v].papers = doing[c].ids THEN "collection_get"
                           ELSE "insert_papers")
    /\ UNCHANGED <<included, version_draft, schemas, contracts, task, deaths>>

(* update_collection_state writes back the statistics it has read.            *)
collection_get(c) ==
    /\ doing[c].pc = "collection_get"
    /\ doing' = [doing EXCEPT ![c].pc = "collection_put", ![c].fields = task.fields]
    /\ UNCHANGED <<tables, deaths>>

collection_put(c) ==
    /\ doing[c].pc = "collection_put"
    /\ task' = [task EXCEPT !.collection = doing[c].version,
                            !.papers = PaperCount(c), !.fields = doing[c].fields]
    /\ VersionGoto(c, "idle")
    /\ UNCHANGED <<included, collections, version_draft, schemas, contracts, deaths>>

-----------------------------------------------------------------------------
(* The draft of the schema and freezing it.                                   *)

save_schema_draft(c, n) ==
    /\ doing[c].pc = "idle" /\ task.collection # 0
    /\ doing' = [doing EXCEPT ![c].pc = "draft_put", ![c].fields = n, ![c].base = task.collection]
    /\ UNCHANGED <<tables, deaths>>

(* A frozen schema becomes the draft, based on the current collection.        *)
duplicate_schema_to_draft(c) == \E v \in 1 .. Len(schemas) : save_schema_draft(c, schemas[v].fields)

schema_draft_put(c) ==
    /\ doing[c].pc = "draft_put"
    /\ version_draft' = [fields |-> doing[c].fields, base |-> Base(c)]
    /\ VersionGoto(c, "idle")
    /\ UNCHANGED <<included, collections, schemas, contracts, task, deaths>>

(* A draft without fields cannot be frozen.                                   *)
freeze_schema(c) ==
    /\ doing[c].pc = "idle" /\ Len(schemas) < MaxSchemas
    /\ version_draft # NoSchemaDraft /\ version_draft.fields # 0
    /\ doing' = [doing EXCEPT ![c].pc = "schema_next", ![c].fields = version_draft.fields,
                              ![c].base = version_draft.base]
    /\ UNCHANGED <<tables, deaths>>

next_schema_version(c) ==
    /\ doing[c].pc = "schema_next"
    /\ doing' = [doing EXCEPT ![c].pc = "schema_insert", ![c].version = Len(schemas) + 1]
    /\ UNCHANGED <<tables, deaths>>

insert_schema(c) ==
    /\ doing[c].pc = "schema_insert" /\ ~Taken(schemas, doing[c].version)
    /\ schemas' = Put(schemas, doing[c].version, [fields |-> doing[c].fields, base |-> doing[c].base])
    /\ VersionGoto(c, "schema_get")
    /\ UNCHANGED <<included, collections, version_draft, contracts, task, deaths>>

schema_get(c) ==
    /\ doing[c].pc = "schema_get"
    /\ doing' = [doing EXCEPT ![c].pc = "schema_put", ![c].papers = task.papers]
    /\ UNCHANGED <<tables, deaths>>

schema_put(c) ==
    /\ doing[c].pc = "schema_put"
    /\ task' = [task EXCEPT !.schema = doing[c].version,
                            !.fields = doing[c].fields, !.papers = doing[c].papers]
    /\ VersionGoto(c, "idle")
    /\ UNCHANGED <<included, collections, version_draft, schemas, contracts, deaths>>

-----------------------------------------------------------------------------
(* Prompt contracts, for the versions the request names or for the current    *)
(* ones, which are among those it may name.                                   *)

Exists(versions, v) == v \in 1 .. Len(versions)

compile_contract(c) ==
    /\ doing[c].pc = "idle" /\ Len(contracts) < MaxContracts
    /\ \E collection \in 1 .. MaxCollections, schema \in 1 .. MaxSchemas :
         /\ Exists(collections, collection) /\ Exists(schemas, schema)
         /\ doing' = [doing EXCEPT ![c].pc = "contract_next", ![c].base = collection,
                                   ![c].schema = schema]
    /\ UNCHANGED <<tables, deaths>>

next_contract_version(c) ==
    /\ doing[c].pc = "contract_next"
    /\ doing' = [doing EXCEPT ![c].pc = "contract_insert", ![c].version = Len(contracts) + 1]
    /\ UNCHANGED <<tables, deaths>>

insert_contract(c) ==
    /\ doing[c].pc = "contract_insert" /\ ~Taken(contracts, doing[c].version)
    /\ contracts' = Put(contracts, doing[c].version,
                        [collection |-> doing[c].base, schema |-> doing[c].schema])
    /\ VersionGoto(c, "idle")
    /\ UNCHANGED <<included, collections, version_draft, schemas, task, deaths>>

-----------------------------------------------------------------------------
(* Another request has taken the number in between: this one raises.          *)
conflict(c) ==
    /\ \/ doing[c].pc = "collection_insert" /\ Taken(collections, doing[c].version)
       \/ doing[c].pc = "schema_insert" /\ Taken(schemas, doing[c].version)
       \/ doing[c].pc = "contract_insert" /\ Taken(contracts, doing[c].version)
    /\ VersionGoto(c, "idle")
    /\ UNCHANGED <<tables, deaths>>

(* A request dies; one that has written nothing leaves nothing behind.        *)
request_dies(c) ==
    /\ deaths < MaxDeaths /\ deaths' = deaths + 1
    /\ doing[c].pc \in {"insert_papers", "collection_get", "collection_put", "schema_get", "schema_put"}
    /\ VersionGoto(c, "idle")
    /\ UNCHANGED tables

VersionsNext ==
    \/ \E x \in Candidates, d \in {"include", "exclude"} : set_decision(x, d)
    \/ \E c \in Callers :
         \/ freeze_collection(c) \/ next_collection_version(c) \/ insert_collection(c)
         \/ insert_paper(c) \/ collection_get(c) \/ collection_put(c)
         \/ (\E n \in FieldCounts : save_schema_draft(c, n)) \/ duplicate_schema_to_draft(c)
         \/ schema_draft_put(c)
         \/ freeze_schema(c) \/ next_schema_version(c) \/ insert_schema(c)
         \/ schema_get(c) \/ schema_put(c)
         \/ compile_contract(c) \/ next_contract_version(c) \/ insert_contract(c)
         \/ conflict(c) \/ request_dies(c)

VersionsSpec == VersionsInit /\ [][VersionsNext]_version_vars

-----------------------------------------------------------------------------
(* Properties.                                                                *)

Complete(v) ==
    /\ v \in 1 .. Len(collections)
    /\ collections[v].papers = collections[v].ids
    /\ collections[v].count = Cardinality(collections[v].papers)

(* The collection the task, its draft or a frozen schema names is complete:   *)
(* all papers the user had included are in it and its count is theirs, even   *)
(* when a freeze dies half way or two of them overlap.                        *)
CurrentComplete ==
    /\ task.collection # 0 => Complete(task.collection)
    /\ version_draft.base # 0 => Complete(version_draft.base)
    /\ \A v \in 1 .. Len(schemas) : Complete(schemas[v].base)

(* What the task and the contracts refer to exists, and the statistics of the *)
(* task are those of versions that were frozen, though not always of the      *)
(* current ones, since two freezes may write them back over each other.       *)
ReferencesExist ==
    /\ task.papers # 0 => \E v \in 1 .. Len(collections) : task.papers = collections[v].count
    /\ task.fields # 0 => \E v \in 1 .. Len(schemas) : task.fields = schemas[v].fields
    /\ \A v \in 1 .. Len(contracts) : contracts[v].collection # 0 /\ contracts[v].schema # 0

(* Why these hold: a version has the papers it counts, or some of them yet,   *)
(* a draft is based on a collection,                                          *)
RowsAreTrue ==
    /\ \A v \in 1 .. Len(collections) :
         /\ collections[v].papers \subseteq collections[v].ids
         /\ collections[v].count = Cardinality(collections[v].ids)
    /\ version_draft # NoSchemaDraft => version_draft.base # 0

(* and a request that has read something, or has inserted a version, still    *)
(* finds it, with what it is about to write of it.                            *)
Counted(n) == \E v \in 1 .. Len(collections) : collections[v].count = n
HasFields(n) == \E v \in 1 .. Len(schemas) : schemas[v].fields = n
InOrder(c) ==
    /\ doing[c].pc = "collection_insert" => doing[c].version \in 1 .. Len(collections) + 1
    /\ doing[c].pc = "schema_insert" => doing[c].version \in 1 .. Len(schemas) + 1
    /\ doing[c].pc = "contract_insert" => doing[c].version \in 1 .. Len(contracts) + 1
    /\ doing[c].pc \in {"insert_papers", "collection_get", "collection_put"} =>
         Exists(collections, doing[c].version) /\ collections[doing[c].version].ids = doing[c].ids
    /\ doing[c].pc \in {"collection_get", "collection_put"} => Complete(doing[c].version)
    /\ doing[c].pc = "collection_put" /\ doing[c].fields # 0 => HasFields(doing[c].fields)
    /\ doing[c].pc \in {"draft_put", "schema_next", "schema_insert"} => Complete(doing[c].base)
    /\ doing[c].pc \in {"schema_get", "schema_put"} =>
         Exists(schemas, doing[c].version) /\ schemas[doing[c].version].fields = doing[c].fields
    /\ doing[c].pc = "schema_put" /\ doing[c].papers # 0 => Counted(doing[c].papers)
    /\ doing[c].pc \in {"contract_next", "contract_insert"} =>
         Exists(collections, doing[c].base) /\ Exists(schemas, doing[c].schema)
RequestsInOrder == \A c \in Callers : InOrder(c)

(* What is named is there, complete and told truly.                           *)
VersionsInv ==
    /\ VersionTypes /\ CurrentComplete /\ ReferencesExist
    /\ RowsAreTrue /\ RequestsInOrder

Kept(old, new) == Len(new) >= Len(old) /\ \A v \in 1 .. Len(old) : new[v] = old[v]

(* A frozen version never changes again: overlapping freezes that compute the *)
(* same next number cannot both write it, and only papers that the version    *)
(* lists are ever added to it.                                                *)
VersionsKept ==
    [][/\ Kept(schemas, schemas') /\ Kept(contracts, contracts')
       /\ Len(collections') >= Len(collections)
       /\ \A v \in 1 .. Len(collections) :
            /\ collections'[v].ids = collections[v].ids /\ collections'[v].count = collections[v].count
            /\ collections[v].papers \subseteq collections'[v].papers]_version_vars
=============================================================================
