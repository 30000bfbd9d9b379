----------------------------- MODULE Knowledge -----------------------------
(***************************************************************************)
(* The knowledge graph: IngestionService.ingest (atlas.knowledge.ingestion)*)
(* writing documents, PostgresKnowledgeGraph (atlas.persistence.           *)
(* knowledge_store) storing and searching them under the policy table, and *)
(* the CLI that edits that table.  Connections are autocommit, so every    *)
(* statement is a step of its own; in persist_extraction they share a      *)
(* transaction (READ COMMITTED): each takes its own snapshot, waits for    *)
(* the transactions that hold its rows or keys, and is seen at COMMIT.     *)
(*                                                                         *)
(* An id "a:b:c" is the sequence of its segments.  What the code joins     *)
(* with ':' is concatenated, so that the ids of two sources may be equal   *)
(* or begin alike, as in the database.                                     *)
(*                                                                         *)
(* A text is named by where it comes from: a chunk by its document and its *)
(* first and last character, an extracted entity by the proposed name.  A  *)
(* vector is named by the text it was computed from.                       *)
(***************************************************************************)
EXTENDS Rbac, Integers, FiniteSets, FiniteSetsExt

CONSTANTS
    Docs,            \* requests to POST /kg/ingest
    Prior,           \* one of them, ingested before the behaviour begins
    DocOf,           \* [Docs -> [by, scope, org_acl, source, len, names, edges]]
    Segments,        \* user ids, split at ':'; a source is split already
    Digits,          \* the number of a chunk, as written in its id
    KeyOf,           \* names the extractor uses -> <<kind, digest of the folded name>>
    Principals,      \* who asks: records [user_id, roles]
    Policy0,         \* rows of atlas_role_permissions at the start
    Grantable,       \* rows an operator may grant or revoke
    ChunkSize, ChunkOverlap, MaxEntities, MaxRelations,
    Limit, Candidates,   \* query limit, and limit * _CANDIDATE_MULTIPLIER
    Keyword,         \* documents and names whose text shares a word with the query
    None,
    MaxIngests,      \* a bound on the ingest calls,
    MaxEvents        \* and on policy edits, worker starts and failures together

ASSUME ChunkWindow == ChunkSize \in Nat \ {0} /\ ChunkOverlap \in 0..(ChunkSize - 1)
ASSUME CapsPositive == MaxEntities \in Nat \ {0} /\ MaxRelations \in Nat \ {0}
ASSUME QueryBounds == Limit \in Nat /\ Candidates \in Nat
ASSUME DocLengths == \A d \in Docs : DocOf[d].len \in Nat
ASSUME DocAcls == \A d \in Docs : DocOf[d].org_acl = None \/ \A a \in DocOf[d].org_acl : a \in Seq(STRING)

VARIABLES
    entities,    \* atlas_kg_entities: id -> [text, acl, vec, doc]
    relations,   \* atlas_kg_relations: the rows [src, dst, type]
    policy,      \* atlas_role_permissions
    job,         \* per document: the state of its ingest call
    fill,        \* _backfill_null_embeddings of a starting worker
    asked,       \* a query
    ingests, events   \* how much of each bound is used

(* For the properties.                                                     *)
VARIABLES
    unembedded,  \* a row was stored without its vector,
    overtaken,   \* or a backfill overtaken by an upsert
    overlapped,  \* the sources of which two extractions overlapped
    latest       \* source -> the last document it committed an extraction of

past == <<unembedded, overtaken, overlapped, latest>>
used == <<ingests, events, past>>
vars == <<entities, relations, policy, job, fill, asked, used>>

Anonymous == [user_id |-> "anonymous", roles |-> {}]
-----------------------------------------------------------------------------
(* ------------------------------ ingestion ------------------------------ *)

(* The windows, as first and last position, of a text of n characters: one *)
(* follows another as long as that one does not reach the end.             *)
chunk_text(n) ==
    LET step == ChunkSize - ChunkOverlap
    IN  [i \in {i \in 1..n : i = 1 \/ (i - 2) * step + ChunkSize < n} |->
            <<(i - 1) * step + 1, Min({(i - 1) * step + ChunkSize, n})>>]

Chunks == [d \in Docs |-> chunk_text(DocOf[d].len)]

ORG_WRITE_PERMISSION == <<"kg", "write", "org">>
DEFAULT_ORG_ACL == {<<"kg", "read", "org">>}

(* owner_segment and source_id: what the ids of a document begin with.     *)
Owner(d) == IF DocOf[d].scope = "personal" THEN <<"personal">> \o Segments[DocOf[d].by.user_id] ELSE <<"org">>
Source == [d \in Docs |-> Owner(d) \o DocOf[d].source]

(* "<source>:entity:", without the last colon.                             *)
extraction_entity_prefix(src) == src \o <<"entity">>

ChunkId(d, i) == Source[d] \o <<Digits[i]>>
EntityId(d, name) == extraction_entity_prefix(Source[d]) \o KeyOf[name]

(* Ids are made of strings, and a proposed name has a key.                 *)
ASSUME IdSegments ==
    \A d \in Docs :
        /\ Source[d] \in Seq(STRING)
        /\ \A i \in DOMAIN Chunks[d] : Digits[i] \in STRING
        /\ DocOf[d].names \in Seq(DOMAIN KeyOf)
        /\ DocOf[d].edges \in Seq((DOMAIN KeyOf) \X (DOMAIN KeyOf))
ASSUME NameKeys == \A name \in DOMAIN KeyOf : KeyOf[name] \in Seq(STRING) /\ KeyOf[name] # <<>>

NameText(name) == [says |-> name]
ChunkText(d, i) == [says |-> d, from |-> Chunks[d][i][1], to |-> Chunks[d][i][2]]

(* The acl is the server's; None when the write is refused.                *)
_resolve_scope_acl(d) ==
    LET doc == DocOf[d] IN
    IF doc.scope = "personal"
    THEN IF doc.org_acl = None THEN {identity_acl(doc.by.user_id)} ELSE None
    ELSE IF ~can(policy, doc.by, ORG_WRITE_PERMISSION) THEN None
         ELSE IF doc.org_acl \in {None, {}} THEN DEFAULT_ORG_ACL ELSE doc.org_acl

(* None is no acl, and the document ingested before was neither refused    *)
(* nor empty.                                                              *)
ASSUME NoneApart == None # DEFAULT_ORG_ACL /\ \A d \in Docs : {identity_acl(DocOf[d].by.user_id)} # None
ASSUME PriorAccepted ==
    /\ Prior \in Docs /\ DocOf[Prior].len > 0
    /\ IF DocOf[Prior].scope = "personal" THEN DocOf[Prior].org_acl = None
       ELSE can(Policy0, DocOf[Prior].by, ORG_WRITE_PERMISSION)

(* What is kept of the names the extractor proposed: the first of each     *)
(* key, up to the cap.                                                     *)
Kept == [d \in Docs |->
    LET names == DocOf[d].names
        before(i) == {KeyOf[names[j]] : j \in 1..(i - 1)}
    IN  {i \in DOMAIN names : KeyOf[names[i]] \notin before(i) /\ Cardinality(before(i)) < MaxEntities}]

Extracted == [d \in Docs |-> {DocOf[d].names[i] : i \in Kept[d]}]
Ids(d) == {EntityId(d, name) : name \in Extracted[d]}

(* Relations between kept entities first, then a "mentions" edge from the  *)
(* first chunk to every entity, up to the cap, by their place in that      *)
(* order.                                                                  *)
_collect_relations == [d \in Docs |->
    LET edges == DocOf[d].edges
        names == DocOf[d].names
        offered(p) ==
            IF p <= Len(edges)
            THEN [src |-> EntityId(d, edges[p][1]), dst |-> EntityId(d, edges[p][2]), type |-> "related"]
            ELSE [src |-> ChunkId(d, 1), dst |-> EntityId(d, names[p - Len(edges)]), type |-> "mentions"]
        resolved == {p \in 1..(Len(edges) + Len(names)) :
                        offered(p).dst \in Ids(d) /\ offered(p).src \in Ids(d) \cup {ChunkId(d, 1)}}
        seen(p) == {offered(q) : q \in {q \in resolved : q < p}}
    IN  [p \in {p \in resolved : offered(p) \notin seen(p) /\ Cardinality(seen(p)) < MaxRelations} |->
            offered(p)]]

EdgesOf(d) == {_collect_relations[d][p] : p \in DOMAIN _collect_relations[d]}

(* The rows a transaction deletes and writes, by table.                    *)
EntityKey(id) == <<"entity", id>>
EdgeKey(e) == <<"relation", e>>

(* The INSERTs of persist_extraction, by their place in its two loops.     *)
Inserts == [d \in Docs |->
    LET n == Len(DocOf[d].names)
    IN  [p \in Kept[d] \cup {n + q : q \in DOMAIN _collect_relations[d]} |->
            IF p <= n THEN EntityKey(EntityId(d, DocOf[d].names[p]))
            ELSE EdgeKey(_collect_relations[d][p - n])]]

(* INSERT ... ON CONFLICT (id) DO UPDATE: an upsert without a vector keeps  *)
(* the vector the row had.                                                 *)
Upserted(rows, id, text, acl, embedded, d) ==
    LET old == IF id \in DOMAIN rows THEN rows[id].vec ELSE None
    IN [x \in DOMAIN rows \cup {id} |->
          IF x = id THEN [text |-> text, acl |-> acl, vec |-> IF embedded THEN text ELSE old, doc |-> d]
          ELSE rows[x]]

(* A document's rows once its extraction is written, over rows from which  *)
(* the source's earlier extraction has been deleted.                       *)
WithExtraction(rows, d, acl, embedded) ==
    LET row(id) ==
            LET text == NameText(CHOOSE name \in Extracted[d] : EntityId(d, name) = id)
                old == IF id \in DOMAIN rows THEN rows[id].vec ELSE None
            IN [text |-> text, acl |-> acl, vec |-> IF embedded THEN text ELSE old, doc |-> d]
    IN [x \in DOMAIN rows \cup Ids(d) |-> IF x \in Ids(d) THEN row(x) ELSE rows[x]]

(* LIKE '<prefix>%': of whichever source the row is.                       *)
OfSource(id, src) == IsStrictPrefix(extraction_entity_prefix(src), id)
Touches(e, src) == OfSource(e.src, src) \/ OfSource(e.dst, src)

(* InMemoryKnowledgeGraph.persist_extraction, the reference: the source's  *)
(* extraction is taken out and the new one put in, in one step.            *)
MemoryPersist(rows, rels, d, acl) ==
    LET kept == {id \in DOMAIN rows : ~OfSource(id, Source[d])}
    IN << WithExtraction([id \in kept |-> rows[id]], d, acl, TRUE),
          {e \in rels : ~Touches(e, Source[d])} \cup EdgesOf(d) >>
-----------------------------------------------------------------------------
Happens == events < MaxEvents /\ events' = events + 1
Event == Happens /\ UNCHANGED <<ingests, past>>
EmbedFault == Happens /\ unembedded' = TRUE /\ UNCHANGED <<ingests, overtaken, overlapped, latest>>

(* left: the INSERTs still to come; found: what the DELETE under way has   *)
(* still to lock; gone and put: what the transaction deleted and wrote.    *)
NewJob == [pc |-> "new", next |-> 1, acl |-> {}, left |-> {}, found |-> {}, gone |-> {}, put |-> {}]

Goto(d, pc) == job' = [job EXCEPT ![d].pc = pc]

(* What other transactions would have to wait for.                         *)
Held(k) == job[k].gone \cup job[k].put
Free(d, key) == \A k \in Docs \ {d} : key \notin Held(k)

(* Authorization and the acl are resolved once, from the policy as it is   *)
(* now; a refusal or an empty text writes nothing.                         *)
Submit(d) ==
    LET acl == _resolve_scope_acl(d) IN
    /\ job[d].pc = "new" /\ ingests < MaxIngests
    /\ ingests' = ingests + 1
    /\ IF DocOf[d].by = Anonymous \/ acl = None \/ DOMAIN Chunks[d] = {}
       THEN Goto(d, "denied")
       ELSE job' = [job EXCEPT ![d].pc = "chunks", ![d].acl = acl]
    /\ UNCHANGED <<entities, relations, policy, fill, asked, events, past>>

(* Fault: a new vector does not replace the one the row had.               *)
UpsertChunk_KeepsVector(d) ==
    LET i == job[d].next
        id == ChunkId(d, i)
        absent == id \in DOMAIN entities => entities[id].vec = None
    IN /\ job[d].pc = "chunks"
       /\ entities' = Upserted(entities, id, ChunkText(d, i), job[d].acl, absent, d)
       /\ job' = [job EXCEPT ![d].next = i + 1,
                             ![d].pc = IF i + 1 \in DOMAIN Chunks[d] THEN "chunks" ELSE "extract"]
       /\ UNCHANGED <<relations, policy, fill, asked, used>>

(* upsert_entity of the next chunk, once no transaction holds its row.     *)
(* The embedding is computed before the statement; when that fails the row *)
(* is written without it, and when the store fails the request is answered *)
(* 500 with the chunks so far stored.                                      *)
UpsertChunk(d) ==
    LET i == job[d].next
        store(embedded) ==
            /\ entities' = Upserted(entities, ChunkId(d, i), ChunkText(d, i), job[d].acl, embedded, d)
            /\ job' = [job EXCEPT ![d].next = i + 1,
                                  ![d].pc = IF i + 1 \in DOMAIN Chunks[d] THEN "chunks" ELSE "extract"]
    IN /\ job[d].pc = "chunks" /\ Free(d, EntityKey(ChunkId(d, i)))
       /\ \/ store(TRUE) /\ UNCHANGED used
          \/ store(FALSE) /\ EmbedFault
          \/ Goto(d, "failed") /\ Event /\ UNCHANGED entities
       /\ UNCHANGED <<relations, policy, fill, asked>>

(* The model call; without a result the document keeps its chunks only.    *)
Extract(d) ==
    /\ job[d].pc = "extract"
    /\ \/ Goto(d, "delete_relations") /\ UNCHANGED used
       \/ Goto(d, "audit") /\ Event
    /\ UNCHANGED <<entities, relations, policy, fill, asked>>

InTransaction(d) == job[d].pc \in {"delete_entities", "insert"}

(* BEGIN, and the snapshot of the DELETE of the relations that touch the   *)
(* source's entities.                                                      *)
DeleteRelations(d) ==
    LET others == {k \in Docs \ {d} : InTransaction(k) /\ Source[k] = Source[d]}
    IN /\ job[d].pc = "delete_relations"
       /\ job' = [job EXCEPT ![d].pc = "delete_entities",
                             ![d].found = {EdgeKey(e) : e \in {e \in relations : Touches(e, Source[d])}}]
       /\ overlapped' = overlapped \cup IF others = {} THEN {} ELSE {Source[d]}
       /\ UNCHANGED <<entities, relations, policy, fill, asked, ingests, events, unembedded, overtaken, latest>>

(* A DELETE takes the rows it found one by one, in an order of its own,    *)
(* and waits for those another transaction holds.                          *)
LockRow(d) ==
    /\ \E key \in job[d].found :
          /\ Free(d, key)
          /\ job' = [job EXCEPT ![d].found = @ \ {key}, ![d].gone = @ \cup {key}]
    /\ UNCHANGED <<entities, relations, policy, fill, asked, used>>

(* The snapshot of the DELETE of the entities, once the first is through.  *)
DeleteEntities(d) ==
    /\ job[d].pc = "delete_entities" /\ job[d].found = {}
    /\ job' = [job EXCEPT ![d].pc = "insert", ![d].left = DOMAIN Inserts[d],
                          ![d].found = {EntityKey(x) : x \in {x \in DOMAIN entities : OfSource(x, Source[d])}}]
    /\ UNCHANGED <<entities, relations, policy, fill, asked, used>>

(* The next INSERT, once no other transaction holds its key.  An edge that *)
(* is there is left alone (DO NOTHING), and not locked.                    *)
Insert(d) ==
    LET p == Min(job[d].left)
        key == Inserts[d][p]
        present == key \in {EdgeKey(e) : e \in relations} \ job[d].gone
    IN /\ job[d].pc = "insert" /\ job[d].found = {} /\ job[d].left # {}
       /\ Free(d, key)
       /\ job' = [job EXCEPT ![d].left = @ \ {p}, ![d].put = IF present THEN @ ELSE @ \cup {key}]
       /\ UNCHANGED <<entities, relations, policy, fill, asked, used>>

Ended(j) == [j EXCEPT !.pc = "audit", !.left = {}, !.found = {}, !.gone = {}, !.put = {}]

(* An UPDATE of the backfill is done with a row.                           *)
Passed(id) ==
    LET left == DOMAIN fill.rows \ {id} IN
    [pc |-> IF left = {} THEN "select" ELSE "update", rows |-> [x \in left |-> fill.rows[x]]]

(* Fault: only the entities of the earlier extraction are removed.         *)
Commit_KeepsRelations(d) ==
    LET keptE == {x \in DOMAIN entities : EntityKey(x) \notin job[d].gone}
    IN /\ job[d].pc = "insert" /\ job[d].found = {} /\ job[d].left = {}
       /\ entities' = WithExtraction([x \in keptE |-> entities[x]], d, job[d].acl, TRUE)
       /\ relations' = relations \cup {e \in EdgesOf(d) : EdgeKey(e) \in job[d].put}
       /\ latest' = [s \in DOMAIN latest \cup {Source[d]} |-> IF s = Source[d] THEN d ELSE latest[s]]
       /\ job' = [k \in Docs |-> IF k = d THEN Ended(job[d])
                                 ELSE [job[k] EXCEPT !.found = @ \ job[d].gone]]
       /\ UNCHANGED <<policy, fill, asked, ingests, events, unembedded, overtaken, overlapped>>

(* COMMIT.  A DELETE, or an UPDATE of the backfill, that waited for a      *)
(* deleted row does not find it any more, even if the same id has been     *)
(* inserted again.  (That the entities' vectors could not be computed,     *)
(* before BEGIN, is decided here.)                                         *)
Commit(d) ==
    LET keptE == {x \in DOMAIN entities : EntityKey(x) \notin job[d].gone}
        write(embedded) ==
            entities' = WithExtraction([x \in keptE |-> entities[x]], d, job[d].acl, embedded)
    IN /\ job[d].pc = "insert" /\ job[d].found = {} /\ job[d].left = {}
       /\ \/ write(TRUE) /\ UNCHANGED <<events, unembedded>>
          \/ write(FALSE) /\ Happens /\ unembedded' = TRUE
       /\ relations' = {e \in relations : EdgeKey(e) \notin job[d].gone}
                         \cup {e \in EdgesOf(d) : EdgeKey(e) \in job[d].put}
       /\ latest' = [s \in DOMAIN latest \cup {Source[d]} |-> IF s = Source[d] THEN d ELSE latest[s]]
       /\ job' = [k \in Docs |-> IF k = d THEN Ended(job[d])
                                 ELSE [job[k] EXCEPT !.found = @ \ job[d].gone]]
       /\ fill' \in {fill} \cup {Passed(x) : x \in {x \in DOMAIN fill.rows : EntityKey(x) \in job[d].gone}}
       /\ UNCHANGED <<policy, asked, ingests, overtaken, overlapped>>

(* Fault: the connection is left with its transaction open.                *)
Rollback_StaysOpen(d) ==
    /\ InTransaction(d)
    /\ Goto(d, "audit") /\ Event
    /\ UNCHANGED <<entities, relations, policy, fill, asked>>

(* The transaction fails and is rolled back; the ingest goes on.           *)
Rollback(d) ==
    /\ InTransaction(d)
    /\ job' = [job EXCEPT ![d] = Ended(@)]
    /\ Event
    /\ UNCHANGED <<entities, relations, policy, fill, asked>>

(* What a transaction waits for: rows of its DELETE, or the key of its     *)
(* next INSERT.                                                            *)
Wanted(d) ==
    IF job[d].found # {} \/ job[d].left = {} THEN job[d].found ELSE {Inserts[d][Min(job[d].left)]}
WaitsFor(d, k) == k # d /\ Wanted(d) \cap Held(k) # {}

(* PostgreSQL finds transactions that wait in a circle and rolls one of    *)
(* them back; its ingest goes on, as after any other failure.              *)
DeadlockDetected(d) ==
    /\ \E circle \in SUBSET {k \in Docs : InTransaction(k)} :
          d \in circle /\ \E next \in Bijection(circle, circle) : \A k \in circle : WaitsFor(k, next[k])
    /\ job' = [job EXCEPT ![d] = Ended(@)]
    /\ UNCHANGED <<entities, relations, policy, fill, asked, used>>

(* audit.ingested, then the answer; an audit log that fails makes it a 500. *)
Audit(d) ==
    /\ job[d].pc = "audit"
    /\ \/ Goto(d, "done") /\ UNCHANGED used
       \/ Goto(d, "failed") /\ Event
    /\ UNCHANGED <<entities, relations, policy, fill, asked>>
-----------------------------------------------------------------------------
(* -------------------- setup and backfill of a worker ------------------- *)

(* setup(): tables and indexes are already there; ALTER TABLE waits for    *)
(* the open transactions, and a column of another width is dropped and     *)
(* added empty.                                                            *)
Setup ==
    /\ fill.pc = "off" /\ Event
    /\ \A d \in Docs : ~InTransaction(d)
    /\ \E resized \in BOOLEAN :
          entities' = [id \in DOMAIN entities |->
                         [entities[id] EXCEPT !.vec = IF resized THEN None ELSE @]]
    /\ fill' = [fill EXCEPT !.pc = "select"]
    /\ UNCHANGED <<relations, policy, job, asked>>

(* One round of the loop: rows without a vector are read and embedded; the *)
(* loop ends when there is none, and the start fails when embedding does.  *)
SelectNull ==
    LET nulls == {id \in DOMAIN entities : entities[id].vec = None} IN
    /\ fill.pc = "select"
    /\ \/ nulls # {} /\ fill' = [pc |-> "update", rows |-> [id \in nulls |-> entities[id].text]]
       \/ fill' = [fill EXCEPT !.pc = "off"]
    /\ UNCHANGED <<entities, relations, policy, job, asked, used>>

(* One UPDATE ... WHERE id, once no transaction holds the row: it does not *)
(* look at the text again.                                                 *)
UpdateVector(id) ==
    /\ fill.pc = "update" /\ id \in DOMAIN fill.rows
    /\ \A d \in Docs : EntityKey(id) \notin Held(d)
    /\ IF id \in DOMAIN entities
       THEN /\ entities' = [entities EXCEPT ![id].vec = fill.rows[id]]
            /\ overtaken' = (overtaken \/ entities[id].text # fill.rows[id])
       ELSE UNCHANGED <<entities, overtaken>>
    /\ fill' = Passed(id)
    /\ UNCHANGED <<relations, policy, job, asked, ingests, events, unembedded, overlapped, latest>>
-----------------------------------------------------------------------------
(* -------------------------- policy and queries ------------------------- *)

Grant(row) ==
    /\ Event /\ row \notin policy
    /\ policy' = policy \cup {row}
    /\ UNCHANGED <<entities, relations, job, fill, asked>>

Revoke(row) ==
    /\ Event /\ row \in policy
    /\ policy' = policy \ {row}
    /\ UNCHANGED <<entities, relations, job, fill, asked>>

NoQuery == [pc |-> "idle", who |-> Anonymous, perms |-> {}, near |-> {}, rows |-> {}]

(* query(): the permissions are read before anything else.                 *)
Ask(p) ==
    /\ asked.pc = "idle"
    /\ asked' = [pc |-> "vector", who |-> p, perms |-> expand_roles(policy, p.roles), near |-> {},
                 rows |-> {}]
    /\ UNCHANGED <<entities, relations, policy, job, fill, used>>

Row(id) == [id |-> id, text |-> entities[id].text, acl |-> entities[id].acl, doc |-> entities[id].doc]
SqlRows == {Row(id) : id \in {x \in DOMAIN entities :
                                sql_readable(asked.perms, asked.who, entities[x].acl)}}
SharesWord(row) == row.text.says \in Keyword

(* Fault: LIMIT is forgotten.                                              *)
Ranked_All(rows, bound) == {rows}

(* As many of a set as the bound lets through, in any ranking.             *)
Ranked(rows, bound) ==
    {best \in SUBSET rows : Cardinality(best) <= bound /\ (best = rows \/ Cardinality(best) = bound)}

(* The vector statement; when the query cannot be embedded, or the stored  *)
(* vectors are of another width, the search is full-text only.             *)
VectorQuery ==
    LET embedded == {r \in SqlRows : entities[r.id].vec # None} IN
    /\ asked.pc = "vector"
    /\ \/ \E near \in Ranked(embedded, Candidates) :
             asked' = [asked EXCEPT !.pc = "hybrid", !.near = near]
          /\ UNCHANGED used
       \/ asked' = [asked EXCEPT !.pc = "fts"] /\ Event
    /\ UNCHANGED <<entities, relations, policy, job, fill>>

(* Fault: what SQL returned is not looked at again.                        *)
Answer_TrustsSql ==
    LET matching == {r \in SqlRows : SharesWord(r)}
        fused == IF matching = {} THEN {} ELSE matching \cup {r \in asked.near : r.id \notin {m.id : m \in matching}}
    IN /\ asked.pc \in {"fts", "hybrid"}
       /\ \E rows \in Ranked(fused, Limit) :
             asked' = [asked EXCEPT !.pc = "answered", !.rows = rows]
       /\ UNCHANGED <<entities, relations, policy, job, fill, used>>

(* The pages of the full-text statement, the fusion with what the vectors  *)
(* found, and can_read on every candidate, taken as one step.  The fusion  *)
(* happens once per page of full-text rows: without one there is nothing   *)
(* to fuse.                                                                *)
Answer ==
    LET matching == {r \in SqlRows : SharesWord(r)}
        fused == IF matching = {} THEN {} ELSE matching \cup {r \in asked.near : r.id \notin {m.id : m \in matching}}
        readable == {r \in fused : can_read(policy, asked.who, r.acl)}
    IN /\ asked.pc \in {"fts", "hybrid"}
       /\ \E rows \in Ranked(readable, Limit) :
             asked' = [asked EXCEPT !.pc = "answered", !.rows = rows]
       /\ UNCHANGED <<entities, relations, policy, job, fill, used>>

(* The planner has used the answer.                                        *)
Consume ==
    /\ asked.pc = "answered"
    /\ asked' = NoQuery
    /\ UNCHANGED <<entities, relations, policy, job, fill, used>>
-----------------------------------------------------------------------------
IngestStep(d) ==
    \/ Submit(d) \/ UpsertChunk(d) \/ Extract(d)
    \/ DeleteRelations(d) \/ LockRow(d) \/ DeleteEntities(d) \/ Insert(d)
    \/ Commit(d) \/ Rollback(d) \/ DeadlockDetected(d)
    \/ Audit(d)
BackfillStep == SelectNull \/ \E id \in DOMAIN fill.rows : UpdateVector(id)
QueryStep == VectorQuery \/ Answer

(* One document has been ingested by a worker without an embedder.         *)
Init ==
    LET acl == _resolve_scope_acl(Prior)
        chunks == {ChunkId(Prior, i) : i \in DOMAIN Chunks[Prior]}
        number(id) == CHOOSE i \in DOMAIN Chunks[Prior] : ChunkId(Prior, i) = id
        stored == [id \in chunks |-> [text |-> ChunkText(Prior, number(id)), acl |-> acl, vec |-> None,
                                      doc |-> Prior]]
    IN /\ policy = Policy0
       /\ entities = WithExtraction(stored, Prior, acl, FALSE)
       /\ relations = EdgesOf(Prior)
       /\ job = [d \in Docs |-> IF d = Prior THEN [NewJob EXCEPT !.pc = "done", !.acl = acl] ELSE NewJob]
       /\ fill = [pc |-> "off", rows |-> <<>>]
       /\ asked = NoQuery
       /\ ingests = 0 /\ events = 0
       /\ unembedded = FALSE /\ overtaken = FALSE /\ overlapped = {}
       /\ latest = [s \in {Source[Prior]} |-> Prior]

Next ==
    \/ \E d \in Docs : IngestStep(d)
    \/ Setup \/ BackfillStep
    \/ \E row \in Grantable : Grant(row) \/ Revoke(row)
    \/ \E p \in Principals : Ask(p)
    \/ QueryStep \/ Consume

Spec == Init /\ [][Next]_vars

(* Some worker thread keeps executing its request, where the database      *)
(* grants a row lock once its holder is gone and looks for circles of      *)
(* waiting transactions; requests need not arrive.                         *)
Fairness ==
    /\ WF_vars(\E d \in Docs : job[d].pc # "new" /\ IngestStep(d))
    /\ WF_vars(BackfillStep)

FairSpec == Spec /\ Fairness
-----------------------------------------------------------------------------
(* ------------------------------ properties ----------------------------- *)

(* The rows, the ingest calls and the query keep their shape.              *)
TypeOK ==
    /\ \A id \in DOMAIN entities :
          /\ entities[id].doc \in Docs /\ entities[id].acl # None
          /\ \/ \E name \in Extracted[entities[id].doc] :
                    id = EntityId(entities[id].doc, name) /\ entities[id].text = NameText(name)
             \/ \E i \in DOMAIN Chunks[entities[id].doc] :
                    id = ChunkId(entities[id].doc, i) /\ entities[id].text = ChunkText(entities[id].doc, i)
    /\ \A e \in relations : \E d \in Docs : e \in EdgesOf(d)
    /\ \A d \in Docs :
          /\ job[d].pc \in {"new", "denied", "chunks", "extract", "delete_relations",
                             "delete_entities", "insert", "audit", "done", "failed"}
          /\ Held(d) # {} => InTransaction(d)
    /\ fill.pc \in {"off", "select", "update"}
    /\ asked.pc \in {"idle", "vector", "hybrid", "fts", "answered"}
    /\ Cardinality(asked.rows) <= Limit /\ Cardinality(asked.near) <= Candidates

(* Whom the author of a document meant to let read it.                     *)
MeantFor(d, p) ==
    LET doc == DocOf[d] IN
    IF doc.scope = "personal" THEN p.user_id = doc.by.user_id
    ELSE can_read(policy, p, IF doc.org_acl \in {None, {}} THEN DEFAULT_ORG_ACL ELSE doc.org_acl)

(* Whatever was ingested, re-ingested, extracted, backfilled, granted and  *)
(* revoked meanwhile, an answer holds only text of documents whose author  *)
(* meant the caller to read them, under the policy at the time of the      *)
(* answer: a personal document is its author's alone, and a permission     *)
(* revoked between the two statements of a query no longer counts.         *)
AnswersIsolated ==
    [][asked.pc # "answered" /\ asked'.pc = "answered"
         => \A r \in asked'.rows : MeantFor(r.doc, asked.who)]_vars

(* The SQL predicate and can_read agree on every stored row, whoever asks  *)
(* and whatever the policy: no readable row is lost in SQL, and SQL admits *)
(* an unreadable one only if a role was granted a user's identity entry.   *)
FilterParity ==
    \A id \in DOMAIN entities : \A p \in Principals \cup {DocOf[d].by : d \in Docs} :
        LET acl == entities[id].acl
            sql == sql_readable(expand_roles(policy, p.roles), p, acl)
        IN /\ can_read(policy, p, acl) => sql
           /\ sql /\ ~can_read(policy, p, acl)
                => \E a \in acl : IsIdentity(a) /\ a \in Granted(policy, p.roles)

(* A stored vector is of the text it is stored with.  There are two ways   *)
(* out: an embedding that failed on an upsert over an embedded row, and a  *)
(* backfill overtaken by an upsert of the row it had read.                 *)
EmbeddingFresh ==
    \/ unembedded \/ overtaken
    \/ \A id \in DOMAIN entities : entities[id].vec \in {None, entities[id].text}

Plain(rows) == [id \in DOMAIN rows |-> [text |-> rows[id].text, acl |-> rows[id].acl]]

(* No other document's source lies under the prefix of src, nor src under  *)
(* another's.                                                              *)
Lone(src) ==
    \A d \in Docs : /\ ~IsPrefix(extraction_entity_prefix(src), Source[d])
                    /\ ~IsPrefix(extraction_entity_prefix(Source[d]), src)

(* The tables hold of src what the in-memory store would hold after the    *)
(* last extraction committed: nothing of an earlier one is left, in the    *)
(* entities or in the edges, and no edge dangles.                          *)
Replaced(src) ==
    LET d == latest[src]
        reference == MemoryPersist(entities, relations, d, job[d].acl)
    IN /\ Plain(entities) = Plain(reference[1])
       /\ relations = reference[2]
       /\ \A e \in relations : Touches(e, src) => {e.src, e.dst} \subseteq DOMAIN entities

(* What an acknowledged ingest leaves behind.  Its windows cover the text, *)
(* and each keeps its row until an extraction is committed under whose     *)
(* prefix the row's id falls.  Of a source that is not nested with         *)
(* another, the last extraction committed has all of its entities stored,  *)
(* whatever ran beside it, and is all that is stored unless two            *)
(* extractions of the source overlapped.                                   *)
AckedIngestStored ==
    /\ \A d \in Docs : job[d].pc = "done" =>
          /\ \A i \in DOMAIN Chunks[d] :
                \/ ChunkId(d, i) \in DOMAIN entities
                \/ \E src \in DOMAIN latest : OfSource(ChunkId(d, i), src)
          /\ UNION {Chunks[d][i][1]..Chunks[d][i][2] : i \in DOMAIN Chunks[d]} = 1..DocOf[d].len
    /\ \A src \in DOMAIN latest : Lone(src) =>
          /\ \A x \in Ids(latest[src]) : x \in DOMAIN entities /\ entities[x].doc = latest[src]
          /\ src \notin overlapped => Replaced(src)

(* "The id prefix for extracted concept entities scoped to one source      *)
(* document": replacing an extraction leaves the chunks of acknowledged    *)
(* documents alone.  It does not when a source is named like the rows of   *)
(* another's extraction.                                                   *)
ChunksKept ==
    \A d \in Docs : job[d].pc = "done" => \A i \in DOMAIN Chunks[d] : ChunkId(d, i) \in DOMAIN entities

(* "Atomically replace prior extraction for source and persist the new     *)
(* set": what is stored of a source is the last extraction committed.  It  *)
(* is a mixture when two extractions overlapped.                           *)
ExtractionReplaced == \A src \in DOMAIN latest : Replaced(src)

InFlight == {d \in Docs : job[d].pc \notin {"new", "denied", "done", "failed"}}

(* Every ingest call is answered, although statements wait for rows and    *)
(* keys that other transactions hold and two calls may wait for each other *)
(* in a circle; and a starting worker's backfill runs out of rows.         *)
IngestEnds ==
    /\ InFlight # {} ~> InFlight = {}
    /\ fill.pc = "select" ~> fill.pc = "off"
=============================================================================
