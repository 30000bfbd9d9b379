-------------------------- MODULE KnowledgeProofs --------------------------
(***************************************************************************)
(* Proofs about the knowledge graph, for any documents, policies,          *)
(* principals, chunk sizes and caps, and any number of calls.              *)
(*                                                                         *)
(* KInv says what the tables, the ingest calls and the query are made of.  *)
(* Its heart is that a row carries the acl its document has by             *)
(* construction, through every overwrite, and that a query under way holds *)
(* such rows only: the isolation of the answers follows from it and from   *)
(* can_read, which the last step of a query evaluates again.               *)
(* AckInv, at the end, says what the ingests leave behind.                 *)
(***************************************************************************)
EXTENDS Knowledge, FiniteSetTheorems, SequenceTheorems, WellFoundedInduction, TLAPS

(* The readers of a document: what _resolve_scope_acl answers when it does *)
(* not refuse.                                                             *)
AclOf(d, acl) ==
    acl = IF DocOf[d].scope = "personal" THEN {identity_acl(DocOf[d].by.user_id)}
          ELSE IF DocOf[d].org_acl \in {None, {}} THEN DEFAULT_ORG_ACL ELSE DocOf[d].org_acl

(* What d stores under an id: the text of a chunk or of an extracted name. *)
Writes(d, id, text) ==
    \/ \E name \in Extracted[d] : id = EntityId(d, name) /\ text = NameText(name)
    \/ \E i \in DOMAIN Chunks[d] : id = ChunkId(d, i) /\ text = ChunkText(d, i)

(* A row of atlas_kg_entities, as the document that wrote it last left it: *)
(* the readers of its acl are that document's.                             *)
RowOf(id, r) ==
    /\ r = [text |-> r.text, acl |-> r.acl, vec |-> r.vec, doc |-> r.doc]
    /\ r.doc \in Docs /\ AclOf(r.doc, r.acl)
    /\ Writes(r.doc, id, r.text)

(* The table of the entities.                                              *)
Rows ==
    /\ entities = [id \in DOMAIN entities |-> entities[id]]
    /\ \A id \in DOMAIN entities : RowOf(id, entities[id])

(* The stages of an ingest call.                                           *)
JobPcs == {"new", "denied", "chunks", "extract", "delete_relations", "delete_entities", "insert", "audit",
           "done", "failed"}

(* The record of an ingest call.                                           *)
Call(pc, next, acl, left, found, gone, put) ==
    [pc |-> pc, next |-> next, acl |-> acl, left |-> left, found |-> found, gone |-> gone, put |-> put]

(* A value that is such a record.                                          *)
IsCall(j) == j = Call(j.pc, j.next, j.acl, j.left, j.found, j.gone, j.put)

(* An ingest call of d: once it is accepted it carries the acl of the      *)
(* document; it holds rows inside its transaction only.                    *)
JobOf(d, j) ==
    /\ IsCall(j)
    /\ j.pc \in JobPcs
    /\ j.pc = "new" => j.next = 1
    /\ j.pc = "chunks" => j.next \in DOMAIN Chunks[d]
    /\ j.pc \notin {"new", "denied"} => AclOf(d, j.acl)
    /\ j.pc \notin {"delete_entities", "insert"} => j.left = {} /\ j.found = {} /\ j.gone = {} /\ j.put = {}

(* The ingest calls.                                                       *)
Jobs ==
    /\ job = [d \in Docs |-> job[d]]
    /\ \A d \in Docs : JobOf(d, job[d])

(* An edge is one that a document collected.                               *)
Edges == \A e \in relations : \E d \in Docs : e \in EdgesOf(d)

(* A query: what the vectors found are rows as they were stored.           *)
Query ==
    /\ asked = [pc |-> asked.pc, who |-> asked.who, perms |-> asked.perms, near |-> asked.near, rows |-> asked.rows]
    /\ asked.pc \in {"idle", "vector", "hybrid", "fts", "answered"}
    /\ \A r \in asked.near : r.doc \in Docs /\ AclOf(r.doc, r.acl)
    /\ Cardinality(asked.rows) <= Limit /\ Cardinality(asked.near) <= Candidates

(* The backfill.                                                           *)
Filling == fill = [pc |-> fill.pc, rows |-> fill.rows] /\ fill.pc \in {"off", "select", "update"}

(* The inductive invariant under the theorems of this module.              *)
KInv == Rows /\ Jobs /\ Edges /\ Query /\ Filling
-----------------------------------------------------------------------------
(* An ingest call that is not refused gets the acl of its document,        *)
(* whatever the policy is.                                                 *)
LEMMA ResolvedAcl ==
    ASSUME NEW d \in Docs, _resolve_scope_acl(d) # None
    PROVE  AclOf(d, _resolve_scope_acl(d))
  BY DEF _resolve_scope_acl, AclOf

(* A text that is not empty has a first window.                            *)
LEMMA FirstChunk ==
    ASSUME NEW d \in Docs, DOMAIN Chunks[d] # {}
    PROVE  1 \in DOMAIN Chunks[d]
<1>1. DocOf[d].len \in Nat /\ Chunks[d] = chunk_text(DocOf[d].len)
  BY DocLengths DEF Chunks
<1> QED
  BY <1>1 DEF chunk_text

(* An upsert of a chunk keeps the table well-formed, and changes no other  *)
(* row; when the embedding succeeded, the vector it leaves is of the new   *)
(* text.                                                                   *)
LEMMA UpsertedRows ==
    ASSUME Rows, NEW d \in Docs, NEW i \in DOMAIN Chunks[d], NEW acl, AclOf(d, acl), NEW embedded \in BOOLEAN,
           entities' = Upserted(entities, ChunkId(d, i), ChunkText(d, i), acl, embedded, d)
    PROVE  /\ Rows'
           /\ \A x \in DOMAIN entities' :
                 \/ x \in DOMAIN entities /\ entities'[x] = entities[x]
                 \/ embedded => entities'[x].vec = entities'[x].text
<1> DEFINE id == ChunkId(d, i)
           text == ChunkText(d, i)
           old == IF id \in DOMAIN entities THEN entities[id].vec ELSE None
           v == IF embedded THEN text ELSE old
<1>1. Writes(d, id, text)
  BY DEF Writes
<1>2. entities' = Upserted(entities, id, text, acl, embedded, d)
  OBVIOUS
<1> HIDE DEF id, text
<1>4. entities' = [x \in DOMAIN entities \cup {id} |->
                     IF x = id THEN [text |-> text, acl |-> acl, vec |-> v, doc |-> d] ELSE entities[x]]
  BY <1>2 DEF Upserted
<1>5. embedded => v = text
  OBVIOUS
<1> HIDE DEF v
<1>3. RowOf(id, [text |-> text, acl |-> acl, vec |-> v, doc |-> d])
  BY <1>1 DEF RowOf
<1> DEFINE new == [text |-> text, acl |-> acl, vec |-> v, doc |-> d]
<1>6. embedded => new.vec = new.text
  BY <1>5
<1>7. entities' = [x \in DOMAIN entities \cup {id} |-> IF x = id THEN new ELSE entities[x]] /\ RowOf(id, new)
  BY <1>3, <1>4
<1> HIDE DEF new
<1>8. Rows'
  BY <1>7 DEF Rows
<1>9. ASSUME NEW x \in DOMAIN entities'
      PROVE  \/ x \in DOMAIN entities /\ entities'[x] = entities[x]
             \/ embedded => entities'[x].vec = entities'[x].text
  <2>1. CASE x = id
    <3>1. entities'[x] = new
      BY <1>7, <2>1
    <3> QED
      BY <1>6, <3>1
  <2>2. CASE x # id
    BY <1>7, <2>2
  <2> QED
    BY <2>1, <2>2
<1> QED
  BY <1>8, <1>9

(* The same of persist_extraction, over the rows its DELETEs left.         *)
LEMMA ExtractedRows ==
    ASSUME NEW rows, \A x \in DOMAIN rows : RowOf(x, rows[x]),
           NEW d \in Docs, NEW acl, AclOf(d, acl), NEW embedded \in BOOLEAN,
           NEW R, R = WithExtraction(rows, d, acl, embedded)
    PROVE  /\ R = [x \in DOMAIN R |-> R[x]]
           /\ \A x \in DOMAIN R : RowOf(x, R[x])
           /\ \A x \in DOMAIN R : \/ x \in DOMAIN rows /\ R[x] = rows[x]
                                  \/ embedded => R[x].vec = R[x].text
<1> DEFINE name(id) == CHOOSE n \in Extracted[d] : EntityId(d, n) = id
           old(id) == IF id \in DOMAIN rows THEN rows[id].vec ELSE None
           row(id) == [text |-> NameText(name(id)), acl |-> acl,
                       vec |-> IF embedded THEN NameText(name(id)) ELSE old(id), doc |-> d]
<1>1. R = [x \in DOMAIN rows \cup Ids(d) |-> IF x \in Ids(d) THEN row(x) ELSE rows[x]]
  BY DEF WithExtraction
<1>2. ASSUME NEW x \in Ids(d)
      PROVE  RowOf(x, row(x)) /\ (embedded => row(x).vec = row(x).text)
  <2>1. name(x) \in Extracted[d] /\ EntityId(d, name(x)) = x
    BY DEF Ids
  <2>2. Writes(d, x, NameText(name(x)))
    BY <2>1 DEF Writes
  <2> HIDE DEF name, old
  <2> QED
    BY <2>1, <2>2 DEF RowOf
<1> HIDE DEF row
<1> QED
  BY <1>1, <1>2

(* What setting fields of an ingest call makes of it: its stage,           *)
LEMMA SetPc ==
    ASSUME NEW r, IsCall(r), NEW a, NEW R, R = [r EXCEPT !.pc = a]
    PROVE  R = Call(a, r.next, r.acl, r.left, r.found, r.gone, r.put)
  BY DEF IsCall, Call

(* its stage and acl,                                                      *)
LEMMA SetPcAcl ==
    ASSUME NEW r, IsCall(r), NEW a, NEW b, NEW R, R = [r EXCEPT !.pc = a, !.acl = b]
    PROVE  R = Call(a, r.next, b, r.left, r.found, r.gone, r.put)
  BY DEF IsCall, Call

(* its next chunk and stage,                                               *)
LEMMA SetNextPc ==
    ASSUME NEW r, IsCall(r), NEW a, NEW b, NEW R, R = [r EXCEPT !.next = a, !.pc = b]
    PROVE  R = Call(b, a, r.acl, r.left, r.found, r.gone, r.put)
  BY DEF IsCall, Call

(* the rows a DELETE found, at its start,                                  *)
LEMMA SetPcFound ==
    ASSUME NEW r, IsCall(r), NEW a, NEW b, NEW R, R = [r EXCEPT !.pc = a, !.found = b]
    PROVE  R = Call(a, r.next, r.acl, r.left, b, r.gone, r.put)
  BY DEF IsCall, Call

(* and when it takes one,                                                  *)
LEMMA SetFoundGone ==
    ASSUME NEW r, IsCall(r), NEW a, NEW b, NEW R, R = [r EXCEPT !.found = a, !.gone = b]
    PROVE  R = Call(r.pc, r.next, r.acl, r.left, a, b, r.put)
  BY DEF IsCall, Call

(* the INSERTs to come,                                                    *)
LEMMA SetInsert ==
    ASSUME NEW r, IsCall(r), NEW a, NEW b, NEW c, NEW R, R = [r EXCEPT !.pc = a, !.left = b, !.found = c]
    PROVE  R = Call(a, r.next, r.acl, b, c, r.gone, r.put)
  BY DEF IsCall, Call

(* and when one is done,                                                   *)
LEMMA SetLeftPut ==
    ASSUME NEW r, IsCall(r), NEW a, NEW b, NEW R, R = [r EXCEPT !.left = a, !.put = b]
    PROVE  R = Call(r.pc, r.next, r.acl, a, r.found, r.gone, b)
  BY DEF IsCall, Call

(* what a DELETE that waited no longer finds,                              *)
LEMMA SetFound ==
    ASSUME NEW r, IsCall(r), NEW a, NEW R, R = [r EXCEPT !.found = a]
    PROVE  R = Call(r.pc, r.next, r.acl, r.left, a, r.gone, r.put)
  BY DEF IsCall, Call

(* and the end of the transaction.                                         *)
LEMMA SetEnded ==
    ASSUME NEW r, IsCall(r), NEW R, R = Ended(r)
    PROVE  R = Call("audit", r.next, r.acl, {}, {}, {}, {})
  BY DEF IsCall, Call, Ended

(* Its fields.                                                             *)
LEMMA CallFields ==
    ASSUME NEW pc, NEW next, NEW acl, NEW left, NEW found, NEW gone, NEW put,
           NEW j, j = Call(pc, next, acl, left, found, gone, put)
    PROVE  /\ IsCall(j) /\ j.pc = pc /\ j.next = next /\ j.acl = acl
           /\ j.left = left /\ j.found = found /\ j.gone = gone /\ j.put = put
  BY DEF IsCall, Call

(* The call of d becomes j, and no other changes.                          *)
Becomes(d, j) == job'[d] = j /\ \A k \in Docs \ {d} : job'[k] = job[k]

(* A step of one call.                                                     *)
LEMMA JobSet ==
    ASSUME Jobs, NEW d \in Docs, NEW j, job' = [job EXCEPT ![d] = j], JobOf(d, j)
    PROVE  Jobs' /\ Becomes(d, j)
  BY DEF Jobs, JobOf, AclOf, Becomes

(* An ingest call that only moves on,                                      *)
LEMMA JobGoto ==
    ASSUME Jobs, NEW d \in Docs, NEW pc \in {"denied", "failed", "delete_relations", "audit", "done"},
           Goto(d, pc), job[d].pc \in {"new", "chunks", "extract", "delete_relations", "audit"},
           pc # "denied" => job[d].pc # "new"
    PROVE  /\ Jobs'
           /\ Becomes(d, Call(pc, job[d].next, job[d].acl, {}, {}, {}, {}))
<1> DEFINE j == Call(pc, job[d].next, job[d].acl, {}, {}, {}, {})
<1>1. job' = [job EXCEPT ![d] = [job[d] EXCEPT !.pc = pc]]
  BY DEF Goto, Jobs
<1>2. /\ IsCall(job[d]) /\ job[d].left = {} /\ job[d].found = {} /\ job[d].gone = {} /\ job[d].put = {}
      /\ job[d].pc # "new" => AclOf(d, job[d].acl)
  BY DEF Jobs, JobOf
<1>3. [job[d] EXCEPT !.pc = pc] = j
  BY <1>2, SetPc
<1>4. JobOf(d, j)
  BY <1>2, CallFields DEF JobOf, JobPcs
<1> HIDE DEF j
<1>5. job' = [job EXCEPT ![d] = j]
  BY <1>1, <1>3
<1>6. Jobs' /\ Becomes(d, j)
  BY <1>4, <1>5, JobSet
<1> QED
  BY <1>6 DEF j

(* one that is accepted,                                                   *)
LEMMA JobAcl ==
    ASSUME Jobs, NEW d \in Docs, NEW acl, AclOf(d, acl), job[d].pc = "new", 1 \in DOMAIN Chunks[d],
           job' = [job EXCEPT ![d].pc = "chunks", ![d].acl = acl]
    PROVE  Jobs' /\ Becomes(d, Call("chunks", 1, acl, {}, {}, {}, {}))
<1> DEFINE j == Call("chunks", 1, acl, {}, {}, {}, {})
<1>1. PICK R : R = [job[d] EXCEPT !.pc = "chunks", !.acl = acl]
  OBVIOUS
<1>0. job' = [job EXCEPT ![d] = R]
  BY <1>1 DEF Jobs
<1>2. /\ IsCall(job[d]) /\ job[d].left = {} /\ job[d].found = {} /\ job[d].gone = {} /\ job[d].put = {}
      /\ job[d].next = 1
  BY DEF Jobs, JobOf
<1>7. R = Call("chunks", job[d].next, acl, job[d].left, job[d].found, job[d].gone, job[d].put)
  BY <1>1, <1>2, SetPcAcl
<1>3. R = j
  BY <1>2, <1>7
<1>4. JobOf(d, j)
  BY CallFields DEF JobOf, JobPcs
<1> HIDE DEF j
<1>5. job' = [job EXCEPT ![d] = j]
  BY <1>0, <1>3
<1>6. Jobs' /\ Becomes(d, j)
  BY <1>4, <1>5, JobSet
<1> QED
  BY <1>6 DEF j

(* one that goes to its next chunk,                                        *)
LEMMA JobNext ==
    ASSUME Jobs, NEW d \in Docs, job[d].pc = "chunks", NEW next, NEW pc \in {"chunks", "extract"},
           pc = "chunks" => next \in DOMAIN Chunks[d],
           job' = [job EXCEPT ![d].next = next, ![d].pc = pc]
    PROVE  Jobs' /\ Becomes(d, Call(pc, next, job[d].acl, {}, {}, {}, {}))
<1> DEFINE j == Call(pc, next, job[d].acl, {}, {}, {}, {})
<1>1. PICK R : R = [job[d] EXCEPT !.next = next, !.pc = pc]
  OBVIOUS
<1>0. job' = [job EXCEPT ![d] = R]
  BY <1>1 DEF Jobs
<1>2. /\ IsCall(job[d]) /\ job[d].left = {} /\ job[d].found = {} /\ job[d].gone = {} /\ job[d].put = {}
      /\ AclOf(d, job[d].acl)
  BY DEF Jobs, JobOf
<1>7. R = Call(pc, next, job[d].acl, job[d].left, job[d].found, job[d].gone, job[d].put)
  BY <1>1, <1>2, SetNextPc
<1>3. R = j
  BY <1>2, <1>7
<1>4. JobOf(d, j)
  BY <1>2, CallFields DEF JobOf, JobPcs
<1> HIDE DEF j
<1>5. job' = [job EXCEPT ![d] = j]
  BY <1>0, <1>3
<1>6. Jobs' /\ Becomes(d, j)
  BY <1>4, <1>5, JobSet
<1> QED
  BY <1>6 DEF j

(* the steps of the transaction,                                           *)
LEMMA JobTransaction ==
    ASSUME Jobs, NEW d \in Docs, job[d].pc \in {"delete_relations", "delete_entities", "insert"},
           NEW pc \in {"delete_entities", "insert"}, NEW left, NEW found, NEW gone, NEW put,
           job' = [job EXCEPT ![d] = Call(pc, job[d].next, job[d].acl, left, found, gone, put)]
    PROVE  Jobs' /\ Becomes(d, Call(pc, job[d].next, job[d].acl, left, found, gone, put))
<1> DEFINE j == Call(pc, job[d].next, job[d].acl, left, found, gone, put)
<1>1. AclOf(d, job[d].acl)
  BY DEF Jobs, JobOf
<1>2. JobOf(d, j)
  BY <1>1, CallFields DEF JobOf, JobPcs
<1> HIDE DEF j
<1>3. Jobs' /\ Becomes(d, j)
  BY <1>2, JobSet DEF j
<1> QED
  BY <1>3 DEF j

(* and its end.                                                            *)
LEMMA JobEnded ==
    ASSUME Jobs, NEW d \in Docs, InTransaction(d)
    PROVE  /\ Ended(job[d]) = Call("audit", job[d].next, job[d].acl, {}, {}, {}, {})
           /\ JobOf(d, Ended(job[d]))
<1>1. IsCall(job[d]) /\ AclOf(d, job[d].acl)
  BY DEF Jobs, JobOf, InTransaction
<1>2. Ended(job[d]) = Call("audit", job[d].next, job[d].acl, {}, {}, {}, {})
  BY <1>1, SetEnded
<1> QED
  BY <1>1, <1>2, CallFields DEF JobOf, JobPcs
-----------------------------------------------------------------------------
(* What the steps of a transaction make of its call: BEGIN and the first   *)
(* DELETE,                                                                 *)
LEMMA DeleteRelationsJob ==
    ASSUME Jobs, NEW d \in Docs, DeleteRelations(d)
    PROVE  /\ Jobs' /\ job[d].pc = "delete_relations"
           /\ Becomes(d, Call("delete_entities", job[d].next, job[d].acl, {},
                              {EdgeKey(e) : e \in {e \in relations : Touches(e, Source[d])}}, {}, {}))
<1> DEFINE rows == {EdgeKey(e) : e \in {e \in relations : Touches(e, Source[d])}}
<1>1. job[d].pc = "delete_relations" /\ job' = [job EXCEPT ![d].pc = "delete_entities", ![d].found = rows]
  BY DEF DeleteRelations
<1> HIDE DEF rows
<1>2. PICK R : R = [job[d] EXCEPT !.pc = "delete_entities", !.found = rows]
  OBVIOUS
<1>3. job' = [job EXCEPT ![d] = R]
  BY <1>1, <1>2 DEF Jobs
<1>4. IsCall(job[d]) /\ job[d].left = {} /\ job[d].gone = {} /\ job[d].put = {}
  BY <1>1 DEF Jobs, JobOf
<1>5. R = Call("delete_entities", job[d].next, job[d].acl, job[d].left, rows, job[d].gone, job[d].put)
  BY <1>2, <1>4, SetPcFound
<1>6. job' = [job EXCEPT ![d] = Call("delete_entities", job[d].next, job[d].acl, {}, rows, {}, {})]
  BY <1>3, <1>4, <1>5
<1>7. Jobs' /\ Becomes(d, Call("delete_entities", job[d].next, job[d].acl, {}, rows, {}, {}))
  BY <1>1, <1>6, JobTransaction
<1> QED
  BY <1>1, <1>7 DEF rows

(* a row of a DELETE,                                                      *)
LEMMA LockRowJob ==
    ASSUME Jobs, NEW d \in Docs, LockRow(d)
    PROVE  /\ Jobs' /\ InTransaction(d)
           /\ \E key \in job[d].found :
                 /\ Free(d, key)
                 /\ Becomes(d, Call(job[d].pc, job[d].next, job[d].acl, job[d].left, job[d].found \ {key},
                                    job[d].gone \cup {key}, job[d].put))
<1>1. PICK key \in job[d].found :
         /\ Free(d, key)
         /\ job' = [job EXCEPT ![d].found = @ \ {key}, ![d].gone = @ \cup {key}]
  BY DEF LockRow
<1>2. IsCall(job[d]) /\ job[d].pc \in {"delete_entities", "insert"}
  BY <1>1 DEF Jobs, JobOf
<1>3. PICK rest, gone : rest = job[d].found \ {key} /\ gone = job[d].gone \cup {key}
  OBVIOUS
<1>4. job' = [job EXCEPT ![d] = [job[d] EXCEPT !.found = rest, !.gone = gone]]
  BY <1>1, <1>2, <1>3 DEF Jobs
<1>5. PICK R : R = [job[d] EXCEPT !.found = rest, !.gone = gone]
  OBVIOUS
<1>6. R = Call(job[d].pc, job[d].next, job[d].acl, job[d].left, rest, gone, job[d].put)
  BY <1>2, <1>5, SetFoundGone
<1>7. job' = [job EXCEPT ![d] = R]
  BY <1>4, <1>5
<1>8. PICK pc \in {"delete_entities", "insert"} : pc = job[d].pc
  BY <1>2
<1>9. job' = [job EXCEPT ![d] = Call(pc, job[d].next, job[d].acl, job[d].left, rest, gone, job[d].put)]
  BY <1>6, <1>7, <1>8
<1>10. Jobs' /\ Becomes(d, Call(pc, job[d].next, job[d].acl, job[d].left, rest, gone, job[d].put))
  BY <1>2, <1>9, JobTransaction
<1> QED
  BY <1>1, <1>2, <1>3, <1>8, <1>10 DEF InTransaction

(* the second DELETE,                                                      *)
LEMMA DeleteEntitiesJob ==
    ASSUME Jobs, NEW d \in Docs, DeleteEntities(d)
    PROVE  /\ Jobs' /\ job[d].pc = "delete_entities" /\ job[d].found = {}
           /\ Becomes(d, Call("insert", job[d].next, job[d].acl, DOMAIN Inserts[d],
                              {EntityKey(x) : x \in {x \in DOMAIN entities : OfSource(x, Source[d])}},
                              job[d].gone, job[d].put))
<1> DEFINE rows == {EntityKey(x) : x \in {x \in DOMAIN entities : OfSource(x, Source[d])}}
           inserts == DOMAIN Inserts[d]
<1>1. /\ job[d].pc = "delete_entities" /\ job[d].found = {}
      /\ job' = [job EXCEPT ![d].pc = "insert", ![d].left = inserts, ![d].found = rows]
  BY DEF DeleteEntities
<1> HIDE DEF rows, inserts
<1>2. PICK R : R = [job[d] EXCEPT !.pc = "insert", !.left = inserts, !.found = rows]
  OBVIOUS
<1>3. job' = [job EXCEPT ![d] = R]
  BY <1>1, <1>2 DEF Jobs
<1>4. IsCall(job[d])
  BY <1>1 DEF Jobs, JobOf
<1>5. R = Call("insert", job[d].next, job[d].acl, inserts, rows, job[d].gone, job[d].put)
  BY <1>2, <1>4, SetInsert
<1>6. job' = [job EXCEPT ![d] = Call("insert", job[d].next, job[d].acl, inserts, rows, job[d].gone, job[d].put)]
  BY <1>3, <1>5
<1>7. Jobs' /\ Becomes(d, Call("insert", job[d].next, job[d].acl, inserts, rows, job[d].gone, job[d].put))
  BY <1>1, <1>6, JobTransaction
<1> QED
  BY <1>1, <1>7 DEF rows, inserts

(* an INSERT,                                                              *)
LEMMA InsertJob ==
    ASSUME Jobs, NEW d \in Docs, Insert(d)
    PROVE  LET p == Min(job[d].left)
               key == Inserts[d][p]
               present == key \in {EdgeKey(e) : e \in relations} \ job[d].gone
           IN /\ Jobs' /\ job[d].pc = "insert" /\ job[d].found = {} /\ job[d].left # {}
              /\ Free(d, key)
              /\ Becomes(d, Call("insert", job[d].next, job[d].acl, job[d].left \ {p}, {}, job[d].gone,
                                 IF present THEN job[d].put ELSE job[d].put \cup {key}))
<1> DEFINE p == Min(job[d].left)
           key == Inserts[d][p]
           present == key \in {EdgeKey(e) : e \in relations} \ job[d].gone
<1>1. /\ job[d].pc = "insert" /\ job[d].found = {} /\ job[d].left # {} /\ Free(d, key)
      /\ job' = [job EXCEPT ![d].left = @ \ {p}, ![d].put = IF present THEN @ ELSE @ \cup {key}]
  BY DEF Insert
<1> HIDE DEF p, key, present
<1>2. IsCall(job[d])
  BY DEF Jobs, JobOf
<1>3. PICK left, put : left = job[d].left \ {p} /\ put = IF present THEN job[d].put ELSE job[d].put \cup {key}
  OBVIOUS
<1>4. job' = [job EXCEPT ![d] = [job[d] EXCEPT !.left = left, !.put = put]]
  BY <1>1, <1>2, <1>3 DEF Jobs
<1>5. PICK R : R = [job[d] EXCEPT !.left = left, !.put = put]
  OBVIOUS
<1>6. R = Call(job[d].pc, job[d].next, job[d].acl, left, job[d].found, job[d].gone, put)
  BY <1>2, <1>5, SetLeftPut
<1>7. job' = [job EXCEPT ![d] = R]
  BY <1>4, <1>5
<1>8. job' = [job EXCEPT ![d] = Call("insert", job[d].next, job[d].acl, left, {}, job[d].gone, put)]
  BY <1>1, <1>6, <1>7
<1>9. Jobs' /\ Becomes(d, Call("insert", job[d].next, job[d].acl, left, {}, job[d].gone, put))
  BY <1>1, <1>8, JobTransaction
<1> QED
  BY <1>1, <1>3, <1>9 DEF p, key, present

(* the end without a trace,                                                *)
LEMMA RollbackJob ==
    ASSUME Jobs, NEW d \in Docs, Rollback(d) \/ DeadlockDetected(d)
    PROVE  /\ Jobs' /\ InTransaction(d)
           /\ Becomes(d, Call("audit", job[d].next, job[d].acl, {}, {}, {}, {}))
<1>1. InTransaction(d) /\ job' = [job EXCEPT ![d] = Ended(job[d])]
  <2>1. job' = [job EXCEPT ![d] = Ended(@)]
    BY DEF Rollback, DeadlockDetected
  <2>2. InTransaction(d)
    BY DEF Rollback, DeadlockDetected
  <2> QED
    BY <2>1, <2>2 DEF Jobs
<1>2. Jobs' /\ Becomes(d, Ended(job[d]))
  BY <1>1, JobEnded, JobSet
<1> QED
  BY <1>1, <1>2, JobEnded

(* and COMMIT, which takes the rows it deleted from those that other       *)
(* DELETEs wait for.                                                       *)
LEMMA CommitJob ==
    ASSUME Jobs, NEW d \in Docs, Commit(d)
    PROVE  /\ Jobs' /\ job[d].pc = "insert" /\ job[d].found = {} /\ job[d].left = {}
           /\ job'[d] = Call("audit", job[d].next, job[d].acl, {}, {}, {}, {})
           /\ \A k \in Docs \ {d} :
                 job'[k] = Call(job[k].pc, job[k].next, job[k].acl, job[k].left, job[k].found \ job[d].gone,
                                job[k].gone, job[k].put)
<1>1. /\ job[d].pc = "insert" /\ job[d].found = {} /\ job[d].left = {}
      /\ job' = [k \in Docs |-> IF k = d THEN Ended(job[d]) ELSE [job[k] EXCEPT !.found = @ \ job[d].gone]]
  BY DEF Commit
<1>2. job'[d] = Call("audit", job[d].next, job[d].acl, {}, {}, {}, {}) /\ JobOf(d, job'[d])
  BY <1>1, JobEnded DEF InTransaction
<1>3. ASSUME NEW k \in Docs \ {d}
      PROVE  /\ job'[k] = Call(job[k].pc, job[k].next, job[k].acl, job[k].left, job[k].found \ job[d].gone,
                               job[k].gone, job[k].put)
             /\ JobOf(k, job'[k])
  <2>1. JobOf(k, job[k]) /\ IsCall(job[k])
    BY DEF Jobs, JobOf
  <2>2. PICK rest : rest = job[k].found \ job[d].gone
    OBVIOUS
  <2>3. job'[k] = [job[k] EXCEPT !.found = rest]
    BY <1>1, <2>1, <2>2 DEF IsCall, Call
  <2>4. job'[k] = Call(job[k].pc, job[k].next, job[k].acl, job[k].left, rest, job[k].gone, job[k].put)
    BY <2>1, <2>3, SetFound
  <2>5. PICK j : j = job'[k]
    OBVIOUS
  <2>6. /\ IsCall(j) /\ j.pc = job[k].pc /\ j.next = job[k].next /\ j.acl = job[k].acl
        /\ j.left = job[k].left /\ j.found = rest /\ j.gone = job[k].gone /\ j.put = job[k].put
    BY <2>4, <2>5, CallFields
  <2>7. JobOf(k, j)
    BY <2>1, <2>2, <2>6 DEF JobOf
  <2> QED
    BY <2>2, <2>4, <2>5, <2>7
<1>4. job' = [k \in Docs |-> job'[k]]
  BY <1>1
<1>5. Jobs'
  BY <1>2, <1>3, <1>4 DEF Jobs, JobOf, AclOf
<1> QED
  BY <1>1, <1>2, <1>3, <1>5
-----------------------------------------------------------------------------
(* The document ingested before leaves well-formed tables.                 *)
LEMMA KInit == Init => KInv
<1> SUFFICES ASSUME Init PROVE KInv
  OBVIOUS
<1> DEFINE acl == _resolve_scope_acl(Prior)
           chunks == {ChunkId(Prior, i) : i \in DOMAIN Chunks[Prior]}
           number(id) == CHOOSE i \in DOMAIN Chunks[Prior] : ChunkId(Prior, i) = id
           stored == [id \in chunks |-> [text |-> ChunkText(Prior, number(id)), acl |-> acl, vec |-> None,
                                         doc |-> Prior]]
<1>1. Prior \in Docs /\ acl # None
  BY PriorAccepted, NoneApart DEF Init, _resolve_scope_acl
<1>2. AclOf(Prior, acl)
  BY <1>1, ResolvedAcl
<1>0. entities = WithExtraction(stored, Prior, acl, FALSE)
  BY DEF Init
<1>7. job = [d \in Docs |-> IF d = Prior THEN [NewJob EXCEPT !.pc = "done", !.acl = acl] ELSE NewJob]
  BY DEF Init
<1> HIDE DEF acl
<1>3. Rows
  <2>1. ASSUME NEW x \in DOMAIN stored
        PROVE  RowOf(x, stored[x])
    <3>1. number(x) \in DOMAIN Chunks[Prior] /\ ChunkId(Prior, number(x)) = x
      OBVIOUS
    <3>2. Writes(Prior, x, ChunkText(Prior, number(x)))
      BY <3>1 DEF Writes
    <3>3. stored[x] = [text |-> ChunkText(Prior, number(x)), acl |-> acl, vec |-> None, doc |-> Prior]
      OBVIOUS
    <3> HIDE DEF number, stored
    <3> QED
      BY <1>1, <1>2, <3>2, <3>3 DEF RowOf
  <2> HIDE DEF stored
  <2>3. PICK no \in BOOLEAN : no = FALSE
    OBVIOUS
  <2>4. entities = WithExtraction(stored, Prior, acl, no)
    BY <1>0, <2>3, Zenon
  <2> QED
    BY <1>1, <1>2, <2>1, <2>4, ExtractedRows DEF Rows
<1>4. Jobs
  <2>1. PICK new : new = NewJob
    OBVIOUS
  <2>2. new = Call("new", 1, {}, {}, {}, {}, {})
    BY <2>1 DEF NewJob, Call
  <2>3. /\ IsCall(new) /\ new.pc = "new" /\ new.next = 1
        /\ new.left = {} /\ new.found = {} /\ new.gone = {} /\ new.put = {}
    BY <2>2, CallFields
  <2>4. \A d \in Docs : JobOf(d, new)
    BY <2>3 DEF JobOf, JobPcs
  <2>5. PICK done : done = [new EXCEPT !.pc = "done", !.acl = acl]
    OBVIOUS
  <2>6. done = Call("done", new.next, acl, new.left, new.found, new.gone, new.put)
    BY <2>3, <2>5, SetPcAcl
  <2>7. /\ IsCall(done) /\ done.pc = "done" /\ done.acl = acl
        /\ done.left = {} /\ done.found = {} /\ done.gone = {} /\ done.put = {}
    BY <2>3, <2>6, CallFields
  <2>8. JobOf(Prior, done)
    BY <1>2, <2>7 DEF JobOf, JobPcs
  <2>9. job = [d \in Docs |-> IF d = Prior THEN done ELSE new]
    BY <1>7, <2>1, <2>5
  <2> QED
    BY <2>4, <2>8, <2>9 DEF Jobs
<1>5. Edges
  BY <1>1 DEF Init, Edges
<1>6. Query /\ Filling
  BY QueryBounds, FS_EmptySet DEF Init, Query, Filling, NoQuery
<1> QED
  BY <1>3, <1>4, <1>5, <1>6 DEF KInv

(* Steps of an ingest call, but for what they do to the tables.            *)
LEMMA KFrame ==
    ASSUME KInv, Rows', Jobs', UNCHANGED <<relations, fill, asked>>
    PROVE  KInv'
  BY DEF KInv, Edges, Query, Filling, AclOf

(* The table is not touched.                                               *)
LEMMA KRows == ASSUME Rows, UNCHANGED entities PROVE Rows'
  BY DEF Rows, RowOf, AclOf, Writes

(* A request is refused, or the document's acl resolved: here only.        *)
LEMMA SubmitJob ==
    ASSUME Jobs, NEW d \in Docs, Submit(d)
    PROVE  /\ Jobs' /\ job[d].pc = "new"
           /\ \/ Becomes(d, Call("denied", job[d].next, job[d].acl, {}, {}, {}, {}))
              \/ \E acl : Becomes(d, Call("chunks", 1, acl, {}, {}, {}, {}))
<1>1. job[d].pc = "new"
  BY DEF Submit
<1>2. CASE Goto(d, "denied")
  <2>1. PICK pc \in {"denied", "failed", "delete_relations", "audit", "done"} : pc = "denied"
    OBVIOUS
  <2>2. Jobs' /\ Becomes(d, Call(pc, job[d].next, job[d].acl, {}, {}, {}, {}))
    BY <1>1, <1>2, <2>1, JobGoto
  <2> QED
    BY <1>1, <2>1, <2>2
<1>3. CASE ~Goto(d, "denied")
  <2>1. /\ _resolve_scope_acl(d) # None /\ DOMAIN Chunks[d] # {}
        /\ job' = [job EXCEPT ![d].pc = "chunks", ![d].acl = _resolve_scope_acl(d)]
    BY <1>3 DEF Submit
  <2>2. PICK acl : acl = _resolve_scope_acl(d)
    OBVIOUS
  <2>3. AclOf(d, acl) /\ 1 \in DOMAIN Chunks[d] /\ job' = [job EXCEPT ![d].pc = "chunks", ![d].acl = acl]
    BY <2>1, <2>2, ResolvedAcl, FirstChunk
  <2>4. Jobs' /\ Becomes(d, Call("chunks", 1, acl, {}, {}, {}, {}))
    BY <1>1, <2>3, JobAcl
  <2> QED
    BY <1>1, <2>4
<1> QED
  BY <1>2, <1>3

(* An upsert moves the call to the next chunk, or past the last one; or    *)
(* the call fails.                                                         *)
LEMMA UpsertChunkJob ==
    ASSUME KInv, NEW d \in Docs, UpsertChunk(d)
    PROVE  /\ Jobs' /\ Rows'
           /\ job[d].pc = "chunks" /\ job[d].next \in DOMAIN Chunks[d]
           /\ Free(d, EntityKey(ChunkId(d, job[d].next)))
           /\ \/ /\ Becomes(d, Call("failed", job[d].next, job[d].acl, {}, {}, {}, {})) /\ UNCHANGED entities
              \/ /\ \E embedded \in BOOLEAN :
                       /\ entities' = Upserted(entities, ChunkId(d, job[d].next), ChunkText(d, job[d].next),
                                               job[d].acl, embedded, d)
                       /\ ~embedded => unembedded'
                 /\ Becomes(d, Call(IF job[d].next + 1 \in DOMAIN Chunks[d] THEN "chunks" ELSE "extract",
                                    job[d].next + 1, job[d].acl, {}, {}, {}, {}))
<1> DEFINE i == job[d].next
           next == i + 1
           pc == IF next \in DOMAIN Chunks[d] THEN "chunks" ELSE "extract"
<1>1. /\ job[d].pc = "chunks" /\ AclOf(d, job[d].acl) /\ i \in DOMAIN Chunks[d]
      /\ Free(d, EntityKey(ChunkId(d, i))) /\ Jobs /\ Rows
  BY DEF UpsertChunk, KInv, Jobs, JobOf
<1>2. CASE Goto(d, "failed") /\ UNCHANGED entities
  <2>1. PICK to \in {"denied", "failed", "delete_relations", "audit", "done"} : to = "failed"
    OBVIOUS
  <2>2. Goto(d, to) /\ to # "denied"
    BY <1>2, <2>1
  <2>3. Jobs' /\ Becomes(d, Call(to, job[d].next, job[d].acl, {}, {}, {}, {}))
    BY <1>1, <2>2, JobGoto
  <2>4. Rows'
    BY <1>1, <1>2, KRows
  <2> QED
    BY <1>1, <1>2, <2>1, <2>3, <2>4
<1>3. CASE ~(Goto(d, "failed") /\ UNCHANGED entities)
  <2>1. PICK embedded \in BOOLEAN :
           /\ entities' = Upserted(entities, ChunkId(d, i), ChunkText(d, i), job[d].acl, embedded, d)
           /\ ~embedded => unembedded'
           /\ job' = [job EXCEPT ![d].next = next, ![d].pc = pc]
    BY <1>3 DEF UpsertChunk, EmbedFault
  <2>2. pc \in {"chunks", "extract"} /\ (pc = "chunks" => next \in DOMAIN Chunks[d])
    OBVIOUS
  <2>3. Rows'
    BY <1>1, <2>1, UpsertedRows
  <2> HIDE DEF pc, next
  <2>4. Jobs' /\ Becomes(d, Call(pc, next, job[d].acl, {}, {}, {}, {}))
    BY <1>1, <2>1, <2>2, JobNext
  <2> QED
    BY <1>1, <2>1, <2>3, <2>4 DEF pc, next
<1> QED
  BY <1>2, <1>3

(* Steps that only move an ingest call on.                                 *)
LEMMA GotoJob ==
    ASSUME Jobs, NEW d \in Docs, Extract(d) \/ Audit(d)
    PROVE  /\ Jobs'
           /\ \E pc \in {"delete_relations", "audit", "done", "failed"} :
                 /\ \/ job[d].pc = "extract" /\ pc \in {"delete_relations", "audit"}
                    \/ job[d].pc = "audit" /\ pc \in {"done", "failed"}
                 /\ Becomes(d, Call(pc, job[d].next, job[d].acl, {}, {}, {}, {}))
<1>1. PICK pc \in {"denied", "failed", "delete_relations", "audit", "done"} :
         /\ Goto(d, pc) /\ pc # "denied"
         /\ \/ job[d].pc = "extract" /\ pc \in {"delete_relations", "audit"}
            \/ job[d].pc = "audit" /\ pc \in {"done", "failed"}
  BY DEF Extract, Audit
<1>2. job[d].pc \in {"extract", "audit"}
  BY <1>1
<1>3. Jobs' /\ Becomes(d, Call(pc, job[d].next, job[d].acl, {}, {}, {}, {}))
  BY <1>1, <1>2, JobGoto
<1> QED
  BY <1>1, <1>3

(* The steps that write no row keep the invariant.                         *)
LEMMA KJob ==
    ASSUME KInv, NEW d \in Docs,
           \/ Submit(d) \/ Extract(d) \/ Audit(d) \/ DeleteRelations(d) \/ LockRow(d) \/ DeleteEntities(d)
           \/ Insert(d) \/ Rollback(d) \/ DeadlockDetected(d)
    PROVE  KInv'
<1>1. UNCHANGED <<entities, relations, fill, asked>>
  BY DEF Submit, Extract, Audit, DeleteRelations, LockRow, DeleteEntities, Insert, Rollback, DeadlockDetected
<1>2. Jobs'
  BY SubmitJob, GotoJob, DeleteRelationsJob, LockRowJob, DeleteEntitiesJob, InsertJob, RollbackJob DEF KInv
<1> QED
  BY <1>1, <1>2, KRows, KFrame DEF KInv

(* A chunk is stored with the acl of the call.                             *)
LEMMA KUpsertChunk == ASSUME KInv, NEW d \in Docs, UpsertChunk(d) PROVE KInv'
<1>1. UNCHANGED <<relations, fill, asked>>
  BY DEF UpsertChunk
<1> QED
  BY <1>1, UpsertChunkJob, KFrame

(* What COMMIT leaves of the rows, and what it puts in their place.        *)
LEMMA CommitRows ==
    ASSUME KInv, NEW d \in Docs, Commit(d)
    PROVE  \E embedded \in BOOLEAN :
              /\ entities' = WithExtraction([x \in {x \in DOMAIN entities : EntityKey(x) \notin job[d].gone} |->
                                                entities[x]], d, job[d].acl, embedded)
              /\ ~embedded => unembedded'
  BY DEF Commit

(* What the commit writes is the extraction of its document.               *)
LEMMA KCommit == ASSUME KInv, NEW d \in Docs, Commit(d) PROVE KInv'
<1>1. job[d].pc = "insert" /\ AclOf(d, job[d].acl) /\ Jobs
  BY DEF Commit, KInv, Jobs, JobOf
<1>2. Jobs'
  BY <1>1, CommitJob
<1>3. Rows'
  <2> DEFINE rows == [x \in {x \in DOMAIN entities : EntityKey(x) \notin job[d].gone} |-> entities[x]]
  <2>1. PICK embedded \in BOOLEAN : entities' = WithExtraction(rows, d, job[d].acl, embedded)
    BY CommitRows
  <2>2. \A x \in DOMAIN rows : RowOf(x, rows[x])
    BY DEF KInv, Rows
  <2> HIDE DEF rows
  <2>3. entities' = [x \in DOMAIN entities' |-> entities'[x]] /\ \A x \in DOMAIN entities' : RowOf(x, entities'[x])
    BY <1>1, <2>1, <2>2, ExtractedRows
  <2> QED
    BY <2>3 DEF Rows
<1>4. Edges'
  BY DEF Commit, Edges, KInv
<1>5. Filling'
  <2>1. fill' = fill \/ \E x : fill' = Passed(x)
    BY DEF Commit
  <2>2. ASSUME NEW x, fill' = Passed(x)
        PROVE  Filling'
    BY <2>2 DEF Passed, Filling
  <2> QED
    BY <2>1, <2>2 DEF Filling, KInv
<1>6. Query'
  BY DEF Commit, KInv, Query, AclOf
<1> QED
  BY <1>2, <1>3, <1>4, <1>5, <1>6 DEF KInv

(* Two rows that differ in their vector only.                              *)
Says(r, s) == r.text = s.text /\ r.acl = s.acl /\ r.doc = s.doc

(* A row keeps its place when only its vector is set.                      *)
LEMMA VectorRows ==
    ASSUME Rows, DOMAIN entities' = DOMAIN entities, entities' = [id \in DOMAIN entities' |-> entities'[id]],
           \A id \in DOMAIN entities : \E v : entities'[id] = [entities[id] EXCEPT !.vec = v]
    PROVE  /\ Rows'
           /\ \A id \in DOMAIN entities : Says(entities'[id], entities[id])
<1>1. ASSUME NEW id \in DOMAIN entities
      PROVE  RowOf(id, entities'[id]) /\ Says(entities'[id], entities[id])
  <2>1. PICK v : entities'[id] = [entities[id] EXCEPT !.vec = v]
    OBVIOUS
  <2>2. RowOf(id, entities[id])
    BY DEF Rows
  <2> QED
    BY <2>1, <2>2 DEF RowOf, Says
<1> QED
  BY <1>1 DEF Rows

(* A worker that starts empties the vectors, or leaves them.               *)
LEMMA SetupRows ==
    ASSUME KInv, Setup
    PROVE  /\ Rows' /\ DOMAIN entities' = DOMAIN entities
           /\ \A id \in DOMAIN entities : /\ Says(entities'[id], entities[id])
                                          /\ entities'[id].vec \in {None, entities[id].vec}
<1>1. PICK resized \in BOOLEAN :
         entities' = [id \in DOMAIN entities |-> [entities[id] EXCEPT !.vec = IF resized THEN None ELSE @]]
  BY DEF Setup
<1>2. /\ DOMAIN entities' = DOMAIN entities /\ entities' = [id \in DOMAIN entities' |-> entities'[id]]
      /\ \A id \in DOMAIN entities : \E v : entities'[id] = [entities[id] EXCEPT !.vec = v]
  BY <1>1
<1>3. \A id \in DOMAIN entities : entities'[id].vec \in {None, entities[id].vec}
  BY <1>1 DEF KInv, Rows, RowOf
<1> QED
  BY <1>2, <1>3, VectorRows DEF KInv

(* An UPDATE of the backfill sets one vector.                              *)
LEMMA UpdateRows ==
    ASSUME KInv, NEW id, UpdateVector(id)
    PROVE  /\ Rows' /\ DOMAIN entities' = DOMAIN entities
           /\ \A x \in DOMAIN entities : /\ Says(entities'[x], entities[x])
                                         /\ x # id => entities'[x] = entities[x]
           /\ id \in DOMAIN entities => entities'[id].vec = fill.rows[id]
<1>1. CASE id \notin DOMAIN entities
  BY <1>1, KRows DEF UpdateVector, KInv, Says
<1>2. CASE id \in DOMAIN entities
  <2>1. entities' = [entities EXCEPT ![id].vec = fill.rows[id]]
    BY <1>2 DEF UpdateVector
  <2>2. entities'[id] = [entities[id] EXCEPT !.vec = fill.rows[id]]
    BY <1>2, <2>1 DEF KInv, Rows
  <2>3. \A x \in DOMAIN entities : x # id => entities'[x] = entities[x]
    BY <2>1 DEF KInv, Rows
  <2>4. \A x \in DOMAIN entities : entities[x] = [entities[x] EXCEPT !.vec = entities[x].vec]
    BY DEF KInv, Rows, RowOf
  <2>5. DOMAIN entities' = DOMAIN entities /\ entities' = [x \in DOMAIN entities' |-> entities'[x]]
    BY <2>1 DEF KInv, Rows
  <2>6. \A x \in DOMAIN entities : \E v : entities'[x] = [entities[x] EXCEPT !.vec = v]
    BY <2>2, <2>3, <2>4
  <2>7. entities'[id].vec = fill.rows[id]
    BY <1>2, <2>2 DEF KInv, Rows, RowOf
  <2> QED
    BY <2>3, <2>5, <2>6, <2>7, VectorRows DEF KInv
<1> QED
  BY <1>1, <1>2

(* Neither changes what a row says or who may read it.                     *)
LEMMA KBackfill == ASSUME KInv, Setup \/ SelectNull \/ \E id \in DOMAIN fill.rows : UpdateVector(id) PROVE KInv'
<1>1. UNCHANGED <<relations, job, asked>>
  BY DEF Setup, SelectNull, UpdateVector
<1>2. Rows'
  BY SetupRows, UpdateRows, KRows DEF SelectNull, KInv
<1>3. Filling'
  <2>0. ASSUME NEW pc \in {"off", "select"}, fill' = [fill EXCEPT !.pc = pc]
        PROVE  Filling'
    BY <2>0 DEF Filling, KInv
  <2>1. CASE Setup
    BY <2>0, <2>1 DEF Setup
  <2>2. CASE SelectNull
    <3>1. \/ \E rows : fill' = [pc |-> "update", rows |-> rows]
          \/ fill' = [fill EXCEPT !.pc = "off"]
      BY <2>2 DEF SelectNull
    <3> QED
      BY <2>0, <3>1 DEF Filling
  <2>3. CASE \E id \in DOMAIN fill.rows : UpdateVector(id)
    BY <2>3 DEF UpdateVector, Passed, Filling
  <2> QED
    BY <2>1, <2>2, <2>3
<1>4. Jobs' /\ Edges' /\ Query'
  BY <1>1 DEF KInv, Jobs, JobOf, Edges, Query, AclOf
<1> QED
  BY <1>2, <1>3, <1>4 DEF KInv

(* What a statement returns is a row of the table.                         *)
LEMMA SqlRowsOf ==
    ASSUME KInv, NEW r \in SqlRows
    PROVE  r.doc \in Docs /\ AclOf(r.doc, r.acl)
<1>1. PICK id \in DOMAIN entities : r = Row(id)
  BY DEF SqlRows
<1>2. RowOf(id, entities[id])
  BY DEF KInv, Rows
<1> QED
  BY <1>1, <1>2 DEF Row, RowOf

(* A query keeps rows as they were stored, and no more than its limits.    *)
LEMMA KQuery ==
    ASSUME KInv, (\E p \in Principals : Ask(p)) \/ VectorQuery \/ Answer \/ Consume
    PROVE  KInv'
<1>1. UNCHANGED <<entities, relations, job, fill>>
  BY DEF Ask, VectorQuery, Answer, Consume
<1>2. Rows' /\ Jobs' /\ Edges' /\ Filling'
  BY <1>1, KRows DEF KInv, Jobs, JobOf, Edges, Filling, AclOf
<1>3. Query'
  <2>1. CASE \E p \in Principals : Ask(p)
    BY <2>1, QueryBounds, FS_EmptySet DEF Ask, Query
  <2>2. CASE Consume
    BY <2>2, QueryBounds, FS_EmptySet DEF Consume, NoQuery, Query
  <2>3. CASE Answer
    <3>1. PICK rows : Cardinality(rows) <= Limit /\ asked' = [asked EXCEPT !.pc = "answered", !.rows = rows]
      BY <2>3 DEF Answer, Ranked
    <3>2. asked' = [pc |-> "answered", who |-> asked.who, perms |-> asked.perms, near |-> asked.near, rows |-> rows]
      BY <3>1 DEF KInv, Query
    <3> QED
      BY <3>1, <3>2 DEF KInv, Query
  <2>4. CASE VectorQuery
    <3>1. CASE asked' = [asked EXCEPT !.pc = "fts"]
      BY <3>1 DEF KInv, Query
    <3>2. CASE asked' # [asked EXCEPT !.pc = "fts"]
      <4>1. PICK near \in SUBSET SqlRows : /\ Cardinality(near) <= Candidates
                                           /\ asked' = [asked EXCEPT !.pc = "hybrid", !.near = near]
        BY <2>4, <3>2 DEF VectorQuery, Ranked
      <4>2. asked' = [pc |-> "hybrid", who |-> asked.who, perms |-> asked.perms, near |-> near, rows |-> asked.rows]
        BY <4>1 DEF KInv, Query
      <4>3. \A r \in near : r.doc \in Docs /\ AclOf(r.doc, r.acl)
        BY SqlRowsOf
      <4> QED
        BY <4>1, <4>2, <4>3 DEF KInv, Query
    <3> QED
      BY <3>1, <3>2
  <2> QED
    BY <2>1, <2>2, <2>3, <2>4
<1> QED
  BY <1>2, <1>3 DEF KInv

(* Every step keeps the invariant.                                         *)
LEMMA KStep == KInv /\ [Next]_vars => KInv'
<1> SUFFICES ASSUME KInv, [Next]_vars PROVE KInv'
  OBVIOUS
<1>1. ASSUME UNCHANGED <<entities, relations, job, fill, asked>>
      PROVE  KInv'
  BY <1>1, KRows DEF KInv, Jobs, JobOf, Edges, Query, Filling, AclOf
<1>2. CASE UNCHANGED vars
  BY <1>1, <1>2 DEF vars
<1>3. ASSUME NEW row, Grant(row) \/ Revoke(row)
      PROVE  KInv'
  BY <1>1, <1>3 DEF Grant, Revoke
<1>4. ASSUME NEW d \in Docs, IngestStep(d)
      PROVE  KInv'
  BY <1>4, KJob, KUpsertChunk, KCommit DEF IngestStep
<1> QED
  BY <1>2, <1>3, <1>4, KBackfill, KQuery DEF Next, BackfillStep, QueryStep
-----------------------------------------------------------------------------
(* Every stored row is a chunk or an extracted entity of the document that *)
(* wrote it, with that document's text and an acl, every edge is one its   *)
(* document collected, and rows are held inside a transaction only: no     *)
(* re-ingestion, collision of ids, extraction, backfill or rollback mixes  *)
(* two documents up in one row, for any documents, chunk sizes, caps and   *)
(* number of calls (_extracted_entity_id, persist_extraction).             *)
THEOREM TypeCorrect == Spec => []TypeOK
<1>1. KInv => TypeOK
  <2> SUFFICES ASSUME KInv PROVE TypeOK
    OBVIOUS
  <2>1. ASSUME NEW d \in Docs, NEW acl, AclOf(d, acl)
        PROVE  acl # None
    BY <2>1, NoneApart DEF AclOf
  <2>2. \A id \in DOMAIN entities : RowOf(id, entities[id]) /\ entities[id].acl # None
    BY <2>1 DEF KInv, Rows, RowOf
  <2>3. \A d \in Docs : JobOf(d, job[d])
    BY DEF KInv, Jobs
  <2>4. \A d \in Docs : job[d].pc \in JobPcs /\ (Held(d) # {} => InTransaction(d))
    BY <2>3 DEF JobOf, Held, InTransaction
  <2>5. \A id \in DOMAIN entities : entities[id].doc \in Docs /\ Writes(entities[id].doc, id, entities[id].text)
    BY <2>2 DEF RowOf
  <2> QED
    BY <2>2, <2>4, <2>5 DEF TypeOK, KInv, Writes, JobPcs, Edges, Query, Filling
<1> QED
  BY <1>1, KInit, KStep, PTL DEF Spec
-----------------------------------------------------------------------------
(* A hierarchical permission covers itself.                                *)
LEMMA CoversItself ==
    ASSUME NEW S, NEW g \in Seq(S), IsHierarchical(g)
    PROVE  Covers(g, g)
<1>1. Len(g) \in Nat /\ Len(g) > 1
  BY DEF IsHierarchical
<1>2. Front(g) \in Seq(S) /\ Len(Front(g)) = Len(g) - 1
  BY <1>1 DEF Front
<1>3. \A i \in 1..(Len(g) - 1) : Front(g)[i] = g[i]
  BY <1>1 DEF Front
<1>4. SubSeq(Front(g), 1, Len(Front(g))) = SubSeq(g, 1, Len(Front(g)))
  BY <1>1, <1>2, <1>3
<1> QED
  BY <1>1, <1>2, <1>4 DEF Covers, IsPrefix

(* A fourth segment appended to three.                                     *)
LEMMA FourSegments ==
    ASSUME NEW S, NEW a \in S, NEW b \in S, NEW c \in S, NEW w \in S
    PROVE  Append(<<a, b, c>>, w) = <<a, b, c, w>>
<1> DEFINE long == Append(<<a, b, c>>, w)
           four == <<a, b, c, w>>
<1>1. <<a, b, c>> \in Seq(S)
  OBVIOUS
<1>2. /\ long \in Seq(S) /\ Len(long) = 4 /\ long[4] = w
      /\ \A i \in 1..3 : long[i] = <<a, b, c>>[i]
  BY <1>1, AppendProperties
<1>3. four \in Seq(S) /\ Len(four) = 4 /\ four[1] = a /\ four[2] = b /\ four[3] = c /\ four[4] = w
  OBVIOUS
<1>4. long[1] = a /\ long[2] = b /\ long[3] = c
  BY <1>2
<1> HIDE DEF long, four
<1>5. \A i \in 1..4 : long[i] = four[i]
  BY <1>2, <1>3, <1>4
<1> QED
  BY <1>2, <1>3, <1>5, SeqEqual DEF long, four

(* The identity entry, segment by segment.                                 *)
LEMMA IdentitySegments ==
    ASSUME NEW w
    PROVE  identity_acl(w) = <<"kg", "read", "user", w>>
<1> DEFINE S == {"kg", "read", "user", w}
<1>1. "kg" \in S /\ "read" \in S /\ "user" \in S /\ w \in S
  OBVIOUS
<1> HIDE DEF S
<1> QED
  BY <1>1, FourSegments DEF identity_acl, IDENTITY_ACL_PREFIX

(* The identity entry of a user is one,                                    *)
LEMMA IdentityEntry == ASSUME NEW u PROVE IsIdentity(identity_acl(u))
<1>1. IsIdentity(<<"kg", "read", "user", u>>)
  BY DEF IsIdentity, IDENTITY_ACL_PREFIX, IsPrefix
<1> QED
  BY <1>1, IdentitySegments

(* and of no other user.                                                   *)
LEMMA IdentityApart == ASSUME NEW u, NEW v, identity_acl(u) = identity_acl(v) PROVE u = v
  BY IdentitySegments

(* can_read and the SQL predicate, on any acl, policy and principal.       *)
LEMMA Parity ==
    ASSUME NEW pol, NEW p, NEW acl, \A a \in acl : IsIdentity(a) \/ \E S : a \in Seq(S)
    PROVE  LET sql == sql_readable(expand_roles(pol, p.roles), p, acl)
           IN /\ can_read(pol, p, acl) => sql
              /\ sql /\ ~can_read(pol, p, acl) => \E a \in acl : IsIdentity(a) /\ a \in Granted(pol, p.roles)
<1> DEFINE perms == expand_roles(pol, p.roles)
           own == identity_acl(p.user_id)
<1>1. IsIdentity(own)
  BY IdentityEntry
<1>2. \A a \in perms : a # WILDCARD => a \in Granted(pol, p.roles)
  BY DEF expand_roles
<1> HIDE DEF perms, own
<1>3. can_read(pol, p, acl) <=> \/ acl = {}
                               \/ \E a \in acl : IF IsIdentity(a) THEN a = own ELSE permission_satisfied(perms, a)
  BY DEF can_read, can, perms, own
<1>4. sql_readable(perms, p, acl) <=>
         \/ acl = {}
         \/ \E a \in acl : a = own \/ (a \in perms /\ a # WILDCARD /\ ~IsHierarchical(a))
         \/ \E a \in acl : ~IsIdentity(a) /\ \E g \in perms : IsHierarchical(g) /\ Covers(g, a)
         \/ WILDCARD \in perms /\ \E a \in acl : ~IsIdentity(a)
  BY DEF sql_readable, ExactGrants, own
<1>5. can_read(pol, p, acl) => sql_readable(perms, p, acl)
  BY <1>3, <1>4, CoversItself DEF permission_satisfied
<1>6. ASSUME sql_readable(perms, p, acl), ~can_read(pol, p, acl)
      PROVE  \E a \in acl : IsIdentity(a) /\ a \in Granted(pol, p.roles)
  BY <1>1, <1>2, <1>3, <1>4, <1>6 DEF permission_satisfied
<1> QED
  BY <1>5, <1>6 DEF perms

(* The SQL predicate of the two search statements and can_read agree on    *)
(* every stored row, for every policy and principal, but for a role that   *)
(* was granted a user's identity entry (_RBAC_PREDICATE, can_read).        *)
THEOREM FilterParityHolds == Spec => []FilterParity
<1>1. KInv => FilterParity
  <2> SUFFICES ASSUME KInv PROVE FilterParity
    OBVIOUS
  <2>1. ASSUME NEW id \in DOMAIN entities
        PROVE  \A a \in entities[id].acl : IsIdentity(a) \/ \E S : a \in Seq(S)
    <3>1. entities[id].doc \in Docs /\ AclOf(entities[id].doc, entities[id].acl)
      BY DEF KInv, Rows, RowOf
    <3>2. <<"kg", "read", "org">> \in Seq({"kg", "read", "org"})
      OBVIOUS
    <3> DEFINE doc == DocOf[entities[id].doc]
    <3>3. CASE doc.scope = "personal"
      <4>1. entities[id].acl = {identity_acl(doc.by.user_id)}
        BY <3>1, <3>3 DEF AclOf
      <4> QED
        BY <4>1, IdentityEntry
    <3>4. CASE doc.scope # "personal" /\ doc.org_acl \in {None, {}}
      <4>1. entities[id].acl = {<<"kg", "read", "org">>}
        BY <3>1, <3>4 DEF AclOf, DEFAULT_ORG_ACL
      <4> QED
        BY <3>2, <4>1
    <3>5. CASE doc.scope # "personal" /\ doc.org_acl \notin {None, {}}
      <4>1. entities[id].acl = doc.org_acl
        BY <3>1, <3>5 DEF AclOf
      <4>2. \A a \in entities[id].acl : a \in Seq(STRING)
        BY <3>1, <3>5, <4>1, DocAcls
      <4> QED
        BY <4>2
    <3> QED
      BY <3>3, <3>4, <3>5
  <2> QED
    BY <2>1, Parity DEF FilterParity
<1> QED
  BY <1>1, KInit, KStep, PTL DEF Spec
-----------------------------------------------------------------------------
(* Whom can_read admits to a row, its author meant to read it.             *)
LEMMA ReadersMeant ==
    ASSUME NEW d \in Docs, NEW acl, AclOf(d, acl), NEW p, can_read(policy, p, acl)
    PROVE  MeantFor(d, p)
<1>1. CASE DocOf[d].scope = "personal"
  <2> DEFINE a == identity_acl(DocOf[d].by.user_id)
  <2>1. acl = {a} /\ IsIdentity(a)
    BY <1>1, IdentityEntry DEF AclOf
  <2>2. a = identity_acl(p.user_id)
    BY <2>1 DEF can_read
  <2> QED
    BY <1>1, <2>2, IdentityApart DEF MeantFor
<1>2. CASE DocOf[d].scope # "personal"
  BY <1>2 DEF MeantFor, AclOf
<1> QED
  BY <1>1, <1>2

(* An answer holds only rows of documents whose author meant the caller to *)
(* read them under the policy at the time of the answer, whatever was      *)
(* ingested, granted or revoked between the statements of the query: for   *)
(* any documents, policies and principals (query, can_read).               *)
THEOREM AnswersIsolatedHolds == Spec => AnswersIsolated
<1>1. KInv /\ [Next]_vars =>
         [asked.pc # "answered" /\ asked'.pc = "answered" => \A r \in asked'.rows : MeantFor(r.doc, asked.who)]_vars
  <2> SUFFICES ASSUME KInv, [Next]_vars, asked.pc # "answered", asked'.pc = "answered", NEW r \in asked'.rows
               PROVE  MeantFor(r.doc, asked.who)
    OBVIOUS
  <2>1. asked' # asked
    OBVIOUS
  <2>2. Answer
    <3>1. ASSUME NEW d, IngestStep(d) PROVE UNCHANGED asked
      BY <3>1 DEF IngestStep, Submit, UpsertChunk, Extract, DeleteRelations, LockRow,
                  DeleteEntities, Insert, Commit, Rollback, DeadlockDetected, Audit
    <3>2. ASSUME Setup \/ BackfillStep \/ \E row \in Grantable : Grant(row) \/ Revoke(row) PROVE UNCHANGED asked
      BY <3>2 DEF Setup, BackfillStep, SelectNull, UpdateVector, Grant, Revoke
    <3>3. ASSUME NEW p, Ask(p) PROVE FALSE
      BY <3>3 DEF Ask
    <3>4. ASSUME VectorQuery PROVE FALSE
      <4>1. CASE asked' = [asked EXCEPT !.pc = "fts"]
        BY <4>1 DEF KInv, Query
      <4>2. CASE asked' # [asked EXCEPT !.pc = "fts"]
        <5>1. PICK near : asked' = [asked EXCEPT !.pc = "hybrid", !.near = near]
          BY <3>4, <4>2 DEF VectorQuery
        <5>2. asked' = [pc |-> "hybrid", who |-> asked.who, perms |-> asked.perms, near |-> near, rows |-> asked.rows]
          BY <5>1 DEF KInv, Query
        <5> QED
          BY <5>2
      <4> QED
        BY <4>1, <4>2
    <3>5. ASSUME Consume PROVE FALSE
      BY <3>5 DEF Consume, NoQuery
    <3> QED
      BY <2>1, <3>1, <3>2, <3>3, <3>4, <3>5 DEF Next, QueryStep, vars
  <2> DEFINE matching == {x \in SqlRows : SharesWord(x)}
             fused == IF matching = {} THEN {}
                      ELSE matching \cup {x \in asked.near : x.id \notin {m.id : m \in matching}}
  <2>3. PICK rows \in SUBSET {x \in fused : can_read(policy, asked.who, x.acl)} :
           asked' = [asked EXCEPT !.pc = "answered", !.rows = rows]
    BY <2>2 DEF Answer, Ranked
  <2>4. fused \subseteq SqlRows \cup asked.near
    OBVIOUS
  <2> HIDE DEF fused
  <2>5. asked'.rows = rows
    BY <2>3 DEF KInv, Query
  <2>6. r \in SqlRows \cup asked.near /\ can_read(policy, asked.who, r.acl)
    BY <2>3, <2>4, <2>5
  <2>7. r.doc \in Docs /\ AclOf(r.doc, r.acl)
    BY <2>6, SqlRowsOf DEF KInv, Query
  <2> QED
    BY <2>6, <2>7, ReadersMeant
<1> QED
  BY <1>1, KInit, KStep, PTL DEF Spec, AnswersIsolated
-----------------------------------------------------------------------------
(* A vector is stored with the text it is of: the upserts write both, a    *)
(* backfill that finds the text it had read writes the vector of that      *)
(* text, and what else touches a row leaves one of the two ways out on     *)
(* record.                                                                 *)
LEMMA EmbeddingStep == KInv /\ EmbeddingFresh /\ [Next]_vars => EmbeddingFresh'
<1> SUFFICES ASSUME KInv, EmbeddingFresh, [Next]_vars PROVE EmbeddingFresh'
  OBVIOUS
<1>1. ASSUME UNCHANGED <<entities, unembedded, overtaken>>
      PROVE  EmbeddingFresh'
  BY <1>1 DEF EmbeddingFresh
<1>2. CASE UNCHANGED vars
  BY <1>1, <1>2 DEF vars, used, past
<1>3. ASSUME NEW d \in Docs, UpsertChunk(d)
      PROVE  EmbeddingFresh'
  <2> DEFINE i == job[d].next
  <2>1. CASE UNCHANGED entities /\ UNCHANGED past
    BY <1>1, <2>1 DEF past
  <2>2. CASE entities' = Upserted(entities, ChunkId(d, i), ChunkText(d, i), job[d].acl, TRUE, d)
             /\ UNCHANGED past
    <3>1. \E yes \in BOOLEAN :
             /\ yes = TRUE
             /\ entities' = Upserted(entities, ChunkId(d, i), ChunkText(d, i), job[d].acl, yes, d)
      BY <2>2
    <3>2. AclOf(d, job[d].acl) /\ i \in DOMAIN Chunks[d] /\ Rows
      BY <1>3 DEF UpsertChunk, KInv, Jobs, JobOf
    <3>3. \A x \in DOMAIN entities' :
             \/ x \in DOMAIN entities /\ entities'[x] = entities[x]
             \/ entities'[x].vec = entities'[x].text
      BY <3>1, <3>2, UpsertedRows
    <3> QED
      BY <2>2, <3>3 DEF EmbeddingFresh, past
  <2>3. CASE EmbedFault
    BY <2>3 DEF EmbedFault, EmbeddingFresh
  <2> QED
    BY <1>3, <2>1, <2>2, <2>3 DEF UpsertChunk, Event, used
<1>4. ASSUME NEW d \in Docs, Commit(d)
      PROVE  EmbeddingFresh'
  <2>1. PICK kept \in SUBSET DOMAIN entities, embedded \in BOOLEAN :
           /\ entities' = WithExtraction([x \in kept |-> entities[x]], d, job[d].acl, embedded)
           /\ ~embedded => unembedded'
    BY <1>4, CommitRows
  <2>2. UNCHANGED overtaken /\ (unembedded' \/ UNCHANGED unembedded)
    BY <1>4 DEF Commit
  <2>3. CASE embedded
    <3> DEFINE rows == [x \in kept |-> entities[x]]
    <3>1. AclOf(d, job[d].acl) /\ \A x \in DOMAIN rows : RowOf(x, rows[x])
      BY <1>4 DEF KInv, Rows, Jobs, JobOf, Commit
    <3>2. \A x \in DOMAIN rows : x \in DOMAIN entities /\ rows[x] = entities[x]
      OBVIOUS
    <3>0. entities' = WithExtraction(rows, d, job[d].acl, embedded)
      BY <2>1
    <3> HIDE DEF rows
    <3>3. \A x \in DOMAIN entities' :
             \/ x \in DOMAIN rows /\ entities'[x] = rows[x]
             \/ embedded => entities'[x].vec = entities'[x].text
      BY <3>0, <3>1, ExtractedRows
    <3> QED
      BY <2>2, <2>3, <3>2, <3>3 DEF EmbeddingFresh
  <2>4. CASE ~embedded
    BY <2>1, <2>4 DEF EmbeddingFresh
  <2> QED
    BY <2>3, <2>4
<1>5. ASSUME NEW d \in Docs,
             \/ Submit(d) \/ Extract(d) \/ DeleteRelations(d) \/ LockRow(d) \/ DeleteEntities(d)
             \/ Insert(d) \/ Rollback(d) \/ DeadlockDetected(d) \/ Audit(d)
      PROVE  EmbeddingFresh'
  BY <1>1, <1>5 DEF Submit, Extract, DeleteRelations, LockRow, DeleteEntities, Insert, Rollback,
                    DeadlockDetected, Audit, Event, used, past
<1>6. CASE Setup
  <2>1. UNCHANGED <<unembedded, overtaken>>
    BY <1>6 DEF Setup, Event, past
  <2>2. DOMAIN entities' = DOMAIN entities /\ \A id \in DOMAIN entities : entities'[id].text = entities[id].text
                                              /\ entities'[id].vec \in {None, entities[id].vec}
    BY <1>6, SetupRows DEF Says
  <2> QED
    BY <2>1, <2>2 DEF EmbeddingFresh
<1>7. CASE SelectNull
  BY <1>1, <1>7 DEF SelectNull, used, past
<1>8. ASSUME NEW id \in DOMAIN fill.rows, UpdateVector(id)
      PROVE  EmbeddingFresh'
  <2>1. UNCHANGED unembedded /\ (overtaken => overtaken')
    BY <1>8 DEF UpdateVector
  <2>2. id \in DOMAIN entities => overtaken' \/ entities[id].text = fill.rows[id]
    BY <1>8 DEF UpdateVector
  <2> QED
    BY <1>8, <2>1, <2>2, UpdateRows DEF EmbeddingFresh, Says
<1>9. ASSUME NEW row, Grant(row) \/ Revoke(row)
      PROVE  EmbeddingFresh'
  BY <1>1, <1>9 DEF Grant, Revoke, Event, past
<1>10. CASE (\E p \in Principals : Ask(p)) \/ VectorQuery \/ Answer \/ Consume
  BY <1>1, <1>10 DEF Ask, VectorQuery, Answer, Consume, Event, used, past
<1> QED
  BY <1>2, <1>3, <1>4, <1>5, <1>6, <1>7, <1>8, <1>9, <1>10 DEF Next, IngestStep, BackfillStep, QueryStep

(* A worker without an embedder stores no vector.                          *)
LEMMA NothingEmbedded ==
    ASSUME NEW rows, \A x \in DOMAIN rows : rows[x].vec = None, NEW d, NEW acl
    PROVE  LET R == WithExtraction(rows, d, acl, FALSE) IN \A x \in DOMAIN R : R[x].vec = None
<1> DEFINE text(id) == NameText(CHOOSE n \in Extracted[d] : EntityId(d, n) = id)
           old(id) == IF id \in DOMAIN rows THEN rows[id].vec ELSE None
           row(id) == [text |-> text(id), acl |-> acl, vec |-> old(id), doc |-> d]
           R == WithExtraction(rows, d, acl, FALSE)
<1>1. R = [x \in DOMAIN rows \cup Ids(d) |-> IF x \in Ids(d) THEN row(x) ELSE rows[x]]
  BY DEF WithExtraction
<1>2. \A x : row(x).vec = None
  OBVIOUS
<1> HIDE DEF R, row
<1> QED
  BY <1>1, <1>2 DEF R

(* A stored vector is of the text it is stored with, unless an embedding   *)
(* failed or a backfill was overtaken by an upsert (upsert_entity,         *)
(* persist_extraction, _backfill_null_embeddings), for any number of calls *)
(* and workers' starts.                                                    *)
THEOREM EmbeddingFreshHolds == Spec => []EmbeddingFresh
<1>1. Init => EmbeddingFresh
  <2> DEFINE acl == _resolve_scope_acl(Prior)
             chunks == {ChunkId(Prior, i) : i \in DOMAIN Chunks[Prior]}
             number(id) == CHOOSE i \in DOMAIN Chunks[Prior] : ChunkId(Prior, i) = id
             stored == [id \in chunks |-> [text |-> ChunkText(Prior, number(id)), acl |-> acl, vec |-> None,
                                           doc |-> Prior]]
  <2>1. \A x \in DOMAIN stored : stored[x].vec = None
    OBVIOUS
  <2>2. Init => entities = WithExtraction(stored, Prior, acl, FALSE)
    BY DEF Init
  <2> HIDE DEF stored, acl
  <2>3. Init => \A x \in DOMAIN entities : entities[x].vec = None
    BY <2>1, <2>2, NothingEmbedded
  <2> QED
    BY <2>3 DEF EmbeddingFresh
<1> QED
  BY <1>1, KInit, KStep, EmbeddingStep, PTL DEF Spec
-----------------------------------------------------------------------------
(* What an acknowledged ingest leaves behind                               *)

(* Natural numbers are well ordered.                                       *)
LEMMA Least ==
    ASSUME NEW S \in SUBSET Nat, S # {}
    PROVE  \E k \in S : \A j \in S : k <= j
<1>0. OpToRel(<, Nat) = {p \in Nat \X Nat : p[1] < p[2]}
  BY DEF OpToRel
<1> DEFINE R == {p \in Nat \X Nat : p[1] < p[2]}
<1>1. IsWellFoundedOn(R, Nat)
  BY <1>0, NatLessThanWellFounded
<1>4. \A j, k \in Nat : j < k => <<j, k>> \in R
  OBVIOUS
<1> HIDE DEF R
<1>2. PICK k \in S : \A j \in S : ~(<<j, k>> \in R)
  BY <1>1, WFMin
<1>3. \A j \in S : ~(j < k)
  BY <1>2, <1>4
<1> QED
  BY <1>3

(* From one window of a text to the next,                                  *)
Step == ChunkSize - ChunkOverlap

(* and what comes before the i-th.                                         *)
StartOf(i) == (i - 1) * Step

(* The smaller of two numbers is one of them.                              *)
LEMMA MinOf ==
    ASSUME NEW a \in Int, NEW b \in Int
    PROVE  /\ Min({a, b}) \in {a, b} /\ Min({a, b}) <= a /\ Min({a, b}) <= b
<1>1. \E x \in {a, b} : \A y \in {a, b} : x <= y
  OBVIOUS
<1> QED
  BY <1>1 DEF Min

(* Positions grow with the number of the window.                           *)
LEMMA Starts ==
    /\ Step \in Nat \ {0} /\ ChunkSize \in Nat /\ Step <= ChunkSize
    /\ \A i \in Nat : StartOf(i) \in Int /\ StartOf(i + 1) = StartOf(i) + Step
    /\ StartOf(1) = 0
    /\ \A i, j \in Nat : i <= j => StartOf(i) <= StartOf(j)
    /\ \A i \in Nat \ {0} : StartOf(i) \in Nat /\ StartOf(i) >= i - 1
<1>1. Step \in Nat \ {0} /\ ChunkSize \in Nat /\ Step <= ChunkSize
  BY ChunkWindow DEF Step
<1>2. \A i \in Nat : StartOf(i) \in Int /\ StartOf(i + 1) = StartOf(i) + Step
  BY <1>1 DEF StartOf
<1>3. StartOf(1) = 0
  BY <1>1 DEF StartOf
<1>4. ASSUME NEW i \in Nat, NEW j \in Nat, i <= j
      PROVE  StartOf(i) <= StartOf(j)
  <2>1. \A a, b \in Nat : a * b >= 0
    OBVIOUS
  <2>2. j - i \in Nat /\ (j - i) * Step >= 0
    BY <1>1, <1>4, <2>1
  <2>3. (j - i) * Step = StartOf(j) - StartOf(i)
    BY <1>1 DEF StartOf
  <2> QED
    BY <2>2, <2>3, <1>2
<1>5. ASSUME NEW i \in Nat \ {0}
      PROVE  StartOf(i) \in Nat /\ StartOf(i) >= i - 1
  <2>1. \A a, b \in Nat : b # 0 => a * b >= a
    OBVIOUS
  <2>2. i - 1 \in Nat /\ (i - 1) * Step >= i - 1
    BY <1>1, <2>1
  <2> QED
    BY <2>2, <1>2 DEF StartOf
<1> QED
  BY <1>1, <1>2, <1>3, <1>4, <1>5

(* The windows, one by one.                                                *)
LEMMA Windows ==
    ASSUME NEW n \in Nat
    PROVE  /\ \A i : i \in DOMAIN chunk_text(n)
                      <=> i \in 1..n /\ (i = 1 \/ StartOf(i - 1) + ChunkSize < n)
           /\ \A i \in DOMAIN chunk_text(n) :
                 /\ chunk_text(n)[i][1] = StartOf(i) + 1
                 /\ chunk_text(n)[i][2] = Min({StartOf(i) + ChunkSize, n})
<1> DEFINE D == {i \in 1..n : i = 1 \/ (i - 2) * Step + ChunkSize < n}
           w(i) == <<(i - 1) * Step + 1, Min({(i - 1) * Step + ChunkSize, n})>>
<1>1. chunk_text(n) = [i \in D |-> w(i)]
  BY DEF chunk_text, Step
<1>2. D = {i \in 1..n : i = 1 \/ StartOf(i - 1) + ChunkSize < n}
  <2>1. \A i \in 1..n : (i - 1) - 1 = i - 2
    OBVIOUS
  <2> QED
    BY <2>1 DEF StartOf
<1>3. \A i \in D : w(i)[1] = StartOf(i) + 1 /\ w(i)[2] = Min({StartOf(i) + ChunkSize, n})
  BY DEF StartOf
<1> HIDE DEF D, w
<1> QED
  BY <1>1, <1>2, <1>3

(* The windows of chunk_text cover the text, without a gap, for every      *)
(* length, window size and overlap.                                        *)
THEOREM WindowsCover ==
    ASSUME NEW n \in Nat
    PROVE  UNION {chunk_text(n)[i][1]..chunk_text(n)[i][2] : i \in DOMAIN chunk_text(n)} = 1..n
<1> DEFINE C == chunk_text(n)
<1>1. ASSUME NEW i \in DOMAIN C, NEW x \in C[i][1]..C[i][2]
      PROVE  x \in 1..n
  <2>1. i \in 1..n /\ C[i][1] = StartOf(i) + 1 /\ C[i][2] = Min({StartOf(i) + ChunkSize, n})
    BY Windows
  <2>2. StartOf(i) \in Nat /\ ChunkSize \in Nat
    BY <2>1, Starts
  <2> HIDE DEF C
  <2> DEFINE e == StartOf(i) + ChunkSize
  <2>4. e \in Int /\ n \in Int /\ C[i][2] = Min({e, n})
    BY <2>1, <2>2
  <2> HIDE DEF e
  <2>3. C[i][2] \in Int /\ C[i][2] <= n
    BY <2>4, MinOf
  <2> QED
    BY <2>1, <2>2, <2>3
<1>2. ASSUME NEW x \in 1..n
      PROVE  \E i \in DOMAIN C : x \in C[i][1]..C[i][2]
  <2> DEFINE S == {k \in Nat \ {0} : x <= StartOf(k) + ChunkSize}
  <2>1. x \in S
    <3>1. x \in Nat \ {0} /\ StartOf(x) \in Nat /\ StartOf(x) >= x - 1 /\ ChunkSize \in Nat \ {0}
      <4>1. x \in Nat \ {0}
        OBVIOUS
      <4> QED
        BY <4>1, Starts, ChunkWindow
    <3> QED
      BY <3>1
  <2>2. PICK k \in S : \A j \in S : k <= j
    <3>1. S \in SUBSET Nat /\ S # {}
      BY <2>1
    <3> HIDE DEF S
    <3> QED
      BY <3>1, Least
  <2>3. k \in Nat \ {0} /\ x <= StartOf(k) + ChunkSize /\ k <= x
    BY <2>1, <2>2
  <2>4. k = 1 \/ StartOf(k - 1) + ChunkSize < x
    <3>1. CASE k # 1
      <4>1. k - 1 \in Nat \ {0} /\ ~(k <= k - 1)
        BY <2>3, <3>1
      <4>2. ~(x <= StartOf(k - 1) + ChunkSize)
        BY <4>1, <2>2
      <4> QED
        BY <4>1, <4>2, Starts
    <3> QED
      BY <3>1
  <2> HIDE DEF S
  <2>5. StartOf(k) < x
    <3>1. CASE k = 1
      BY <3>1, Starts
    <3>2. CASE k # 1
      <4>1. k - 1 \in Nat /\ (k - 1) + 1 = k
        BY <2>3, <3>2
      <4>2. StartOf(k) = StartOf(k - 1) + Step /\ StartOf(k - 1) \in Int
        BY <4>1, Starts
      <4> QED
        BY <4>2, <3>2, <2>4, Starts
    <3> QED
      BY <3>1, <3>2
  <2>6. k \in DOMAIN C
    <3>1. k \in 1..n /\ (k # 1 => k - 1 \in Nat \ {0})
      BY <2>3
    <3>2. k # 1 => StartOf(k - 1) + ChunkSize < n
      BY <2>4, <3>1, Starts
    <3> QED
      BY <3>1, <3>2, Windows
  <2>7. C[k][1] = StartOf(k) + 1 /\ C[k][2] = Min({StartOf(k) + ChunkSize, n})
    BY <2>6, Windows
  <2>8. StartOf(k) \in Nat /\ ChunkSize \in Nat
    BY <2>3, Starts
  <2>9. C[k][2] \in Int /\ x <= C[k][2]
    BY <2>3, <2>7, <2>8, MinOf
  <2> HIDE DEF C
  <2> QED
    BY <2>5, <2>6, <2>7, <2>8, <2>9
<1> HIDE DEF C
<1>3. UNION {C[i][1]..C[i][2] : i \in DOMAIN C} = 1..n
  BY <1>1, <1>2
<1> QED
  BY <1>3 DEF C

(* The windows are numbered without a gap.                                 *)
LEMMA WindowsCount ==
    ASSUME NEW n \in Nat, NEW i \in DOMAIN chunk_text(n)
    PROVE  /\ i \in Nat \ {0} /\ 1 \in DOMAIN chunk_text(n)
           /\ i + 1 \notin DOMAIN chunk_text(n) => \A j \in DOMAIN chunk_text(n) : j <= i
<1>1. i \in 1..n /\ 1 \in DOMAIN chunk_text(n)
  BY Windows
<1>2. ASSUME NEW j \in DOMAIN chunk_text(n), i < j
      PROVE  i + 1 \in DOMAIN chunk_text(n)
  <2>1. j \in 1..n /\ j # 1 /\ StartOf(j - 1) + ChunkSize < n
    BY <1>1, <1>2, Windows
  <2>2. i + 1 \in 1..n /\ i \in Nat /\ j - 1 \in Nat /\ i <= j - 1 /\ (i + 1) - 1 = i
    BY <1>1, <1>2, <2>1
  <2>3. StartOf(i) <= StartOf(j - 1) /\ StartOf(i) \in Int /\ StartOf(j - 1) \in Int /\ ChunkSize \in Nat
    BY <2>2, Starts
  <2>4. StartOf(i) + ChunkSize < n
    BY <2>1, <2>3
  <2> QED
    BY <2>2, <2>4, Windows
<1>3. \A j \in DOMAIN chunk_text(n) : j \in Int
  BY Windows
<1> QED
  BY <1>1, <1>2, <1>3

-----------------------------------------------------------------------------
(* What ids are made of.                                                   *)
Segment == STRING \cup {"entity"}

(* A sequence is a prefix when it agrees as far as it goes.                *)
LEMMA PrefixPointwise ==
    ASSUME NEW S, NEW s \in Seq(S), NEW t \in Seq(S)
    PROVE  IsPrefix(s, t) <=> Len(s) <= Len(t) /\ \A i \in 1..Len(s) : s[i] = t[i]
<1>1. Len(s) \in Nat /\ Len(t) \in Nat
  OBVIOUS
<1>2. CASE Len(s) <= Len(t)
  <2> DEFINE a == SubSeq(s, 1, Len(s))
             b == SubSeq(t, 1, Len(s))
  <2>1. a \in Seq(S) /\ Len(a) = Len(s) /\ \A i \in 1..Len(s) : a[i] = s[i]
    <3>1. \A i \in 1..Len(s) : s[i] \in S
      BY <1>1
    <3>2. 1 \in Int /\ Len(s) \in Int /\ Len(s) - 1 + 1 = Len(s)
      BY <1>1
    <3> QED
      BY <1>1, <3>1, <3>2, SubSeqProperties
  <2>2. b \in Seq(S) /\ Len(b) = Len(s) /\ \A i \in 1..Len(s) : b[i] = t[i]
    <3>1. \A i \in 1..Len(s) : t[i] \in S
      BY <1>1, <1>2
    <3>2. 1 \in Int /\ Len(s) \in Int /\ Len(s) - 1 + 1 = Len(s)
      BY <1>1
    <3> QED
      BY <1>1, <3>1, <3>2, SubSeqProperties
  <2> HIDE DEF a, b
  <2>3. a = b <=> \A i \in 1..Len(s) : s[i] = t[i]
    <3>1. ASSUME \A i \in 1..Len(s) : s[i] = t[i] PROVE a = b
      <4>1. \A i \in 1..Len(a) : a[i] = b[i]
        BY <2>1, <2>2, <3>1
      <4> QED
        BY <2>1, <2>2, <4>1, SeqEqual
    <3>2. ASSUME a = b PROVE \A i \in 1..Len(s) : s[i] = t[i]
      BY <2>1, <2>2, <3>2
    <3> QED
      BY <3>1, <3>2
  <2> QED
    BY <1>2, <2>3 DEF IsPrefix, a, b
<1>3. CASE ~(Len(s) <= Len(t))
  BY <1>3 DEF IsPrefix
<1> QED
  BY <1>2, <1>3

(* The prefix of a source: its segments and one more.                      *)
LEMMA PrefixOf ==
    ASSUME NEW src \in Seq(Segment)
    PROVE  LET p == extraction_entity_prefix(src) IN
           /\ p \in Seq(Segment) /\ Len(p) = Len(src) + 1
           /\ \A i \in 1..Len(src) : p[i] = src[i]
<1>1. <<"entity">> \in Seq(Segment) /\ Len(<<"entity">>) = 1
  BY DEF Segment
<1>2. Len(src) \in Nat
  OBVIOUS
<1>3. PICK one \in Seq(Segment) : one = <<"entity">>
  BY <1>1
<1>4. /\ src \o one \in Seq(Segment) /\ Len(src \o one) = Len(src) + 1
      /\ \A i \in 1..(Len(src) + 1) : (src \o one)[i] = IF i <= Len(src) THEN src[i] ELSE one[i - Len(src)]
  BY <1>1, <1>3, ConcatProperties
<1>5. \A i \in 1..Len(src) : (src \o one)[i] = src[i]
  BY <1>2, <1>4
<1> QED
  BY <1>3, <1>4, <1>5 DEF extraction_entity_prefix

(* Two sources whose prefixes begin the same id are one, unless the prefix *)
(* of one begins the other.                                                *)
LEMMA PrefixesMeet ==
    ASSUME NEW s \in Seq(Segment), NEW t \in Seq(Segment), NEW x \in Seq(Segment),
           IsPrefix(extraction_entity_prefix(s), x), IsPrefix(extraction_entity_prefix(t), x),
           ~IsPrefix(extraction_entity_prefix(s), t), ~IsPrefix(extraction_entity_prefix(t), s)
    PROVE  s = t
<1> DEFINE p == extraction_entity_prefix(s)
           q == extraction_entity_prefix(t)
<1>1. /\ p \in Seq(Segment) /\ Len(p) = Len(s) + 1 /\ \A i \in 1..Len(s) : p[i] = s[i]
      /\ q \in Seq(Segment) /\ Len(q) = Len(t) + 1 /\ \A i \in 1..Len(t) : q[i] = t[i]
  BY PrefixOf
<1>2. ~IsPrefix(p, t) /\ ~IsPrefix(q, s) /\ IsPrefix(p, x) /\ IsPrefix(q, x)
  OBVIOUS
<1> HIDE DEF p, q
<1>3. Len(s) \in Nat /\ Len(t) \in Nat
  OBVIOUS
<1>4. /\ Len(p) <= Len(x) /\ \A i \in 1..Len(p) : p[i] = x[i]
      /\ Len(q) <= Len(x) /\ \A i \in 1..Len(q) : q[i] = x[i]
  BY <1>1, <1>2, PrefixPointwise
<1>5. CASE Len(s) < Len(t)
  <2>2. Len(p) <= Len(t) /\ Len(p) \in Nat /\ Len(q) \in Nat /\ Len(t) <= Len(q)
    BY <1>1, <1>3, <1>5
  <2>3. ASSUME NEW i \in 1..Len(p) PROVE p[i] = t[i]
    <3>1. i \in 1..Len(q) /\ i \in 1..Len(t)
      BY <1>3, <2>2
    <3> QED
      BY <1>1, <1>4, <3>1
  <2>1. Len(p) <= Len(t) /\ \A i \in 1..Len(p) : p[i] = t[i]
    BY <2>2, <2>3
  <2> QED
    BY <1>1, <1>2, <2>1, PrefixPointwise
<1>6. CASE Len(t) < Len(s)
  <2>2. Len(q) <= Len(s) /\ Len(q) \in Nat /\ Len(p) \in Nat /\ Len(s) <= Len(p)
    BY <1>1, <1>3, <1>6
  <2>3. ASSUME NEW i \in 1..Len(q) PROVE q[i] = s[i]
    <3>1. i \in 1..Len(p) /\ i \in 1..Len(s)
      BY <1>3, <2>2
    <3> QED
      BY <1>1, <1>4, <3>1
  <2>1. Len(q) <= Len(s) /\ \A i \in 1..Len(q) : q[i] = s[i]
    BY <2>2, <2>3
  <2> QED
    BY <1>1, <1>2, <2>1, PrefixPointwise
<1>7. CASE Len(s) = Len(t)
  <2>1. \A i \in 1..Len(s) : s[i] = t[i]
    BY <1>1, <1>3, <1>4, <1>7
  <2> QED
    BY <1>7, <2>1, SeqEqual
<1> QED
  BY <1>3, <1>5, <1>6, <1>7

(* An id with one segment after a source lies under a prefix only if the   *)
(* source does.                                                            *)
LEMMA PrefixOfChunk ==
    ASSUME NEW s \in Seq(Segment), NEW t \in Seq(Segment), NEW c \in Segment,
           IsStrictPrefix(extraction_entity_prefix(s), t \o <<c>>)
    PROVE  IsPrefix(extraction_entity_prefix(s), t)
<1> DEFINE p == extraction_entity_prefix(s)
           one == <<c>>
           x == t \o one
<1>1. p \in Seq(Segment) /\ Len(p) \in Nat
  BY PrefixOf
<1>2. one \in Seq(Segment) /\ Len(one) = 1 /\ Len(t) \in Nat
  OBVIOUS
<1>3. IsPrefix(p, x) /\ p # x
  BY DEF IsStrictPrefix
<1> HIDE DEF p, one
<1>4. /\ x \in Seq(Segment) /\ Len(x) = Len(t) + 1
      /\ \A i \in 1..(Len(t) + 1) : x[i] = IF i <= Len(t) THEN t[i] ELSE one[i - Len(t)]
  BY <1>2, ConcatProperties
<1>5. \A i \in 1..Len(t) : x[i] = t[i]
  BY <1>2, <1>4
<1> HIDE DEF x
<1>6. Len(p) <= Len(x) /\ \A i \in 1..Len(p) : p[i] = x[i]
  BY <1>1, <1>3, <1>4, PrefixPointwise
<1>7. Len(p) # Len(x)
  BY <1>1, <1>3, <1>4, <1>6, SeqEqual
<1>8. Len(p) <= Len(t) /\ \A i \in 1..Len(p) : p[i] = t[i]
  BY <1>1, <1>2, <1>4, <1>5, <1>6, <1>7
<1>9. IsPrefix(p, t)
  BY <1>1, <1>8, PrefixPointwise
<1> QED
  BY <1>9 DEF p

(* A key appended to a prefix.                                             *)
LEMMA PrefixOfKey ==
    ASSUME NEW s \in Seq(Segment), NEW k \in Seq(Segment), k # <<>>
    PROVE  LET p == extraction_entity_prefix(s) IN p \o k \in Seq(Segment) /\ IsStrictPrefix(p, p \o k)
<1> DEFINE p == extraction_entity_prefix(s)
           x == p \o k
<1>1. p \in Seq(Segment) /\ Len(p) \in Nat
  BY PrefixOf
<1>2. Len(k) \in Nat \ {0}
  OBVIOUS
<1> HIDE DEF p
<1>3. /\ x \in Seq(Segment) /\ Len(x) = Len(p) + Len(k)
      /\ \A i \in 1..(Len(p) + Len(k)) : x[i] = IF i <= Len(p) THEN p[i] ELSE k[i - Len(p)]
  BY <1>1, ConcatProperties
<1>4. \A i \in 1..Len(p) : p[i] = x[i]
  BY <1>1, <1>2, <1>3
<1> HIDE DEF x
<1>5. Len(p) <= Len(x) /\ Len(p) # Len(x)
  BY <1>1, <1>2, <1>3
<1>6. IsPrefix(p, x) /\ p # x
  BY <1>1, <1>3, <1>4, <1>5, PrefixPointwise
<1> QED
  BY <1>3, <1>6 DEF p, x, IsStrictPrefix
-----------------------------------------------------------------------------
(* The ids of a document.                                                  *)
LEMMA DocIds ==
    ASSUME NEW d \in Docs
    PROVE  /\ Source[d] \in Seq(Segment)
           /\ \A i \in DOMAIN Chunks[d] : Digits[i] \in Segment /\ ChunkId(d, i) = Source[d] \o <<Digits[i]>>
           /\ \A x \in Ids(d) : x \in Seq(Segment) /\ OfSource(x, Source[d])
<1>1. STRING \subseteq Segment
  BY DEF Segment
<1>2. Source[d] \in Seq(Segment)
  BY <1>1, IdSegments, SeqMonotonic
<1>3. \A i \in DOMAIN Chunks[d] : Digits[i] \in Segment
  BY <1>1, IdSegments
<1>4. ASSUME NEW x \in Ids(d) PROVE x \in Seq(Segment) /\ OfSource(x, Source[d])
  <2>1. PICK i \in DOMAIN DocOf[d].names : x = EntityId(d, DocOf[d].names[i])
    BY DEF Ids, Extracted, Kept
  <2>2. DocOf[d].names \in Seq(DOMAIN KeyOf)
    BY IdSegments
  <2>3. DocOf[d].names[i] \in DOMAIN KeyOf
    BY <2>1, <2>2
  <2>4. PICK k : k = KeyOf[DocOf[d].names[i]]
    OBVIOUS
  <2>5. k \in Seq(STRING) /\ k # <<>>
    BY <2>3, <2>4, NameKeys
  <2>6. k \in Seq(Segment)
    BY <1>1, <2>5, SeqMonotonic
  <2>7. x = extraction_entity_prefix(Source[d]) \o k
    BY <2>1, <2>4 DEF EntityId
  <2> QED
    BY <1>2, <2>5, <2>6, <2>7, PrefixOfKey DEF OfSource
<1> QED
  BY <1>2, <1>3, <1>4 DEF ChunkId

(* What Lone rules out, for the sources of two documents.                  *)
Disjoint(d, k) ==
    /\ ~IsPrefix(extraction_entity_prefix(Source[d]), Source[k])
    /\ ~IsPrefix(extraction_entity_prefix(Source[k]), Source[d])

(* Where sources are disjoint, an extracted entity is of one of them only, *)
LEMMA EntityApart ==
    ASSUME NEW d \in Docs, NEW k \in Docs, Disjoint(d, k), NEW x \in Ids(d), OfSource(x, Source[k])
    PROVE  Source[k] = Source[d]
<1>1. Source[d] \in Seq(Segment) /\ Source[k] \in Seq(Segment) /\ x \in Seq(Segment) /\ OfSource(x, Source[d])
  BY DocIds
<1>2. IsPrefix(extraction_entity_prefix(Source[d]), x) /\ IsPrefix(extraction_entity_prefix(Source[k]), x)
  BY <1>1 DEF OfSource, IsStrictPrefix
<1> QED
  BY <1>1, <1>2, PrefixesMeet DEF Disjoint

(* and a chunk of neither.                                                 *)
LEMMA ChunkApart ==
    ASSUME NEW d \in Docs, NEW k \in Docs, Disjoint(d, k), NEW i \in DOMAIN Chunks[d]
    PROVE  ~OfSource(ChunkId(d, i), Source[k])
<1>1. /\ Source[d] \in Seq(Segment) /\ Source[k] \in Seq(Segment)
      /\ Digits[i] \in Segment /\ ChunkId(d, i) = Source[d] \o <<Digits[i]>>
  BY DocIds
<1>2. OfSource(ChunkId(d, i), Source[k]) => IsPrefix(extraction_entity_prefix(Source[k]), Source[d])
  BY <1>1, PrefixOfChunk DEF OfSource
<1> QED
  BY <1>2 DEF Disjoint

(* An edge that is collected is between entities of its document, or from  *)
(* its first chunk to one.                                                 *)
LEMMA Collected ==
    ASSUME NEW d \in Docs, NEW e \in EdgesOf(d)
    PROVE  e.dst \in Ids(d) /\ e.src \in Ids(d) \cup {ChunkId(d, 1)}
<1> DEFINE edges == DocOf[d].edges
           names == DocOf[d].names
           offered(p) ==
               IF p <= Len(edges)
               THEN [src |-> EntityId(d, edges[p][1]), dst |-> EntityId(d, edges[p][2]), type |-> "related"]
               ELSE [src |-> ChunkId(d, 1), dst |-> EntityId(d, names[p - Len(edges)]), type |-> "mentions"]
           resolved == {p \in 1..(Len(edges) + Len(names)) :
                           offered(p).dst \in Ids(d) /\ offered(p).src \in Ids(d) \cup {ChunkId(d, 1)}}
           seen(p) == {offered(q) : q \in {q \in resolved : q < p}}
           taken == {p \in resolved : offered(p) \notin seen(p) /\ Cardinality(seen(p)) < MaxRelations}
<1>1. _collect_relations[d] = [p \in taken |-> offered(p)]
  BY DEF _collect_relations
<1>2. taken \subseteq resolved
  OBVIOUS
<1> HIDE DEF taken
<1>3. PICK p \in taken : e = offered(p)
  BY <1>1 DEF EdgesOf
<1> QED
  BY <1>2, <1>3

(* So it is one its own source's re-ingestion disposes of,                 *)
LEMMA EdgeOwn == ASSUME NEW d \in Docs, NEW e \in EdgesOf(d) PROVE Touches(e, Source[d])
  BY Collected, DocIds DEF Touches

(* and that of a disjoint source does not.                                 *)
LEMMA EdgeApart ==
    ASSUME NEW d \in Docs, NEW k \in Docs, Disjoint(d, k), Source[k] # Source[d], 1 \in DOMAIN Chunks[d],
           NEW e \in EdgesOf(d)
    PROVE  ~Touches(e, Source[k])
  BY Collected, EntityApart, ChunkApart DEF Touches

(* The positions of the INSERTs: entities, then edges.                     *)
LEMMA InsertKeys ==
    ASSUME NEW d \in Docs
    PROVE  /\ \A p \in DOMAIN Inserts[d] :
                 \/ \E x : Inserts[d][p] = EntityKey(x)
                 \/ \E e \in EdgesOf(d) : Inserts[d][p] = EdgeKey(e)
           /\ \A e \in EdgesOf(d) : \E p \in DOMAIN Inserts[d] : Inserts[d][p] = EdgeKey(e)
<1> DEFINE n == Len(DocOf[d].names)
           rels == _collect_relations[d]
           places == Kept[d] \cup {n + q : q \in DOMAIN rels}
           key(p) == IF p <= n THEN EntityKey(EntityId(d, DocOf[d].names[p])) ELSE EdgeKey(rels[p - n])
<1>1. Inserts[d] = [p \in places |-> key(p)]
  BY DEF Inserts
<1>2. DocOf[d].names \in Seq(DOMAIN KeyOf) /\ DocOf[d].edges \in Seq((DOMAIN KeyOf) \X (DOMAIN KeyOf))
  BY IdSegments
<1>3. n \in Nat /\ Len(DocOf[d].edges) \in Nat
  BY <1>2
<1>4. \A q \in DOMAIN rels : q \in Nat \ {0}
  BY <1>3 DEF _collect_relations
<1>5. \A p \in Kept[d] : p \in Nat /\ p <= n
  BY <1>2 DEF Kept
<1> HIDE DEF n, rels
<1>6. ASSUME NEW q \in DOMAIN rels
      PROVE  n + q \in places /\ key(n + q) = EdgeKey(rels[q])
  <2>1. q \in Nat \ {0} /\ ~(n + q <= n) /\ (n + q) - n = q
    BY <1>3, <1>4
  <2> QED
    BY <2>1
<1>7. \A p \in Kept[d] : key(p) = EntityKey(EntityId(d, DocOf[d].names[p]))
  BY <1>5
<1> HIDE DEF key
<1>8. \A q \in DOMAIN rels : rels[q] \in EdgesOf(d)
  BY DEF EdgesOf, rels
<1>9. \A e \in EdgesOf(d) : \E q \in DOMAIN rels : e = rels[q]
  BY DEF EdgesOf, rels
<1>10. \A p \in places : (\E x : key(p) = EntityKey(x)) \/ (\E e \in EdgesOf(d) : key(p) = EdgeKey(e))
  BY <1>6, <1>7, <1>8
<1>11. \A e \in EdgesOf(d) : \E p \in places : key(p) = EdgeKey(e)
  BY <1>6, <1>9
<1> QED
  BY <1>1, <1>10, <1>11

(* The two tables' keys are told apart.                                    *)
LEMMA KeysApart ==
    ASSUME NEW x, NEW y
    PROVE  /\ EntityKey(x) # EdgeKey(y)
           /\ EntityKey(x) = EntityKey(y) => x = y
           /\ EdgeKey(x) = EdgeKey(y) => x = y
  BY DEF EntityKey, EdgeKey
-----------------------------------------------------------------------------
(* A chunk of d has its row among E, or lies under the prefix of a source  *)
(* of S.                                                                   *)
Covered(d, i, E, S) == ChunkId(d, i) \in E \/ \E src \in S : OfSource(ChunkId(d, i), src)

(* d has a chunk, and all of them are.                                     *)
AllCovered(d, E, S) == 1 \in DOMAIN Chunks[d] /\ \A i \in DOMAIN Chunks[d] : Covered(d, i, E, S)

(* The chunks are stored one after the other.                              *)
Progress(d, j, E, S) ==
    /\ j.pc = "chunks" => \A i \in DOMAIN Chunks[d] : i < j.next => Covered(d, i, E, S)
    /\ j.pc \in JobPcs \ {"new", "denied", "chunks", "failed"} => AllCovered(d, E, S)

(* A DELETE finds rows under the prefix of its source only.                *)
Claims(d, j) ==
    \A key \in j.found \cup j.gone :
        \/ \E x : key = EntityKey(x) /\ OfSource(x, Source[d])
        \/ \E e : key = EdgeKey(e) /\ Touches(e, Source[d])

(* A transaction that is alone on its source finds all of them, and all of *)
(* its INSERTs insert.                                                     *)
Thorough(d, j, E, R) ==
    /\ j.pc \in {"delete_entities", "insert"} =>
          \A e \in R : Touches(e, Source[d]) =>
              EdgeKey(e) \in j.gone \/ (j.pc = "delete_entities" /\ EdgeKey(e) \in j.found)
    /\ j.pc = "insert" =>
          /\ \A x \in E : OfSource(x, Source[d]) => EntityKey(x) \in j.found \cup j.gone
          /\ \A p \in DOMAIN Inserts[d] : p \in j.left \/ Inserts[d][p] \in j.put

(* All of that, of one call.                                               *)
CallOk(d, j, E, R, S, O) ==
    /\ Progress(d, j, E, S)
    /\ Claims(d, j)
    /\ Lone(Source[d]) /\ Source[d] \notin O => Thorough(d, j, E, R)

(* and of every call.                                                      *)
CallsOk == \A d \in Docs : CallOk(d, job[d], DOMAIN entities, relations, DOMAIN latest, overlapped)

(* Transactions of one source that are open together have overlapped.      *)
Apart ==
    \A d, k \in Docs : InTransaction(d) /\ InTransaction(k) /\ Source[d] = Source[k] /\ d # k
        => Source[d] \in overlapped

(* What was committed last of a source is an extraction of it.             *)
Latest ==
    \A src \in DOMAIN latest :
        /\ latest[src] \in Docs /\ Source[latest[src]] = src
        /\ job[latest[src]].pc \in {"audit", "done", "failed"}
        /\ AllCovered(latest[src], DOMAIN entities, DOMAIN latest)

(* The text under which d stores an entity.                                *)
TextOf(d, id) == NameText(CHOOSE name \in Extracted[d] : EntityId(d, name) = id)

(* All of its entities are stored.                                         *)
Whole ==
    \A src \in DOMAIN latest : Lone(src) =>
        \A x \in Ids(latest[src]) :
            /\ x \in DOMAIN entities
            /\ entities[x].doc = latest[src] /\ entities[x].text = TextOf(latest[src], x)

(* It is all that E and R hold of the source.                              *)
Holds(d, E, R) ==
    /\ \A x \in E : OfSource(x, Source[d]) => x \in Ids(d)
    /\ EdgesOf(d) \subseteq R
    /\ \A e \in R : Touches(e, Source[d]) => e \in EdgesOf(d)

(* unless extractions of the source overlapped.                            *)
Exact ==
    \A src \in DOMAIN latest \ overlapped : Lone(src) => Holds(latest[src], DOMAIN entities, relations)

(* What is inductive, given KInv.                                          *)
AckInv == CallsOk /\ Apart /\ Latest /\ Whole /\ Exact
-----------------------------------------------------------------------------
(* Lone, from both sides.                                                  *)
LEMMA LoneApart ==
    ASSUME NEW d \in Docs, NEW k \in Docs, Lone(Source[d])
    PROVE  Disjoint(d, k) /\ Disjoint(k, d)
  BY DEF Lone, Disjoint

(* More rows, sources and overlaps leave what was covered covered.         *)
LEMMA CoveredGrows ==
    ASSUME NEW d, NEW E, NEW F, NEW S, NEW T,
           S \subseteq T,
           \A i \in DOMAIN Chunks[d] : ChunkId(d, i) \in E =>
               ChunkId(d, i) \in F \/ \E src \in T : OfSource(ChunkId(d, i), src)
    PROVE  /\ \A i \in DOMAIN Chunks[d] : Covered(d, i, E, S) => Covered(d, i, F, T)
           /\ AllCovered(d, E, S) => AllCovered(d, F, T)
           /\ \A j : Progress(d, j, E, S) => Progress(d, j, F, T)
<1>1. \A i \in DOMAIN Chunks[d] : Covered(d, i, E, S) => Covered(d, i, F, T)
  BY DEF Covered
<1>2. AllCovered(d, E, S) => AllCovered(d, F, T)
  BY <1>1 DEF AllCovered
<1> QED
  BY <1>1, <1>2 DEF Progress

(* A step of one call that writes nothing keeps the invariant if the call  *)
(* is as it should be and opens no transaction unnoticed.                  *)
LEMMA AckMove ==
    ASSUME AckInv, NEW d \in Docs, NEW j, Becomes(d, j),
           UNCHANGED <<entities, relations, latest>>, overlapped \subseteq overlapped',
           CallOk(d, j, DOMAIN entities, relations, DOMAIN latest, overlapped'),
           job[d].pc \in {"audit", "done", "failed"} => j.pc \in {"audit", "done", "failed"},
           j.pc \in {"delete_entities", "insert"} =>
               \/ InTransaction(d)
               \/ \A k \in Docs \ {d} : InTransaction(k) /\ Source[k] = Source[d] => Source[d] \in overlapped'
    PROVE  AckInv'
<1>1. CallsOk'
  <2> SUFFICES ASSUME NEW k \in Docs
               PROVE  CallOk(k, job'[k], DOMAIN entities, relations, DOMAIN latest, overlapped')
    BY DEF CallsOk
  <2>1. CASE k = d
    BY <2>1 DEF Becomes
  <2>2. CASE k # d
    <3>1. job'[k] = job[k]
      BY <2>2 DEF Becomes
    <3>2. CallOk(k, job[k], DOMAIN entities, relations, DOMAIN latest, overlapped)
      BY DEF AckInv, CallsOk
    <3> QED
      BY <3>1, <3>2 DEF CallOk
  <2> QED
    BY <2>1, <2>2
<1>2. Apart'
  <2> SUFFICES ASSUME NEW a \in Docs, NEW b \in Docs, a # b, Source[a] = Source[b],
                      job'[a].pc \in {"delete_entities", "insert"}, job'[b].pc \in {"delete_entities", "insert"}
               PROVE  Source[a] \in overlapped'
    BY DEF Apart, InTransaction
  <2>1. CASE a # d /\ b # d
    BY <2>1 DEF Becomes, AckInv, Apart, InTransaction
  <2>2. ASSUME NEW k \in Docs \ {d}, Source[k] = Source[d], job'[k].pc \in {"delete_entities", "insert"},
               job'[d].pc \in {"delete_entities", "insert"}
        PROVE  Source[d] \in overlapped'
    <3>1. InTransaction(k) /\ j.pc \in {"delete_entities", "insert"}
      BY <2>2 DEF Becomes, InTransaction
    <3> QED
      BY <2>2, <3>1 DEF AckInv, Apart
  <2> QED
    BY <2>1, <2>2
<1>3. Latest'
  <2> SUFFICES ASSUME NEW src \in DOMAIN latest
               PROVE  /\ latest[src] \in Docs /\ Source[latest[src]] = src
                      /\ job'[latest[src]].pc \in {"audit", "done", "failed"}
                      /\ AllCovered(latest[src], DOMAIN entities, DOMAIN latest)
    BY DEF Latest
  <2> QED
    BY DEF AckInv, Latest, Becomes
<1>4. Whole' /\ Exact'
  BY DEF AckInv, Whole, Exact
<1> QED
  BY <1>1, <1>2, <1>3, <1>4 DEF AckInv

(* A step that touches neither the calls nor the rows.                     *)
LEMMA AckIdle ==
    ASSUME AckInv, UNCHANGED <<entities, relations, job, overlapped, latest>>
    PROVE  AckInv'
<1>1. CallsOk'
  BY DEF AckInv, CallsOk
<1>2. Apart'
  BY DEF AckInv, Apart, InTransaction
<1>3. Latest'
  BY DEF AckInv, Latest
<1>4. Whole' /\ Exact'
  BY DEF AckInv, Whole, Exact
<1> QED
  BY <1>1, <1>2, <1>3, <1>4 DEF AckInv

(* A step that sets vectors only.                                          *)
LEMMA AckVectors ==
    ASSUME AckInv, UNCHANGED <<relations, job, overlapped, latest>>, DOMAIN entities' = DOMAIN entities,
           \A x \in DOMAIN entities : Says(entities'[x], entities[x])
    PROVE  AckInv'
<1>1. CallsOk'
  BY DEF AckInv, CallsOk
<1>2. Apart'
  BY DEF AckInv, Apart, InTransaction
<1>3. Latest'
  BY DEF AckInv, Latest
<1>4. Whole' /\ Exact'
  BY DEF AckInv, Whole, Exact, Says
<1> QED
  BY <1>1, <1>2, <1>3, <1>4 DEF AckInv
-----------------------------------------------------------------------------
(* A call with nothing found or deleted claims nothing.                    *)
LEMMA OutsideOk ==
    ASSUME NEW d, NEW j, NEW E, NEW R, NEW S, NEW O,
           j.found = {}, j.gone = {}, j.pc \notin {"delete_entities", "insert"}, Progress(d, j, E, S)
    PROVE  CallOk(d, j, E, R, S, O)
  BY DEF CallOk, Claims, Thorough

(* A request begins, or is refused.                                        *)
LEMMA AckSubmit == ASSUME KInv, AckInv, NEW d \in Docs, Submit(d) PROVE AckInv'
<1>1. UNCHANGED <<entities, relations, latest, overlapped>>
  BY DEF Submit, past
<1>2. PICK j : /\ Becomes(d, j) /\ job[d].pc = "new"
               /\ \/ j = Call("denied", job[d].next, job[d].acl, {}, {}, {}, {})
                  \/ \E acl : j = Call("chunks", 1, acl, {}, {}, {}, {})
  BY SubmitJob DEF KInv
<1>3. j.pc \in {"denied", "chunks"} /\ j.found = {} /\ j.gone = {} /\ (j.pc = "chunks" => j.next = 1)
  BY <1>2, CallFields
<1>4. ASSUME NEW i \in DOMAIN Chunks[d], i < 1 PROVE FALSE
  <2>1. DocOf[d].len \in Nat /\ i \in DOMAIN chunk_text(DocOf[d].len)
    BY DocLengths DEF Chunks
  <2> QED
    BY <1>4, <2>1, WindowsCount
<1>5. Progress(d, j, DOMAIN entities, DOMAIN latest)
  BY <1>3, <1>4 DEF Progress
<1>6. CallOk(d, j, DOMAIN entities, relations, DOMAIN latest, overlapped')
  BY <1>3, <1>5, OutsideOk
<1> QED
  BY <1>1, <1>2, <1>3, <1>6, AckMove

(* The extraction and the answer.                                          *)
LEMMA AckGoto == ASSUME KInv, AckInv, NEW d \in Docs, Extract(d) \/ Audit(d) PROVE AckInv'
<1>1. UNCHANGED <<entities, relations, latest, overlapped>>
  BY DEF Extract, Audit, Event, used, past
<1>2. PICK pc \in {"delete_relations", "audit", "done", "failed"} :
         /\ \/ job[d].pc = "extract" /\ pc \in {"delete_relations", "audit"}
            \/ job[d].pc = "audit" /\ pc \in {"done", "failed"}
         /\ Becomes(d, Call(pc, job[d].next, job[d].acl, {}, {}, {}, {}))
  BY GotoJob DEF KInv
<1>3. PICK j : j = Call(pc, job[d].next, job[d].acl, {}, {}, {}, {})
  OBVIOUS
<1>4. Becomes(d, j) /\ j.pc = pc /\ j.found = {} /\ j.gone = {}
  BY <1>2, <1>3, CallFields
<1>5. AllCovered(d, DOMAIN entities, DOMAIN latest)
  BY <1>2 DEF AckInv, CallsOk, CallOk, Progress, JobPcs
<1>6. Progress(d, j, DOMAIN entities, DOMAIN latest)
  BY <1>2, <1>4, <1>5 DEF Progress
<1>7. CallOk(d, j, DOMAIN entities, relations, DOMAIN latest, overlapped')
  BY <1>2, <1>4, <1>6, OutsideOk
<1> QED
  BY <1>1, <1>2, <1>4, <1>7, AckMove

(* A transaction goes away without a trace.                                *)
LEMMA AckRollback == ASSUME KInv, AckInv, NEW d \in Docs, Rollback(d) \/ DeadlockDetected(d) PROVE AckInv'
<1>1. UNCHANGED <<entities, relations, latest, overlapped>>
  BY DEF Rollback, DeadlockDetected, Event, used, past
<1>2. InTransaction(d) /\ Becomes(d, Call("audit", job[d].next, job[d].acl, {}, {}, {}, {}))
  BY RollbackJob DEF KInv
<1>3. PICK j : j = Call("audit", job[d].next, job[d].acl, {}, {}, {}, {})
  OBVIOUS
<1>4. Becomes(d, j) /\ j.pc = "audit" /\ j.found = {} /\ j.gone = {}
  BY <1>2, <1>3, CallFields
<1>5. AllCovered(d, DOMAIN entities, DOMAIN latest)
  BY <1>2 DEF AckInv, CallsOk, CallOk, Progress, JobPcs, InTransaction
<1>6. Progress(d, j, DOMAIN entities, DOMAIN latest)
  BY <1>4, <1>5 DEF Progress
<1>7. CallOk(d, j, DOMAIN entities, relations, DOMAIN latest, overlapped')
  BY <1>4, <1>6, OutsideOk
<1> QED
  BY <1>1, <1>4, <1>7, AckMove

(* BEGIN: the first DELETE finds every edge that touches the source, and   *)
(* two transactions of a source are noticed.                               *)
LEMMA AckDeleteRelations == ASSUME KInv, AckInv, NEW d \in Docs, DeleteRelations(d) PROVE AckInv'
<1> DEFINE rows == {EdgeKey(e) : e \in {e \in relations : Touches(e, Source[d])}}
<1>1. UNCHANGED <<entities, relations, latest>> /\ overlapped \subseteq overlapped'
  BY DEF DeleteRelations
<1>2. \A k \in Docs \ {d} : InTransaction(k) /\ Source[k] = Source[d] => Source[d] \in overlapped'
  BY DEF DeleteRelations
<1>3. job[d].pc = "delete_relations"
      /\ Becomes(d, Call("delete_entities", job[d].next, job[d].acl, {}, rows, {}, {}))
  BY DeleteRelationsJob DEF KInv
<1>8. \A e \in relations : Touches(e, Source[d]) => EdgeKey(e) \in rows
  OBVIOUS
<1>9. \A key \in rows : \E e : key = EdgeKey(e) /\ Touches(e, Source[d])
  OBVIOUS
<1> HIDE DEF rows
<1>4. PICK j : j = Call("delete_entities", job[d].next, job[d].acl, {}, rows, {}, {})
  OBVIOUS
<1>5. Becomes(d, j) /\ j.pc = "delete_entities" /\ j.found = rows /\ j.gone = {}
  BY <1>3, <1>4, CallFields
<1>6. AllCovered(d, DOMAIN entities, DOMAIN latest)
  BY <1>3 DEF AckInv, CallsOk, CallOk, Progress, JobPcs
<1>7. CallOk(d, j, DOMAIN entities, relations, DOMAIN latest, overlapped')
  <2>1. Progress(d, j, DOMAIN entities, DOMAIN latest)
    BY <1>5, <1>6 DEF Progress
  <2>2. Claims(d, j)
    BY <1>5, <1>9 DEF Claims
  <2>3. Thorough(d, j, DOMAIN entities, relations)
    BY <1>5, <1>8 DEF Thorough
  <2> QED
    BY <2>1, <2>2, <2>3 DEF CallOk
<1> QED
  BY <1>1, <1>2, <1>3, <1>5, <1>7, AckMove

(* A row that was found is deleted.                                        *)
LEMMA AckLockRow == ASSUME KInv, AckInv, NEW d \in Docs, LockRow(d) PROVE AckInv'
<1>1. UNCHANGED <<entities, relations, latest, overlapped>>
  BY DEF LockRow, used, past
<1>2. PICK key \in job[d].found :
         /\ InTransaction(d)
         /\ Becomes(d, Call(job[d].pc, job[d].next, job[d].acl, job[d].left, job[d].found \ {key},
                            job[d].gone \cup {key}, job[d].put))
  BY LockRowJob DEF KInv
<1>3. PICK j : j = Call(job[d].pc, job[d].next, job[d].acl, job[d].left, job[d].found \ {key},
                        job[d].gone \cup {key}, job[d].put)
  OBVIOUS
<1>4. /\ Becomes(d, j) /\ j.pc = job[d].pc /\ j.next = job[d].next /\ j.left = job[d].left
      /\ j.found = job[d].found \ {key} /\ j.gone = job[d].gone \cup {key} /\ j.put = job[d].put
  BY <1>2, <1>3, CallFields
<1>5. CallOk(d, job[d], DOMAIN entities, relations, DOMAIN latest, overlapped)
  BY DEF AckInv, CallsOk
<1>6. CallOk(d, j, DOMAIN entities, relations, DOMAIN latest, overlapped')
  <2>1. Progress(d, j, DOMAIN entities, DOMAIN latest)
    BY <1>4, <1>5 DEF CallOk, Progress
  <2>2. Claims(d, j)
    BY <1>4, <1>5 DEF CallOk, Claims
  <2>3. ASSUME Lone(Source[d]), Source[d] \notin overlapped'
        PROVE  Thorough(d, j, DOMAIN entities, relations)
    BY <1>1, <1>4, <1>5, <2>3 DEF CallOk, Thorough
  <2> QED
    BY <2>1, <2>2, <2>3 DEF CallOk
<1> QED
  BY <1>1, <1>2, <1>4, <1>6, AckMove DEF InTransaction

(* The second DELETE finds every entity under the prefix of the source.    *)
LEMMA AckDeleteEntities == ASSUME KInv, AckInv, NEW d \in Docs, DeleteEntities(d) PROVE AckInv'
<1> DEFINE rows == {EntityKey(x) : x \in {x \in DOMAIN entities : OfSource(x, Source[d])}}
<1>1. UNCHANGED <<entities, relations, latest, overlapped>>
  BY DEF DeleteEntities, used, past
<1>2. /\ job[d].pc = "delete_entities" /\ job[d].found = {}
      /\ Becomes(d, Call("insert", job[d].next, job[d].acl, DOMAIN Inserts[d], rows, job[d].gone, job[d].put))
  BY DeleteEntitiesJob DEF KInv
<1>8. \A x \in DOMAIN entities : OfSource(x, Source[d]) => EntityKey(x) \in rows
  OBVIOUS
<1>9. \A key \in rows : \E x : key = EntityKey(x) /\ OfSource(x, Source[d])
  OBVIOUS
<1> HIDE DEF rows
<1>3. PICK j : j = Call("insert", job[d].next, job[d].acl, DOMAIN Inserts[d], rows, job[d].gone, job[d].put)
  OBVIOUS
<1>4. /\ Becomes(d, j) /\ j.pc = "insert" /\ j.left = DOMAIN Inserts[d]
      /\ j.found = rows /\ j.gone = job[d].gone
  BY <1>2, <1>3, CallFields
<1>5. CallOk(d, job[d], DOMAIN entities, relations, DOMAIN latest, overlapped)
  BY DEF AckInv, CallsOk
<1>6. CallOk(d, j, DOMAIN entities, relations, DOMAIN latest, overlapped')
  <2>1. Progress(d, j, DOMAIN entities, DOMAIN latest)
    BY <1>2, <1>4, <1>5 DEF CallOk, Progress, JobPcs
  <2>2. Claims(d, j)
    BY <1>4, <1>5, <1>9 DEF CallOk, Claims
  <2>3. ASSUME Lone(Source[d]), Source[d] \notin overlapped'
        PROVE  Thorough(d, j, DOMAIN entities, relations)
    <3>1. Thorough(d, job[d], DOMAIN entities, relations)
      BY <1>1, <1>5, <2>3 DEF CallOk
    <3> QED
      BY <1>2, <1>4, <1>8, <3>1 DEF Thorough
  <2> QED
    BY <2>1, <2>2, <2>3 DEF CallOk
<1> QED
  BY <1>1, <1>2, <1>4, <1>6, AckMove DEF InTransaction

(* An INSERT.  Alone on its source, the transaction has deleted every edge *)
(* it could meet.                                                          *)
LEMMA AckInsert == ASSUME KInv, AckInv, NEW d \in Docs, Insert(d) PROVE AckInv'
<1> DEFINE p == Min(job[d].left)
           key == Inserts[d][p]
           present == key \in {EdgeKey(e) : e \in relations} \ job[d].gone
           put == IF present THEN job[d].put ELSE job[d].put \cup {key}
           left == job[d].left \ {p}
<1>1. UNCHANGED <<entities, relations, latest, overlapped>>
  BY DEF Insert, used, past
<1>2. /\ job[d].pc = "insert" /\ job[d].found = {}
      /\ Becomes(d, Call("insert", job[d].next, job[d].acl, left, {}, job[d].gone, put))
  BY InsertJob DEF KInv
<1>7. \A q : q \in left \/ q = p \/ q \notin job[d].left
  OBVIOUS
<1>8. job[d].put \subseteq put /\ (key \in put \/ \E e \in relations : key = EdgeKey(e) /\ EdgeKey(e) \notin job[d].gone)
  OBVIOUS
<1>0. key = Inserts[d][p]
  OBVIOUS
<1> HIDE DEF left, put, present, key, p
<1>3. PICK j : j = Call("insert", job[d].next, job[d].acl, left, {}, job[d].gone, put)
  OBVIOUS
<1>4. /\ Becomes(d, j) /\ j.pc = "insert" /\ j.left = left /\ j.found = {} /\ j.gone = job[d].gone /\ j.put = put
  BY <1>2, <1>3, CallFields
<1>5. CallOk(d, job[d], DOMAIN entities, relations, DOMAIN latest, overlapped)
  BY DEF AckInv, CallsOk
<1>6. CallOk(d, j, DOMAIN entities, relations, DOMAIN latest, overlapped')
  <2>1. Progress(d, j, DOMAIN entities, DOMAIN latest)
    BY <1>2, <1>4, <1>5 DEF CallOk, Progress, JobPcs
  <2>2. Claims(d, j)
    BY <1>2, <1>4, <1>5 DEF CallOk, Claims
  <2>3. ASSUME Lone(Source[d]), Source[d] \notin overlapped'
        PROVE  Thorough(d, j, DOMAIN entities, relations)
    <3>1. Thorough(d, job[d], DOMAIN entities, relations)
      BY <1>1, <1>5, <2>3 DEF CallOk
    <3>2. ASSUME NEW q \in DOMAIN Inserts[d], q \notin left
          PROVE  Inserts[d][q] \in put
      <4>1. CASE q # p
        BY <1>2, <1>7, <1>8, <3>1, <3>2, <4>1 DEF Thorough
      <4>2. CASE q = p
        <5>1. ASSUME NEW e \in relations, key = EdgeKey(e), EdgeKey(e) \notin job[d].gone
              PROVE  FALSE
          <6>1. e \in EdgesOf(d)
            <7>1. Inserts[d][q] = EdgeKey(e)
              BY <1>0, <4>2, <5>1
            <7>2. \A x : Inserts[d][q] # EntityKey(x)
              BY <7>1, KeysApart
            <7>3. PICK f \in EdgesOf(d) : Inserts[d][q] = EdgeKey(f)
              BY <3>2, <7>2, InsertKeys
            <7> QED
              BY <7>1, <7>3, KeysApart
          <6>2. Touches(e, Source[d])
            BY <6>1, EdgeOwn
          <6> QED
            BY <1>2, <3>1, <5>1, <6>2 DEF Thorough
        <5> QED
          BY <1>0, <1>8, <4>2, <5>1
      <4> QED
        BY <4>1, <4>2
    <3> QED
      BY <1>2, <1>4, <3>1, <3>2 DEF Thorough
  <2> QED
    BY <2>1, <2>2, <2>3 DEF CallOk
<1> QED
  BY <1>1, <1>2, <1>4, <1>6, AckMove DEF InTransaction
-----------------------------------------------------------------------------
(* An upsert of a chunk adds a row under no prefix of a lone source.       *)
LEMMA AckUpsertChunk == ASSUME KInv, AckInv, NEW d \in Docs, UpsertChunk(d) PROVE AckInv'
<1> DEFINE i == job[d].next
           next == i + 1
           id == ChunkId(d, i)
           pc == IF next \in DOMAIN Chunks[d] THEN "chunks" ELSE "extract"
<1>1. UNCHANGED <<relations, latest, overlapped>>
  BY DEF UpsertChunk, EmbedFault, Event, used, past
<1>2. /\ job[d].pc = "chunks" /\ i \in DOMAIN Chunks[d]
      /\ \/ Becomes(d, Call("failed", i, job[d].acl, {}, {}, {}, {})) /\ UNCHANGED entities
         \/ /\ \E embedded \in BOOLEAN : entities' = Upserted(entities, id, ChunkText(d, i), job[d].acl, embedded, d)
            /\ Becomes(d, Call(pc, next, job[d].acl, {}, {}, {}, {}))
  BY UpsertChunkJob
<1>3. CASE Becomes(d, Call("failed", i, job[d].acl, {}, {}, {}, {})) /\ UNCHANGED entities
  <2>1. PICK j : j = Call("failed", i, job[d].acl, {}, {}, {}, {})
    OBVIOUS
  <2>2. Becomes(d, j) /\ j.pc = "failed" /\ j.found = {} /\ j.gone = {}
    BY <1>3, <2>1, CallFields
  <2>3. Progress(d, j, DOMAIN entities, DOMAIN latest)
    BY <2>2 DEF Progress
  <2>4. CallOk(d, j, DOMAIN entities, relations, DOMAIN latest, overlapped')
    BY <2>2, <2>3, OutsideOk
  <2> QED
    BY <1>1, <1>3, <2>2, <2>4, AckMove
<1>4. CASE /\ \E embedded \in BOOLEAN : entities' = Upserted(entities, id, ChunkText(d, i), job[d].acl, embedded, d)
           /\ Becomes(d, Call(pc, next, job[d].acl, {}, {}, {}, {}))
  <2> DEFINE E == DOMAIN entities
             F == DOMAIN entities'
  <2>1. F = E \cup {id} /\ \A x \in E : x # id => entities'[x] = entities[x]
    BY <1>4 DEF Upserted
  <2>2. PICK j : j = Call(pc, next, job[d].acl, {}, {}, {}, {})
    OBVIOUS
  <2>3. Becomes(d, j) /\ j.pc = pc /\ j.next = next /\ j.found = {} /\ j.gone = {}
    BY <1>4, <2>2, CallFields
  <2>4. /\ i \in Nat /\ \A n \in DOMAIN Chunks[d] : n \in Nat
        /\ next \notin DOMAIN Chunks[d] => \A n \in DOMAIN Chunks[d] : n <= i
    <3>1. DocOf[d].len \in Nat /\ Chunks[d] = chunk_text(DocOf[d].len)
      BY DocLengths DEF Chunks
    <3> QED
      BY <1>2, <3>1, WindowsCount
  <2>5. /\ pc \in {"chunks", "extract"} /\ (pc = "extract" => next \notin DOMAIN Chunks[d])
        /\ \A n \in Nat : n < next => n < i \/ n = i
    BY <2>4
  <2>6. \A k \in Docs : Lone(Source[k]) => ~OfSource(id, Source[k])
    BY <1>2, LoneApart, ChunkApart
  <2> HIDE DEF pc, next, E, F
  <2>7. \A k \in Docs : CallOk(k, job[k], E, relations, DOMAIN latest, overlapped)
    BY DEF AckInv, CallsOk, E
  <2>8. \A k \in Docs :
           /\ AllCovered(k, E, DOMAIN latest) => AllCovered(k, F, DOMAIN latest)
           /\ \A n \in DOMAIN Chunks[k] : Covered(k, n, E, DOMAIN latest) => Covered(k, n, F, DOMAIN latest)
           /\ \A c : Progress(k, c, E, DOMAIN latest) => Progress(k, c, F, DOMAIN latest)
    BY <2>1, CoveredGrows
  <2>9. Progress(d, j, F, DOMAIN latest)
    <3>1. \A n \in DOMAIN Chunks[d] : n < i => Covered(d, n, F, DOMAIN latest)
      BY <1>2, <2>7, <2>8 DEF CallOk, Progress
    <3>2. Covered(d, i, F, DOMAIN latest)
      BY <2>1 DEF Covered
    <3>3. \A n \in DOMAIN Chunks[d] : n < next => Covered(d, n, F, DOMAIN latest)
      BY <2>4, <2>5, <3>1, <3>2
    <3>4. pc = "extract" => \A n \in DOMAIN Chunks[d] : Covered(d, n, F, DOMAIN latest)
      <4>1. \A n \in Nat : n <= i => n < i \/ n = i
        BY <2>4
      <4> QED
        BY <2>4, <2>5, <3>1, <3>2, <4>1
    <3>5. 1 \in DOMAIN Chunks[d]
      BY <1>2, FirstChunk
    <3> QED
      BY <2>3, <2>5, <3>3, <3>4, <3>5 DEF Progress, AllCovered
  <2>10. CallsOk'
    <3> SUFFICES ASSUME NEW k \in Docs
                 PROVE  CallOk(k, job'[k], F, relations, DOMAIN latest, overlapped)
      BY <1>1 DEF CallsOk, F
    <3>1. CASE k = d
      <4>1. CallOk(d, j, F, relations, DOMAIN latest, overlapped)
        BY <2>3, <2>5, <2>9, OutsideOk
      <4> QED
        BY <2>3, <3>1, <4>1 DEF Becomes
    <3>2. CASE k # d
      <4>1. job'[k] = job[k]
        BY <2>3, <3>2 DEF Becomes
      <4>2. Progress(k, job[k], F, DOMAIN latest) /\ Claims(k, job[k])
        BY <2>7, <2>8 DEF CallOk
      <4>3. ASSUME Lone(Source[k]), Source[k] \notin overlapped
            PROVE  Thorough(k, job[k], F, relations)
        <5>1. Thorough(k, job[k], E, relations) /\ ~OfSource(id, Source[k])
          BY <2>6, <2>7, <4>3 DEF CallOk
        <5> QED
          BY <2>1, <5>1 DEF Thorough
      <4> QED
        BY <4>1, <4>2, <4>3 DEF CallOk
    <3> QED
      BY <3>1, <3>2
  <2>11. Apart'
    <3>1. \A k \in Docs : job'[k].pc \in {"delete_entities", "insert"} => InTransaction(k)
      BY <2>3, <2>5 DEF Becomes, InTransaction
    <3> QED
      BY <1>1, <3>1 DEF AckInv, Apart, InTransaction
  <2>12. Latest'
    <3> SUFFICES ASSUME NEW src \in DOMAIN latest
                 PROVE  /\ latest[src] \in Docs /\ Source[latest[src]] = src
                        /\ job'[latest[src]].pc \in {"audit", "done", "failed"}
                        /\ AllCovered(latest[src], F, DOMAIN latest)
      BY <1>1 DEF Latest, F
    <3>1. /\ latest[src] \in Docs /\ Source[latest[src]] = src
          /\ job[latest[src]].pc \in {"audit", "done", "failed"}
          /\ AllCovered(latest[src], E, DOMAIN latest)
      BY DEF AckInv, Latest, E
    <3>2. latest[src] # d
      BY <1>2, <3>1
    <3> QED
      BY <2>3, <2>8, <3>1, <3>2 DEF Becomes
  <2>13. ASSUME NEW src \in DOMAIN latest, Lone(src)
         PROVE  latest[src] \in Docs /\ Source[latest[src]] = src /\ ~OfSource(id, src)
    BY <2>6, <2>13 DEF AckInv, Latest
  <2>14. Whole'
    <3> SUFFICES ASSUME NEW src \in DOMAIN latest, Lone(src), NEW x \in Ids(latest[src])
                 PROVE  x \in F /\ entities'[x].doc = latest[src] /\ entities'[x].text = TextOf(latest[src], x)
      BY <1>1 DEF Whole, F
    <3>1. x \in E /\ entities[x].doc = latest[src] /\ entities[x].text = TextOf(latest[src], x)
      BY DEF AckInv, Whole, E
    <3>2. x # id
      BY <2>13, DocIds
    <3> QED
      BY <2>1, <3>1, <3>2
  <2>15. Exact'
    <3> SUFFICES ASSUME NEW src \in DOMAIN latest \ overlapped, Lone(src)
                 PROVE  Holds(latest[src], F, relations)
      BY <1>1 DEF Exact, F
    <3>1. Holds(latest[src], E, relations)
      BY DEF AckInv, Exact, E
    <3> QED
      BY <2>1, <2>13, <3>1 DEF Holds
  <2> QED
    BY <2>10, <2>11, <2>12, <2>14, <2>15 DEF AckInv
<1> QED
  BY <1>2, <1>3, <1>4

(* The tables after a commit: rows that were not deleted stay as they were *)
(* unless they are of the new extraction.                                  *)
LEMMA CommitTables ==
    ASSUME KInv, NEW d \in Docs, Commit(d)
    PROVE  /\ \A x : x \in DOMAIN entities'
                       <=> x \in Ids(d) \/ (x \in DOMAIN entities /\ EntityKey(x) \notin job[d].gone)
           /\ \A x \in Ids(d) : entities'[x].doc = d /\ entities'[x].text = TextOf(d, x)
           /\ \A x \in DOMAIN entities' : x \notin Ids(d) => entities'[x] = entities[x]
           /\ \A e : e \in relations' <=> \/ e \in relations /\ EdgeKey(e) \notin job[d].gone
                                          \/ e \in EdgesOf(d) /\ EdgeKey(e) \in job[d].put
           /\ DOMAIN latest' = DOMAIN latest \cup {Source[d]} /\ latest'[Source[d]] = d
           /\ \A src \in DOMAIN latest : src # Source[d] => latest'[src] = latest[src]
           /\ overlapped' = overlapped
<1> DEFINE kept == {x \in DOMAIN entities : EntityKey(x) \notin job[d].gone}
           rows == [x \in kept |-> entities[x]]
<1>1. PICK embedded \in BOOLEAN : entities' = WithExtraction(rows, d, job[d].acl, embedded)
  BY CommitRows
<1> DEFINE old(id) == IF id \in DOMAIN rows THEN rows[id].vec ELSE None
           row(id) == [text |-> TextOf(d, id), acl |-> job[d].acl,
                       vec |-> IF embedded THEN TextOf(d, id) ELSE old(id), doc |-> d]
<1>2. entities' = [x \in DOMAIN rows \cup Ids(d) |-> IF x \in Ids(d) THEN row(x) ELSE rows[x]]
  BY <1>1 DEF WithExtraction, TextOf
<1>3. \A x : row(x).doc = d /\ row(x).text = TextOf(d, x)
  OBVIOUS
<1>4. DOMAIN rows = kept /\ \A x \in kept : rows[x] = entities[x]
  OBVIOUS
<1> HIDE DEF row, rows
<1>5. \A x \in Ids(d) : entities'[x].doc = d /\ entities'[x].text = TextOf(d, x)
  BY <1>2, <1>3
<1>6. \A x : x \in DOMAIN entities' <=> x \in Ids(d) \/ x \in kept
  BY <1>2, <1>4
<1>7. \A x \in DOMAIN entities' : x \notin Ids(d) => entities'[x] = entities[x]
  BY <1>2, <1>4
<1>8. /\ relations' = {e \in relations : EdgeKey(e) \notin job[d].gone}
                        \cup {e \in EdgesOf(d) : EdgeKey(e) \in job[d].put}
      /\ latest' = [s \in DOMAIN latest \cup {Source[d]} |-> IF s = Source[d] THEN d ELSE latest[s]]
      /\ overlapped' = overlapped
  BY DEF Commit
<1>9. /\ DOMAIN latest' = DOMAIN latest \cup {Source[d]} /\ latest'[Source[d]] = d
      /\ \A src \in DOMAIN latest : src # Source[d] => latest'[src] = latest[src]
  BY <1>8
<1>10. \A e : e \in relations' <=> \/ e \in relations /\ EdgeKey(e) \notin job[d].gone
                                   \/ e \in EdgesOf(d) /\ EdgeKey(e) \in job[d].put
  BY <1>8
<1> QED
  BY <1>5, <1>6, <1>7, <1>8, <1>9, <1>10

(* COMMIT puts the extraction in, takes out what lay under the prefix of   *)
(* its source, and does nothing to lone sources other than its own.        *)
LEMMA AckCommit == ASSUME KInv, AckInv, NEW d \in Docs, Commit(d) PROVE AckInv'
<1> DEFINE E == DOMAIN entities
           F == DOMAIN entities'
           S == DOMAIN latest
           T == DOMAIN latest'
           Q == relations
           R == relations'
<1>1. /\ \A x : x \in F <=> x \in Ids(d) \/ (x \in E /\ EntityKey(x) \notin job[d].gone)
      /\ \A x \in Ids(d) : entities'[x].doc = d /\ entities'[x].text = TextOf(d, x)
      /\ \A x \in F : x \notin Ids(d) => entities'[x] = entities[x]
      /\ \A e : e \in R <=> \/ e \in Q /\ EdgeKey(e) \notin job[d].gone
                            \/ e \in EdgesOf(d) /\ EdgeKey(e) \in job[d].put
      /\ T = S \cup {Source[d]} /\ latest'[Source[d]] = d
      /\ \A src \in S : src # Source[d] => latest'[src] = latest[src]
      /\ overlapped' = overlapped
  BY CommitTables
<1>2. /\ job[d].pc = "insert" /\ job[d].found = {} /\ job[d].left = {}
      /\ job'[d] = Call("audit", job[d].next, job[d].acl, {}, {}, {}, {})
      /\ \A k \in Docs \ {d} :
            job'[k] = Call(job[k].pc, job[k].next, job[k].acl, job[k].left, job[k].found \ job[d].gone,
                           job[k].gone, job[k].put)
  BY CommitJob DEF KInv
<1>3. \A k \in Docs : CallOk(k, job[k], E, Q, S, overlapped)
  BY DEF AckInv, CallsOk
<1>4. \A src \in S : /\ latest[src] \in Docs /\ Source[latest[src]] = src
                     /\ job[latest[src]].pc \in {"audit", "done", "failed"}
                     /\ AllCovered(latest[src], E, S)
  BY DEF AckInv, Latest
<1>5. AllCovered(d, E, S) /\ Claims(d, job[d])
  BY <1>2, <1>3 DEF CallOk, Progress, JobPcs
<1>6. /\ \A x : EntityKey(x) \in job[d].gone => OfSource(x, Source[d])
      /\ \A e : EdgeKey(e) \in job[d].gone => Touches(e, Source[d])
  BY <1>5, KeysApart DEF Claims
<1>7. ASSUME Lone(Source[d]), Source[d] \notin overlapped
      PROVE  /\ \A e \in Q : Touches(e, Source[d]) => EdgeKey(e) \in job[d].gone
             /\ \A x \in E : OfSource(x, Source[d]) => EntityKey(x) \in job[d].gone
             /\ \A e \in EdgesOf(d) : EdgeKey(e) \in job[d].put
  <2>1. Thorough(d, job[d], E, Q)
    BY <1>3, <1>7 DEF CallOk
  <2>2. \A p \in DOMAIN Inserts[d] : Inserts[d][p] \in job[d].put
    BY <1>2, <2>1 DEF Thorough
  <2>3. \A e \in EdgesOf(d) : EdgeKey(e) \in job[d].put
    BY <2>2, InsertKeys
  <2> QED
    BY <1>2, <2>1, <2>3 DEF Thorough
<1>8. Apart
  BY DEF AckInv
<1>9. \A src \in S : Lone(src) => \A x \in Ids(latest[src]) :
         x \in E /\ entities[x].doc = latest[src] /\ entities[x].text = TextOf(latest[src], x)
  BY DEF AckInv, Whole
<1>10. \A src \in S \ overlapped : Lone(src) => Holds(latest[src], E, Q)
  BY DEF AckInv, Exact
<1>11. \A k \in Docs \ {d} :
          /\ job'[k].pc = job[k].pc /\ job'[k].next = job[k].next /\ job'[k].left = job[k].left
          /\ job'[k].found = job[k].found \ job[d].gone /\ job'[k].gone = job[k].gone /\ job'[k].put = job[k].put
  <2> SUFFICES ASSUME NEW k \in Docs \ {d}
               PROVE  /\ job'[k].pc = job[k].pc /\ job'[k].next = job[k].next /\ job'[k].left = job[k].left
                      /\ job'[k].found = job[k].found \ job[d].gone
                      /\ job'[k].gone = job[k].gone /\ job'[k].put = job[k].put
    OBVIOUS
  <2>1. PICK j : j = job'[k]
    OBVIOUS
  <2>2. j = Call(job[k].pc, job[k].next, job[k].acl, job[k].left, job[k].found \ job[d].gone, job[k].gone, job[k].put)
    BY <1>2, <2>1
  <2> QED
    BY <2>1, <2>2, CallFields
<1>12. job'[d].pc = "audit" /\ job'[d].found = {} /\ job'[d].gone = {}
  BY <1>2, CallFields
<1> HIDE DEF E, F, S, T, Q, R
<1>13. \A k \in Docs :
          /\ AllCovered(k, E, S) => AllCovered(k, F, T)
          /\ \A c : Progress(k, c, E, S) => Progress(k, c, F, T)
  <2>1. ASSUME NEW x \in E
        PROVE  x \in F \/ \E src \in T : OfSource(x, src)
    BY <1>1, <1>6
  <2>2. S \subseteq T
    BY <1>1
  <2>3. ASSUME NEW k \in Docs
        PROVE  \A i \in DOMAIN Chunks[k] : ChunkId(k, i) \in E =>
                   ChunkId(k, i) \in F \/ \E src \in T : OfSource(ChunkId(k, i), src)
    BY <2>1
  <2> QED
    BY <2>2, <2>3, CoveredGrows
<1>14. ASSUME NEW k \in Docs, Lone(Source[k]), Source[k] # Source[d]
       PROVE  /\ \A x \in Ids(d) : ~OfSource(x, Source[k])
              /\ \A x \in Ids(k) : ~OfSource(x, Source[d])
              /\ \A e \in EdgesOf(d) : ~Touches(e, Source[k])
              /\ 1 \in DOMAIN Chunks[k] => \A e \in EdgesOf(k) : ~Touches(e, Source[d])
  <2>1. Disjoint(d, k) /\ Disjoint(k, d) /\ 1 \in DOMAIN Chunks[d]
    BY <1>5, <1>14, LoneApart DEF AllCovered
  <2> QED
    BY <1>14, <2>1, EntityApart, EdgeApart
<1>15. CallsOk'
  <2> SUFFICES ASSUME NEW k \in Docs
               PROVE  CallOk(k, job'[k], F, R, T, overlapped)
    BY <1>1 DEF CallsOk, F, R, T
  <2>1. CASE k = d
    <3>1. Progress(d, job'[d], F, T)
      BY <1>5, <1>12, <1>13 DEF Progress
    <3> QED
      BY <1>12, <2>1, <3>1, OutsideOk
  <2>2. CASE k # d
    <3>1. Progress(k, job[k], F, T)
      BY <1>3, <1>13 DEF CallOk
    <3>2. Progress(k, job'[k], F, T)
      BY <1>11, <2>2, <3>1 DEF Progress
    <3>3. Claims(k, job'[k])
      BY <1>3, <1>11, <2>2 DEF CallOk, Claims
    <3>4. ASSUME Lone(Source[k]), Source[k] \notin overlapped
          PROVE  Thorough(k, job'[k], F, R)
      <4>1. Thorough(k, job[k], E, Q)
        BY <1>3, <3>4 DEF CallOk
      <4>2. CASE job[k].pc \notin {"delete_entities", "insert"}
        BY <1>11, <2>2, <4>2 DEF Thorough
      <4>3. CASE job[k].pc \in {"delete_entities", "insert"}
        <5>1. Source[k] # Source[d]
          BY <1>2, <1>8, <2>2, <3>4, <4>3 DEF Apart, InTransaction
        <5>2. \A x \in F : OfSource(x, Source[k]) => x \in E /\ EntityKey(x) \notin job[d].gone
          BY <1>1, <1>14, <3>4, <5>1
        <5>3. \A e \in R : Touches(e, Source[k]) => e \in Q /\ EdgeKey(e) \notin job[d].gone
          BY <1>1, <1>14, <3>4, <5>1
        <5>4. \A e \in R : Touches(e, Source[k]) =>
                 \/ EdgeKey(e) \in job[k].gone
                 \/ job[k].pc = "delete_entities" /\ EdgeKey(e) \in job[k].found \ job[d].gone
          BY <4>1, <4>3, <5>3 DEF Thorough
        <5>5. job[k].pc = "insert" =>
                 /\ \A x \in F : OfSource(x, Source[k]) =>
                       EntityKey(x) \in (job[k].found \ job[d].gone) \cup job[k].gone
                 /\ \A p \in DOMAIN Inserts[k] : p \in job[k].left \/ Inserts[k][p] \in job[k].put
          BY <4>1, <5>2 DEF Thorough
        <5> QED
          BY <1>11, <2>2, <5>4, <5>5 DEF Thorough
      <4> QED
        BY <4>2, <4>3
    <3> QED
      BY <3>2, <3>3, <3>4 DEF CallOk
  <2> QED
    BY <2>1, <2>2
<1>16. Apart'
  <2>1. \A k \in Docs : job'[k].pc \in {"delete_entities", "insert"} => InTransaction(k)
    BY <1>11, <1>12 DEF InTransaction
  <2> QED
    BY <1>1, <1>8, <2>1 DEF Apart, InTransaction
<1>17. ASSUME NEW src \in T
       PROVE  /\ latest'[src] \in Docs /\ Source[latest'[src]] = src
              /\ src = Source[d] => latest'[src] = d
              /\ src # Source[d] => src \in S /\ latest'[src] = latest[src]
  BY <1>1, <1>4
<1>18. Latest'
  <2> SUFFICES ASSUME NEW src \in T
               PROVE  /\ latest'[src] \in Docs /\ Source[latest'[src]] = src
                      /\ job'[latest'[src]].pc \in {"audit", "done", "failed"}
                      /\ AllCovered(latest'[src], F, T)
    BY DEF Latest, F, T
  <2>1. CASE src = Source[d]
    BY <1>5, <1>12, <1>13, <1>17, <2>1
  <2>2. CASE src # Source[d]
    <3>1. latest[src] # d
      BY <1>4, <1>17, <2>2
    <3> QED
      BY <1>4, <1>11, <1>13, <1>17, <2>2, <3>1
  <2> QED
    BY <2>1, <2>2
<1>19. Whole'
  <2> SUFFICES ASSUME NEW src \in T, Lone(src), NEW x \in Ids(latest'[src])
               PROVE  x \in F /\ entities'[x].doc = latest'[src] /\ entities'[x].text = TextOf(latest'[src], x)
    BY DEF Whole, F, T
  <2>1. CASE src = Source[d]
    BY <1>1, <1>17, <2>1
  <2>2. CASE src # Source[d]
    <3>1. src \in S /\ latest'[src] = latest[src] /\ latest[src] \in Docs /\ Source[latest[src]] = src
      BY <1>4, <1>17, <2>2
    <3>2. x \in E /\ entities[x].doc = latest[src] /\ entities[x].text = TextOf(latest[src], x)
      BY <1>9, <3>1
    <3>3. ~OfSource(x, Source[d])
      BY <1>14, <2>2, <3>1
    <3>4. x \notin Ids(d) /\ EntityKey(x) \notin job[d].gone
      BY <1>6, <3>3, DocIds
    <3> QED
      BY <1>1, <3>1, <3>2, <3>4
  <2> QED
    BY <2>1, <2>2
<1>20. Exact'
  <2> SUFFICES ASSUME NEW src \in T \ overlapped, Lone(src)
               PROVE  Holds(latest'[src], F, R)
    BY <1>1 DEF Exact, F, R, T
  <2>1. CASE src = Source[d]
    <3>1. \A x \in F : OfSource(x, Source[d]) => x \in Ids(d)
      BY <1>1, <1>7, <2>1
    <3>2. EdgesOf(d) \subseteq R
      BY <1>1, <1>7, <2>1
    <3>3. \A e \in R : Touches(e, Source[d]) => e \in EdgesOf(d)
      BY <1>1, <1>7, <2>1
    <3> QED
      BY <1>17, <2>1, <3>1, <3>2, <3>3 DEF Holds
  <2>2. CASE src # Source[d]
    <3> DEFINE k == latest[src]
    <3>1. src \in S /\ latest'[src] = k /\ k \in Docs /\ Source[k] = src /\ 1 \in DOMAIN Chunks[k]
      BY <1>4, <1>17, <2>2 DEF AllCovered
    <3>2. Holds(k, E, Q)
      BY <1>10, <3>1
    <3> HIDE DEF k
    <3>3. \A x \in F : OfSource(x, Source[k]) => x \in Ids(k)
      BY <1>1, <1>14, <2>2, <3>1, <3>2 DEF Holds
    <3>4. EdgesOf(k) \subseteq R
      BY <1>1, <1>6, <1>14, <2>2, <3>1, <3>2 DEF Holds
    <3>5. \A e \in R : Touches(e, Source[k]) => e \in EdgesOf(k)
      BY <1>1, <1>14, <2>2, <3>1, <3>2 DEF Holds
    <3> QED
      BY <3>1, <3>3, <3>4, <3>5 DEF Holds
  <2> QED
    BY <2>1, <2>2
<1> QED
  BY <1>15, <1>16, <1>18, <1>19, <1>20 DEF AckInv
-----------------------------------------------------------------------------
(* The document ingested before is stored whole, and nothing else is.      *)
LEMMA AckInit == Init => AckInv
<1> SUFFICES ASSUME Init PROVE AckInv
  OBVIOUS
<1> DEFINE acl == _resolve_scope_acl(Prior)
           chunks == {ChunkId(Prior, i) : i \in DOMAIN Chunks[Prior]}
           number(id) == CHOOSE i \in DOMAIN Chunks[Prior] : ChunkId(Prior, i) = id
           stored == [id \in chunks |-> [text |-> ChunkText(Prior, number(id)), acl |-> acl, vec |-> None,
                                         doc |-> Prior]]
           old(id) == IF id \in DOMAIN stored THEN stored[id].vec ELSE None
           row(id) == [text |-> TextOf(Prior, id), acl |-> acl, vec |-> old(id), doc |-> Prior]
<1>1. Prior \in Docs
  BY PriorAccepted
<1>2. entities = [x \in DOMAIN stored \cup Ids(Prior) |-> IF x \in Ids(Prior) THEN row(x) ELSE stored[x]]
  BY DEF Init, WithExtraction, TextOf
<1>3. \A x : row(x).text = TextOf(Prior, x) /\ row(x).doc = Prior
  OBVIOUS
<1>4. \A x : x \in DOMAIN stored <=> \E i \in DOMAIN Chunks[Prior] : x = ChunkId(Prior, i)
  OBVIOUS
<1> HIDE DEF row, stored
<1>5. \A x : x \in DOMAIN entities <=> x \in Ids(Prior) \/ \E i \in DOMAIN Chunks[Prior] : x = ChunkId(Prior, i)
  BY <1>2, <1>4
<1>6. \A x \in Ids(Prior) : x \in DOMAIN entities /\ entities[x].text = TextOf(Prior, x) /\ entities[x].doc = Prior
  BY <1>2, <1>3, <1>5
<1>7. \A k \in Docs : /\ job[k].found = {} /\ job[k].gone = {}
                      /\ job[k].pc \in {"new", "done"} /\ (job[k].pc = "done" <=> k = Prior)
  <2>1. PICK new : new = NewJob
    OBVIOUS
  <2>2. new = Call("new", 1, {}, {}, {}, {}, {})
    BY <2>1 DEF NewJob, Call
  <2>3. IsCall(new) /\ new.pc = "new" /\ new.found = {} /\ new.gone = {}
    BY <2>2, CallFields
  <2>4. PICK done : done = [new EXCEPT !.pc = "done", !.acl = acl]
    OBVIOUS
  <2>5. done = Call("done", new.next, acl, new.left, new.found, new.gone, new.put)
    BY <2>3, <2>4, SetPcAcl
  <2>6. done.pc = "done" /\ done.found = {} /\ done.gone = {}
    BY <2>3, <2>5, CallFields
  <2>7. job = [k \in Docs |-> IF k = Prior THEN [NewJob EXCEPT !.pc = "done", !.acl = acl] ELSE NewJob]
    BY DEF Init
  <2>8. job = [k \in Docs |-> IF k = Prior THEN done ELSE new]
    BY <2>1, <2>4, <2>7
  <2> QED
    BY <2>3, <2>6, <2>8
<1>8. relations = EdgesOf(Prior) /\ latest = [s \in {Source[Prior]} |-> Prior] /\ overlapped = {}
  BY DEF Init
<1>9. \A s \in DOMAIN latest : s = Source[Prior] /\ latest[s] = Prior
  BY <1>8
<1>10. AllCovered(Prior, DOMAIN entities, DOMAIN latest)
  <2>1. DocOf[Prior].len \in Nat /\ DocOf[Prior].len > 0 /\ Chunks[Prior] = chunk_text(DocOf[Prior].len)
    BY <1>1, DocLengths, PriorAccepted DEF Chunks
  <2>2. 1 \in DOMAIN Chunks[Prior]
    BY <2>1, Windows
  <2> QED
    BY <1>5, <2>2 DEF AllCovered, Covered
<1>11. CallsOk
  <2> SUFFICES ASSUME NEW k \in Docs
               PROVE  CallOk(k, job[k], DOMAIN entities, relations, DOMAIN latest, overlapped)
    BY DEF CallsOk
  <2>1. Progress(k, job[k], DOMAIN entities, DOMAIN latest)
    BY <1>7, <1>10 DEF Progress
  <2>2. job[k].found = {} /\ job[k].gone = {} /\ job[k].pc \notin {"delete_entities", "insert"}
    BY <1>7
  <2> QED
    BY <2>1, <2>2, OutsideOk
<1>12. Apart
  BY <1>7 DEF Apart, InTransaction
<1>13. Latest
  BY <1>1, <1>7, <1>9, <1>10 DEF Latest
<1>14. Whole
  BY <1>6, <1>9 DEF Whole
<1>15. Exact
  <2> SUFFICES ASSUME NEW s \in DOMAIN latest, Lone(s)
               PROVE  Holds(latest[s], DOMAIN entities, relations)
    BY DEF Exact
  <2>1. Lone(Source[Prior]) /\ latest[s] = Prior
    BY <1>9
  <2>2. \A i \in DOMAIN Chunks[Prior] : ~OfSource(ChunkId(Prior, i), Source[Prior])
    BY <1>1, <2>1, LoneApart, ChunkApart
  <2>3. Holds(Prior, DOMAIN entities, relations)
    BY <1>5, <1>8, <2>2 DEF Holds
  <2> QED
    BY <2>1, <2>3
<1> QED
  BY <1>11, <1>12, <1>13, <1>14, <1>15 DEF AckInv

(* Every step keeps it.                                                    *)
LEMMA AckStep == KInv /\ AckInv /\ [Next]_vars => AckInv'
<1> SUFFICES ASSUME KInv, AckInv, [Next]_vars PROVE AckInv'
  OBVIOUS
<1>1. ASSUME UNCHANGED <<entities, relations, job, overlapped, latest>>
      PROVE  AckInv'
  BY <1>1, AckIdle
<1>2. CASE UNCHANGED vars
  BY <1>1, <1>2 DEF vars, used, past
<1>3. ASSUME NEW d \in Docs, IngestStep(d)
      PROVE  AckInv'
  BY <1>3, AckSubmit, AckUpsertChunk, AckGoto, AckDeleteRelations, AckLockRow, AckDeleteEntities, AckInsert,
     AckCommit, AckRollback DEF IngestStep
<1>4. CASE Setup
  <2>1. UNCHANGED <<relations, job, overlapped, latest>>
    BY <1>4 DEF Setup, Event, past
  <2> QED
    BY <1>4, <2>1, SetupRows, AckVectors
<1>5. CASE SelectNull
  BY <1>1, <1>5 DEF SelectNull, used, past
<1>6. ASSUME NEW id \in DOMAIN fill.rows, UpdateVector(id)
      PROVE  AckInv'
  <2>1. UNCHANGED <<relations, job, overlapped, latest>>
    BY <1>6 DEF UpdateVector
  <2> QED
    BY <1>6, <2>1, UpdateRows, AckVectors
<1>7. ASSUME NEW row, Grant(row) \/ Revoke(row)
      PROVE  AckInv'
  BY <1>1, <1>7 DEF Grant, Revoke, Event, past
<1>8. CASE (\E p \in Principals : Ask(p)) \/ VectorQuery \/ Answer \/ Consume
  BY <1>1, <1>8 DEF Ask, VectorQuery, Answer, Consume, Event, used, past
<1> QED
  BY <1>2, <1>3, <1>4, <1>5, <1>6, <1>7, <1>8 DEF Next, BackfillStep, QueryStep

(* Of a lone source without overlap, the tables are those of the in-memory *)
(* store after the same call, and no edge dangles.                         *)
LEMMA AsReference ==
    ASSUME KInv, AckInv, NEW src \in DOMAIN latest, src \notin overlapped, Lone(src)
    PROVE  Replaced(src)
<1> DEFINE d == latest[src]
<1>1. /\ d \in Docs /\ Source[d] = src /\ Holds(d, DOMAIN entities, relations)
      /\ AllCovered(d, DOMAIN entities, DOMAIN latest)
      /\ job[d].pc \in {"audit", "done", "failed"}
      /\ \A x \in Ids(d) : x \in DOMAIN entities /\ entities[x].doc = d /\ entities[x].text = TextOf(d, x)
  BY DEF AckInv, Latest, Exact, Whole
<1>9. \A s \in DOMAIN latest : \E k \in Docs : Source[k] = s
  BY DEF AckInv, Latest
<1> HIDE DEF d
<1> DEFINE kept == {id \in DOMAIN entities : ~OfSource(id, Source[d])}
           rows == [id \in kept |-> entities[id]]
           acl == job[d].acl
           R1 == WithExtraction(rows, d, acl, TRUE)
           R2 == {e \in relations : ~Touches(e, Source[d])} \cup EdgesOf(d)
<1>2. MemoryPersist(entities, relations, d, acl) = <<R1, R2>>
  BY DEF MemoryPersist
<1>3. relations = R2
  BY <1>1 DEF Holds
<1>4. Plain(entities) = Plain(R1)
  <2> DEFINE row(id) == [text |-> TextOf(d, id), acl |-> acl, vec |-> TextOf(d, id), doc |-> d]
  <2>1. R1 = [x \in DOMAIN rows \cup Ids(d) |-> IF x \in Ids(d) THEN row(x) ELSE rows[x]]
    BY DEF WithExtraction, TextOf
  <2>2. \A x : row(x).text = TextOf(d, x) /\ row(x).acl = acl
    OBVIOUS
  <2>3. /\ \A x : x \in DOMAIN rows <=> x \in DOMAIN entities /\ ~OfSource(x, Source[d])
        /\ \A x \in DOMAIN rows : rows[x] = entities[x]
    OBVIOUS
  <2> HIDE DEF row, rows, R1
  <2>4. \A x : x \in DOMAIN R1 <=> x \in DOMAIN entities
    BY <1>1, <2>1, <2>3 DEF Holds
  <2>8. AclOf(d, acl)
    BY <1>1 DEF KInv, Jobs, JobOf
  <2>5. ASSUME NEW x \in DOMAIN entities
        PROVE  R1[x].text = entities[x].text /\ R1[x].acl = entities[x].acl
    <3>1. CASE x \in Ids(d)
      <4>1. R1[x] = row(x)
        BY <2>1, <3>1
      <4>2. AclOf(d, entities[x].acl)
        BY <1>1, <3>1 DEF KInv, Rows, RowOf
      <4>3. entities[x].acl = acl
        BY <2>8, <4>2 DEF AclOf
      <4> QED
        BY <1>1, <2>2, <3>1, <4>1, <4>3
    <3>2. CASE x \notin Ids(d)
      BY <1>1, <2>1, <2>3, <2>4, <3>2 DEF Holds
    <3> QED
      BY <3>1, <3>2
  <2>6. DOMAIN R1 = DOMAIN entities
    BY <2>4
  <2>7. [x \in DOMAIN R1 |-> [text |-> R1[x].text, acl |-> R1[x].acl]]
          = [x \in DOMAIN entities |-> [text |-> entities[x].text, acl |-> entities[x].acl]]
    BY <2>5, <2>6
  <2> QED
    BY <2>7 DEF Plain
<1>5. ChunkId(d, 1) \in DOMAIN entities
  <2>1. 1 \in DOMAIN Chunks[d] /\ Covered(d, 1, DOMAIN entities, DOMAIN latest)
    BY <1>1 DEF AllCovered
  <2>2. \A s \in DOMAIN latest : ~OfSource(ChunkId(d, 1), s)
    BY <1>1, <1>9, <2>1, LoneApart, ChunkApart
  <2> QED
    BY <2>1, <2>2 DEF Covered
<1>6. ASSUME NEW e \in relations, Touches(e, src)
      PROVE  {e.src, e.dst} \subseteq DOMAIN entities
  <2>1. e \in EdgesOf(d)
    BY <1>1, <1>6 DEF Holds
  <2>2. e.dst \in Ids(d) /\ e.src \in Ids(d) \cup {ChunkId(d, 1)}
    BY <1>1, <2>1, Collected
  <2> QED
    BY <1>1, <1>5, <2>2
<1>7. \A p : p = <<R1, R2>> => p[1] = R1 /\ p[2] = R2
  OBVIOUS
<1> HIDE DEF R1, R2
<1>8. /\ MemoryPersist(entities, relations, d, acl)[1] = R1
      /\ MemoryPersist(entities, relations, d, acl)[2] = R2
  BY <1>2, <1>7
<1> QED
  BY <1>3, <1>4, <1>6, <1>8 DEF Replaced, d

(* The invariant holds what an acknowledged ingest leaves behind.          *)
LEMMA AckEnough == KInv /\ AckInv => AckedIngestStored
<1> SUFFICES ASSUME KInv, AckInv PROVE AckedIngestStored
  OBVIOUS
<1>1. ASSUME NEW d \in Docs, job[d].pc = "done"
      PROVE  /\ \A i \in DOMAIN Chunks[d] :
                   \/ ChunkId(d, i) \in DOMAIN entities
                   \/ \E src \in DOMAIN latest : OfSource(ChunkId(d, i), src)
             /\ UNION {Chunks[d][i][1]..Chunks[d][i][2] : i \in DOMAIN Chunks[d]} = 1..DocOf[d].len
  <2>1. AllCovered(d, DOMAIN entities, DOMAIN latest)
    BY <1>1 DEF AckInv, CallsOk, CallOk, Progress, JobPcs
  <2>2. DocOf[d].len \in Nat /\ Chunks[d] = chunk_text(DocOf[d].len)
    BY DocLengths DEF Chunks
  <2> QED
    BY <2>1, <2>2, WindowsCover DEF AllCovered, Covered
<1>2. ASSUME NEW src \in DOMAIN latest, Lone(src)
      PROVE  /\ \A x \in Ids(latest[src]) : x \in DOMAIN entities /\ entities[x].doc = latest[src]
             /\ src \notin overlapped => Replaced(src)
  BY <1>2, AsReference DEF AckInv, Whole
<1> QED
  BY <1>1, <1>2 DEF AckedIngestStored

(* What an acknowledged ingest leaves behind (ingest, persist_extraction): *)
(* rows for the windows of its text, which cover it, each until an         *)
(* extraction is committed under whose prefix its id falls; and, of a      *)
(* source that is not nested with another, all of the entities of the last *)
(* extraction committed, and nothing but what the in-memory store would    *)
(* hold unless two extractions of the source overlapped - for any ids,     *)
(* documents, lengths, chunk sizes and caps, and any number of concurrent  *)
(* calls, failures and deadlocks.                                          *)
THEOREM AckedIngestStoredHolds == Spec => []AckedIngestStored
  BY KInit, KStep, AckInit, AckStep, AckEnough, PTL DEF Spec
=============================================================================
