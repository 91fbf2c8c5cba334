------------------------------- MODULE Answers -------------------------------
(***************************************************************************)
(* The questions: derive.py, traverse.py, query.py and the tools on top.   *)
(*                                                                         *)
(* An edge inside a file is stored; one that leaves its file is derived on *)
(* read, from the reference rows and the import rows.  An answer is a set  *)
(* of rows, each with the node it reaches, and with the kind, the          *)
(* confidence and the candidate count of the edge that reached it.         *)
(***************************************************************************)
EXTENDS Store

Row(id, kind, conf, count) == [id |-> id, kind |-> kind, conf |-> conf, count |-> count]

\* Ambiguous edges are left out unless asked for.
Told(count, ambiguous) == ambiguous \/ count = 1

\* one_hop: a walk of depth one over the stored edges; a node is no neighbour
\* of its own.  Of several edges between two nodes SQLite answers with one, which
\* the statement does not name; all of them are rows here.
StoredHop(s, start, up, kinds, ambiguous) ==
    {Row(IF up THEN e.src ELSE e.dst, e.kind, e.conf, e.count) :
        e \in {f \in s.edges : /\ (IF up THEN f.dst ELSE f.src) = start
                               /\ f.src # f.dst /\ f.kind \in kinds
                               /\ Told(f.count, ambiguous)}}

\* The references an answer may count, each with its candidates: not those the
\* overlay answered, and one of several candidates only where asked for.
Open(s, rs) == {r \in rs : ~DecidedByScip(s, r)}

HitsOf(s, rs, ambiguous) ==
    {h \in {[ref |-> r, cands |-> ResolveRef(s, r).cands] : r \in rs} :
        h.cands # {} /\ Told(Cardinality(h.cands), ambiguous)}

HitRow(id, h, c) == Row(id, h.ref.kind, c.conf, Cardinality(h.cands))

\* upstream_refs: every reference that spells the name, resolved, and kept where
\* one of the candidates is this node.
UpstreamRefs(s, start, kinds, ambiguous) ==
    LET named == Open(s, RefsNaming(s, NodeOf(s, start).name, kinds))
    IN  {row \in UNION {{HitRow(CallerNode(s, h.ref), h, c) : c \in {d \in h.cands : d.key = start}} :
                        h \in HitsOf(s, named, ambiguous)} :
            row.id \notin {NoNode, start}}

\* A slip: the sites the overlay answered are derived once more.
DownstreamRefsAll(s, start, kinds, ambiguous) ==
    {row \in UNION {{HitRow(c.key, h, c) : c \in h.cands} :
                    h \in HitsOf(s, RefsInside(s, start, kinds), ambiguous)} :
        row.id # start}

\* downstream_refs: the references the definition's own body makes.
DownstreamRefs(s, start, kinds, ambiguous) ==
    {row \in UNION {{HitRow(c.key, h, c) : c \in h.cands} :
                    h \in HitsOf(s, Open(s, RefsInside(s, start, kinds)), ambiguous)} :
        row.id # start}

\* import_hop: files, by their module nodes.
ImportHop(s, start, up) ==
    {Row(ModuleNode(s, q), "IMPORTS", 1000, 1) :
        q \in {f \in IF up THEN ImportingFiles(s, start.path) ELSE ImportedFiles(s, start.path) :
                 ModuleNode(s, f) \notin {NoNode, start}}}

Hop(s, start, up, kinds, ambiguous) ==
    IF kinds = {"IMPORTS"} THEN ImportHop(s, start, up)
    ELSE IF up THEN UpstreamRefs(s, start, kinds, ambiguous)
    ELSE DownstreamRefs(s, start, kinds, ambiguous)

\* merge: the most confident row of each node.  Of rows that are equally so the
\* code keeps the first; all of them are kept here.
Merged(rows) == {r \in rows : \A q \in rows : q.id = r.id => q.conf <= r.conf}

\* query.QUESTIONS: the direction and the kinds.
Question(q) ==
    CASE q = "callers"         -> [up |-> TRUE,  kinds |-> {"CALLS"}]
      [] q = "callees"         -> [up |-> FALSE, kinds |-> {"CALLS"}]
      [] q = "implementations" -> [up |-> TRUE,  kinds |-> {"IMPLEMENTS"}]
      [] q = "importers"       -> [up |-> TRUE,  kinds |-> {"IMPORTS"}]
      [] q = "imports"         -> [up |-> FALSE, kinds |-> {"IMPORTS"}]
      [] q = "references"      -> [up |-> TRUE,  kinds |-> {"REFERENCES", "CALLS"}]

\* neighbors, from a node.
Neighbors(s, start, question, ambiguous) ==
    LET q == Question(question)
    IN  Merged(StoredHop(s, start, q.up, q.kinds, ambiguous)
               \cup Hop(s, start, q.up, q.kinds, ambiguous))

Reaching(rows) == {r.id : r \in rows}

----------------------------------------------------------------------------
(* The blast radius                                                        *)

RadiusKinds == {"CALLS", "REFERENCES", "IMPLEMENTS"}

\* What one level adds for one node of the frontier.
Dependents(s, id, ambiguous) ==
    Reaching(StoredHop(s, id, TRUE, RadiusKinds \cup {"IMPORTS"}, ambiguous)
             \cup UNION {Hop(s, id, TRUE, kinds, ambiguous) : kinds \in {RadiusKinds, {"IMPORTS"}}})

\* A slip: a node already answered is walked and answered again.
RadiusRevisiting(s, start, depth, ambiguous) ==
    LET level[k \in Nat] == IF k = 0 THEN {start}
                            ELSE (UNION {Dependents(s, id, ambiguous) : id \in level[k - 1]}) \ {start}
    IN  UNION {{[id |-> id, depth |-> k] : id \in level[k]} : k \in 1 .. depth}

\* radius: level by level, a node at the first level that reaches it, and the
\* next level from those alone.
Radius(s, start, depth, ambiguous) ==
    LET levels[k \in Nat] ==
          IF k = 0 THEN <<{start}>>
          ELSE LET before == levels[k - 1]
               IN  Append(before, (UNION {Dependents(s, id, ambiguous) : id \in Last(before)})
                                      \ UNION ToSet(before))
    IN  UNION {{[id |-> id, depth |-> k] : id \in levels[k][k + 1]} : k \in 1 .. depth}

----------------------------------------------------------------------------
(* One name over many projects: tools.find_symbol over fanout.windowed.  Of *)
(* each project `hits` holds the answer of its store, at most `limit` long, *)
(* or Gone where it has no graph.                                          *)

\* What the loop takes of the project i: nothing once it holds enough hits.
Take(got, hits, i, limit) ==
    IF Len(got.results) >= limit THEN got
    ELSE IF hits[i] = Gone THEN [got EXCEPT !.unindexed = Append(@, i)]
    ELSE [got EXCEPT !.results = @ \o hits[i]]

\* A slip: the answers of a window are taken in the order the stores close.
WindowAsFinished(got, hits, first, size, limit) ==
    LET taken[k \in 0 .. size] ==
          IF k = 0 THEN got ELSE Take(taken[k - 1], hits, first + size - k, limit)
    IN  taken[size]

\* One window: its stores are opened at once, and their answers taken in order.
Window(got, hits, first, size, limit) ==
    LET taken[k \in 0 .. size] ==
          IF k = 0 THEN got ELSE Take(taken[k - 1], hits, first + k - 1, limit)
    IN  taken[size]

\* find_symbol: window after window, until there are hits enough.
FindSymbol(hits, limit, size) ==
    LET walk[w \in 0 .. Len(hits)] ==
          IF w = 0 THEN [results |-> <<>>, unindexed |-> <<>>, opened |-> 0]
          ELSE LET before == walk[w - 1]
                   start == before.opened + 1
                   width == IF start + size - 1 > Len(hits) THEN Len(hits) - start + 1 ELSE size
               IN  IF start > Len(hits) \/ Len(before.results) >= limit THEN before
                   ELSE [Window(before, hits, start, width, limit)
                            EXCEPT !.opened = start + width - 1]
        got == walk[Len(hits)]
    IN  [got EXCEPT !.results = SubSeq(@, 1, IF Len(@) < limit THEN Len(@) ELSE limit)]
=============================================================================
