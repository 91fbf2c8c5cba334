-------------------------------- MODULE Graph --------------------------------
(***************************************************************************)
(* What the passes of one project write into its store: indexwrite.py, the *)
(* transaction of index.index_once, and the SCIP overlay inside it (scip/).*)
(*                                                                         *)
(* How a pass comes to know what moved is in Pass.  Here it reads what it  *)
(* needs in one step, and then works on the transaction's own view of the  *)
(* store, which readers see when it commits.  The overlay takes the build  *)
(* units one after another; files move between all of these steps.         *)
(***************************************************************************)
EXTENDS Store

CONSTANTS
    Text,        \* Text[p][v]: the captures of the text v of the file p
    Document,    \* Document[p][v]: what a SCIP indexer says of that text
    KindOf,      \* KindOf[symbol]: the kind it sets on some of its symbols
    Marked,      \* the directories with a file that declares a build unit
    Skipped,     \* SKIP and the dotted names: directories no unit is looked for in
    Before(_, _),  \* the order of the names of directories
    Languages,   \* the languages the indexer serves
    Tool,        \* the name of the indexer
    FileShare,   \* SCIP_FILE_COVERAGE and SCIP_DEF_COVERAGE, in hundredths
    DefShare,
    NoPass,
    MaxEdits     \* bound: how often the world moves

\* A tree has finitely many files and directories, a directory is the list of the
\* names above it, and their names have an order.  Offsets are bytes counted from 0,
\* of the references of one kind and one name at a byte _dedup leaves the first, no
\* scope is no index of one, and no indexer has the name the parser's own edges
\* carry.
ASSUME GraphAssumption ==
    /\ IsFiniteSet(Path) /\ Gone \notin Path
    /\ \A p \in Path : p.dir \in Seq(ToSet(p.dir))
    /\ 1 \in Version /\ Gone \notin Version
    /\ \A p \in Path, v \in Version :
          /\ Text[p][v].defs \in Seq(Capture)
          /\ \A r, q \in Text[p][v].refs :
                /\ r.site \in Nat
                /\ r.kind = q.kind /\ r.name = q.name /\ r.site = q.site => r = q
    /\ Top \notin Nat
    /\ IsFiniteSet(Marked)
    /\ \A d \in Marked :
          /\ d \in Seq(ToSet(d))
          /\ ~Before(d, d)
          /\ \A e \in Marked : d # e => Before(d, e) \/ Before(e, d)
          /\ \A e, f \in Marked : Before(d, e) /\ Before(e, f) => Before(d, f)
    /\ FileShare \in Nat /\ DefShare \in Nat
    /\ Tool # "treesitter"
    /\ MaxEdits \in Nat

VARIABLES
    disk,     \* disk[p]: the text of the file p, or Gone
    planned,  \* does the plan name the indexer: configured, or found installed
    index,    \* index[u]: the artifact of the unit u, a document for some paths
    store,    \* what a reader of the store sees
    pass,     \* the pass under way, or NoPass
    raced,    \* history: files that moved under the pass that wrote what is stored of them
    edits     \* how often the world has moved

vars == <<disk, planned, index, store, pass, raced, edits>>

FactsOf == [p \in Path |-> [v \in Version |-> Extract(Text[p][v])]]

----------------------------------------------------------------------------
(* indexwrite                                                              *)

\* A slip: the edges into a file are left where they are.
ForgetOutgoing(s, ps) ==
    [s EXCEPT
        !.files = [p \in Path |-> IF p \in ps THEN Gone ELSE @[p]],
        !.nodes = {n \in @ : n.path \notin ps},
        !.edges = {e \in @ : e.src.path \notin ps},
        !.refs = {r \in @ : r.path \notin ps},
        !.imports = [p \in Path |-> IF p \in ps THEN <<>> ELSE @[p]],
        !.fts = @ \ {Posting(n) : n \in {m \in s.nodes : m.path \in ps}}]

\* A slip: the rows of the references are left where they are.
ForgetKeepingRefs(s, ps) ==
    [s EXCEPT
        !.files = [p \in Path |-> IF p \in ps THEN Gone ELSE @[p]],
        !.nodes = {n \in @ : n.path \notin ps},
        !.edges = {e \in @ : e.src.path \notin ps /\ e.dst.path \notin ps},
        !.imports = [p \in Path |-> IF p \in ps THEN <<>> ELSE @[p]],
        !.fts = @ \ {Posting(n) : n \in {m \in s.nodes : m.path \in ps}}]

\* forget_files: the postings first, given the values the nodes have now; the
\* row then takes with it what refers to it, and edges from either end.
Forget(s, ps) ==
    [s EXCEPT
        !.files = [p \in Path |-> IF p \in ps THEN Gone ELSE @[p]],
        !.nodes = {n \in @ : n.path \notin ps},
        !.edges = {e \in @ : e.src.path \notin ps /\ e.dst.path \notin ps},
        !.refs = {r \in @ : r.path \notin ps},
        !.imports = [p \in Path |-> IF p \in ps THEN <<>> ELSE @[p]],
        !.fts = @ \ {Posting(n) : n \in {m \in s.nodes : m.path \in ps}}]

\* _overlaps: does the identifier of d reach into that of e, which has its node?
\* One of no bytes, which a grammar puts in for a missing token, never does.
Overlap(d, e) == d.start < d.stop /\ d.start < e.stop /\ e.start < d.stop

\* The definitions that become nodes: none whose identifier overlaps that of an
\* earlier one.
Kept(defs) ==
    LET upto[n \in Nat] ==
          IF n = 0 THEN {}
          ELSE IF \E j \in upto[n - 1] : Overlap(defs[n], defs[j]) THEN upto[n - 1]
               ELSE upto[n - 1] \cup {n}
    IN  upto[Len(defs)]

KeyOf(p, facts, i) ==
    IF i = Top THEN ModuleId(p)
    ELSE [path |-> p, start |-> facts.defs[i].start, stop |-> facts.defs[i].stop]

\* The row write_nodes has for the module of a file that parsed (the index 0
\* here), or for one of its definitions.
NodeRow(p, facts, i) ==
    LET module == ModuleName(p)
    IN  IF i = 0
        THEN [path |-> p, start |-> 0, stop |-> 0, body |-> 0, kind |-> "module",
              name |-> IF module.tag = "" THEN module.body ELSE <<module.tag>> \o module.body,
              qname |-> <<>>, tier |-> "treesitter"]
        ELSE [path |-> p, start |-> facts.defs[i].start, stop |-> facts.defs[i].stop,
              body |-> facts.defs[i].body, kind |-> facts.defs[i].kind,
              name |-> <<facts.defs[i].name>>, qname |-> facts.defs[i].qname,
              tier |-> "treesitter"]

\* write_nodes, by _NODE_INSERT.  Two rows of one key, which only identifiers of
\* no bytes have, are one node: with the body of the first, and the kind and the
\* names of the last.
NodesOf(p, facts) ==
    LET indices == {0} \cup Kept(facts.defs)
        row(i) == NodeRow(p, facts, i)
        one(i, j) == Id(row(i)) = Id(row(j))
        first(i) == \A j \in indices : one(i, j) => i <= j
        last(i) == \A j \in indices : one(i, j) => j <= i
    IN  {[row(ij[2]) EXCEPT !.body = row(ij[1]).body] :
            ij \in {k \in indices \X indices : one(k[1], k[2]) /\ first(k[1]) /\ last(k[2])}}

Edge(src, dst, kind, conf, count, evidence, site, producer) ==
    [src |-> src, dst |-> dst, kind |-> kind, conf |-> conf, count |-> count,
     evidence |-> evidence, site |-> site, producer |-> producer]

\* structural_edges: what the syntax says, with a module for a missing parent.
StructuralEdges(p, facts) ==
    LET kept == Kept(facts.defs)
        held(i) == facts.defs[i].parent \in kept
    IN  {Edge(KeyOf(p, facts, IF held(i) THEN facts.defs[i].parent ELSE Top),
              KeyOf(p, facts, i), IF held(i) THEN "CONTAINS" ELSE "DEFINES",
              1000, 1, "same_file", 0, "treesitter") : i \in kept}

\* reference_edges: one edge per surviving candidate, where both ends are nodes.
ReferenceEdges(p, facts) ==
    LET kept == Kept(facts.defs)
        of(r) == LET cands == LocalCandidates(p, facts, r)
                 IN  {Edge(KeyOf(p, facts, r.scope), KeyOf(p, facts, c.key), r.kind, c.conf,
                           Cardinality(cands), c.evidence, r.site, "treesitter") :
                        c \in {d \in cands : d.key \in kept}}
    IN  UNION {of(r) : r \in {q \in facts.refs :
                                Decided(p, facts, q) /\ q.scope \in kept \cup {Top}}}

\* write_refs: one row for each reference the file does not decide.
RefsOf(p, facts) ==
    {[path |-> p, kind |-> r.kind, name |-> r.name, site |-> r.site,
      member |-> r.member, receiver |-> r.receiver, self |-> r.self] :
        r \in {q \in facts.refs : ~Decided(p, facts, q)}}

\* write_files: a row for each text read, parsed or not.
FileRows(s, texts) == [p \in Path |-> IF p \in DOMAIN texts THEN texts[p] ELSE s.files[p]]

\* write_imports: the rows as the source wrote them, of the files that parsed.
ImportRows(s, facts, table) ==
    [p \in Path |-> IF p \in table THEN facts[p].imports ELSE s.imports[p]]

\* write_fts: the other half of what forget_files takes out.
Posted(s, nodes) == s.fts \cup {Posting(n) : n \in nodes}

\* The writes of one pass for the texts it read: a file that did not parse has
\* its row and nothing else.
Written(s, texts) ==
    LET facts == [p \in DOMAIN texts |-> FactsOf[p][texts[p]]]
        table == {p \in DOMAIN texts : ~facts[p].error}
        nodes == UNION {NodesOf(p, facts[p]) : p \in table}
    IN  [s EXCEPT
            !.files = FileRows(s, texts),
            !.nodes = @ \cup nodes,
            !.edges = @ \cup UNION {StructuralEdges(p, facts[p]) \cup ReferenceEdges(p, facts[p]) :
                                       p \in table},
            !.refs = @ \cup UNION {RefsOf(p, facts[p]) : p \in table},
            !.imports = ImportRows(s, facts, table),
            !.fts = Posted(s, nodes)]

\* rebuild_fts
Rebuilt(s) == [s EXCEPT !.fts = {Posting(n) : n \in s.nodes}]
----------------------------------------------------------------------------
(* The overlay: one document for each path an artifact covers.              *)

\* run.units: the build units in the order of their names, and the root where
\* there is none.
Units ==
    LET found == {d \in Marked : ToSet(d) \cap Skipped = {}}
        nth(n) == CHOOSE d \in found : Cardinality({e \in found : Before(e, d)}) = n - 1
    IN  IF found = {} THEN <<<<>>>> ELSE [n \in 1 .. Cardinality(found) |-> nth(n)]

NoIndex == [p \in {} |-> Gone]

Deeper(u) == {d \in ToSet(Units) : IsStrictPrefix(u, d)}

\* A slip: a unit is graded against every file below it.
OwnsAll(p, u) == IsPrefix(u, p.dir)

\* _owns: the unit is the nearest one above the file.
Owns(p, u) == IsPrefix(u, p.dir) /\ \A d \in Deeper(u) : ~IsPrefix(d, p.dir)

Census(s, u) == {p \in Stored(s) : p.lang \in Languages /\ Owns(p, u)}

\* coverage and check: the share of the unit's files that have a document, and
\* of their definitions.
Covers(s, u, docs) ==
    LET census == Census(s, u)
        matched == census \cap DOMAIN docs
        defined == SumFunctionOnSet(
                      [p \in matched |-> Cardinality(Document[p][docs[p].text].defs)], matched)
        held == Cardinality({n \in s.nodes : n.path \in census /\ n.kind # "module"})
    IN  /\ census # {} /\ held # 0
        /\ 100 * Cardinality(matched) >= FileShare * Cardinality(census)
        /\ 100 * defined >= DefShare * held

\* A slip: a file that moved since the artifact was written is read all the same.
FreshAny(s, docs) == {p \in DOMAIN docs : s.files[p] # Gone}

\* The documents ingest applies: of files with a row, not moved since the
\* artifact was written.
Fresh(s, docs) == {p \in DOMAIN docs : s.files[p] # Gone /\ ~docs[p].moved}

\* The definitions of an artifact that stand exactly where a node stands.
Joined(s, docs) ==
    UNION {{[symbol |-> d.symbol, id |-> [path |-> p, start |-> d.start, stop |-> d.stop]] :
              d \in {e \in Document[p][docs[p].text].defs :
                       [path |-> p, start |-> e.start, stop |-> e.stop] \in IdsOf(s)}} :
           p \in Fresh(s, docs)}

\* _upgrade_node: the description is SCIP's, the kind only where it sets one.
Upgraded(s, joined) ==
    {IF \E j \in joined : j.id = Id(n)
     THEN LET symbol == (CHOOSE j \in joined : j.id = Id(n)).symbol
          IN  [n EXCEPT !.qname = symbol, !.tier = "scip",
                        !.kind = IF symbol \in DOMAIN KindOf THEN KindOf[symbol] ELSE @]
     ELSE n : n \in s.nodes}

\* The calls the parse recorded at a byte, as edges, and as a row.
CallEdges(s, p, site) ==
    {e \in s.edges : e.src.path = p /\ e.site = site /\ e.kind = "CALLS"}
CallRows(s, p, site) ==
    {r \in s.refs : r.path = p /\ r.site = site /\ r.kind = "CALLS"}

\* _rewrite_call: only where the parse recorded a call.
Rewritable(s, p, site) == CallEdges(s, p, site) # {} \/ CallRows(s, p, site) # {}

Caller(s, p, site) ==
    IF CallEdges(s, p, site) # {} THEN (CHOOSE e \in CallEdges(s, p, site) : TRUE).src
    ELSE CallerNode(s, [path |-> p, site |-> site])

\* nodes, the dict of ingest: the one node of a symbol.  Of several the last in
\* the artifact is taken, and which one that is stays open here.
NodeFor(joined, symbol) == (CHOOSE j \in joined : j.symbol = symbol).id

\* The symbols with a node that the document of p has at a byte.
Named(docs, joined, p, site) ==
    {o.symbol : o \in {q \in Document[p][docs[p].text].refs : q.site = site}}
        \cap {j.symbol : j \in joined}

\* The sites an artifact decides, with the node it names for each: of several
\* names at one byte the last is the one that stays.
Rewrites(s, docs, joined) ==
    UNION {{[path |-> p, site |-> site,
             dst |-> NodeFor(joined, CHOOSE symbol \in Named(docs, joined, p, site) : TRUE)] :
               site \in {o.site : o \in {q \in Document[p][docs[p].text].refs :
                                            /\ Rewritable(s, p, q.site)
                                            /\ Caller(s, p, q.site) # NoNode
                                            /\ Named(docs, joined, p, q.site) # {}}}} :
           p \in Fresh(s, docs)}

CallTo(s, w) == Edge(Caller(s, w.path, w.site), w.dst, "CALLS", 1000, 1, "scip", w.site, Tool)

\* A rewritten site has the one edge.
Calls(s, rewrites) ==
    {e \in s.edges : e.kind = "CALLS" => [path |-> e.src.path, site |-> e.site] \notin
                                             {[path |-> w.path, site |-> w.site] : w \in rewrites}}
    \cup {CallTo(s, w) : w \in rewrites}

\* The IMPLEMENTS edges of the tool are those of this one artifact.
Implementations(edges, related) ==
    {e \in edges : ~(e.kind = "IMPLEMENTS" /\ e.producer = Tool)}
    \cup {Edge(r[1], r[2], "IMPLEMENTS", 1000, 1, "scip", 0, Tool) : r \in related}

Related(s, docs, joined) ==
    LET pairs == UNION {Document[p][docs[p].text].implements : p \in Fresh(s, docs)}
        known == {j.symbol : j \in joined}
    IN  {<<NodeFor(joined, cp[1]), NodeFor(joined, cp[2])>> : cp \in
            {q \in known \X known : /\ q \in pairs
                                    /\ NodeFor(joined, q[1]) # NodeFor(joined, q[2])}}

\* The first loop of ingest: what the artifact says of the definitions.
Described(s, joined) == [s EXCEPT !.nodes = Upgraded(s, joined)]

\* The other two: its calls, then its implementations.
Rewritten(s, docs, joined) ==
    [s EXCEPT !.edges = Implementations(Calls(s, Rewrites(s, docs, joined)),
                                        Related(s, docs, joined))]

\* ingest, past the guard: `joined` are the definitions that stand on a node.  A
\* caller is looked for among the nodes as they are described by then.
Ingested(s, docs, joined) == Rewritten(Described(s, joined), docs, joined)

----------------------------------------------------------------------------
(* The pass                                                                *)

Init ==
    /\ disk = [p \in Path |-> 1]
    /\ planned \in BOOLEAN
    /\ index = [u \in ToSet(Units) |-> NoIndex]
    /\ store = NoStore
    /\ pass = NoPass
    /\ raced = {}
    /\ edits = 0

Changed(look) == {p \in look : disk[p] # store.files[p]}

\* `wrote` and `moved` are history: the files the pass rewrites, and those that
\* moved since it began.
Underway(work, overlaid, wrote) ==
    [work |-> [work EXCEPT !.scip = @ \/ overlaid, !.stamped = TRUE], rewrote |-> overlaid,
     left |-> IF overlaid /\ \E p \in Stored(work) : p.lang \in Languages THEN Units ELSE <<>>,
     said |-> [u \in ToSet(Units) |-> "none"],
     wrote |-> wrote, moved |-> {}]

\* What a pass forgets: the files that differ, and every one where it rebuilds.
Rewrite(look, whole) == IF whole THEN {p \in Path : disk[p] # Gone} \cup Changed(look)
                        ELSE Changed(look)

\* A graph without a stamp is built from nothing, whatever the pass was told.
\* Forgetting and writing, in the transaction, and then the overlay of a pass
\* without a hint, over the units of the indexer if the project holds a language
\* of its.  Nothing changed: the overlay runs only if the plan did.
Begin(look, hinted, force) ==
    /\ pass = NoPass
    /\ ~hinted => look = Path
    /\ hinted => store.stamped /\ ~force
    /\ LET whole == force \/ ~store.stamped
       IN  \E targets \in {Rewrite(look, whole)} :
            /\ targets # {} \/ whole \/ (~hinted /\ planned # store.scip)
            /\ \E work \in {Written(Forget(store, targets),
                                    [p \in {q \in targets : disk[q] # Gone} |-> disk[p]])} :
                  pass' = Underway(work, planned /\ ~hinted, targets)
    /\ UNCHANGED <<disk, planned, index, store, raced, edits>>

\* What an indexer that runs now may write: a document, of the text it has now,
\* for each of the files under its unit, or for all but one of them.
MayIndex(u) ==
    LET below == {p \in Path : disk[p] # Gone /\ p.lang \in Languages /\ IsPrefix(u, p.dir)}
    IN  {[p \in ps |-> [text |-> disk[p], moved |-> FALSE]] :
            ps \in {below} \cup {below \ {p} : p \in below}}

\* _unit: the indexer writes an artifact, or an older one is found in its place;
\* it is graded, and then applied or refused.
Overlay ==
    /\ pass # NoPass /\ pass.left # <<>>
    /\ LET u == Head(pass.left)
       IN  \E docs \in MayIndex(u) \cup {index[u]} :
              /\ index' = [index EXCEPT ![u] = docs]
              /\ \/ /\ ~Covers(pass.work, u, docs)
                    /\ pass' = [pass EXCEPT !.left = Tail(@), !.said[u] = "refused"]
                 \/ /\ Covers(pass.work, u, docs)
                    /\ \E joined \in {Joined(pass.work, docs)} :
                          pass' = [pass EXCEPT !.left = Tail(@), !.said[u] = "merged",
                                               !.work = Ingested(@, docs, joined)]
    /\ UNCHANGED <<disk, planned, store, raced, edits>>

\* A slip: the postings are those of the parse.
CommitWithoutRebuild ==
    /\ pass # NoPass /\ pass.left = <<>>
    /\ store' = pass.work
    /\ raced' = (raced \ pass.wrote) \cup pass.moved
    /\ pass' = NoPass
    /\ UNCHANGED <<disk, planned, index, edits>>

Commit ==
    /\ pass # NoPass /\ pass.left = <<>>
    /\ store' = IF pass.rewrote THEN Rebuilt(pass.work) ELSE pass.work
    /\ raced' = (raced \ pass.wrote) \cup pass.moved
    /\ pass' = NoPass
    /\ UNCHANGED <<disk, planned, index, edits>>

\* The pass dies, and its transaction with it.
Abort ==
    /\ pass # NoPass
    /\ pass' = NoPass
    /\ UNCHANGED <<disk, planned, index, store, raced, edits>>

\* Every artifact is older than a file that moves now.
Edit(p, v) ==
    /\ edits < MaxEdits
    /\ v # disk[p]
    /\ disk' = [disk EXCEPT ![p] = v]
    /\ index' = [u \in DOMAIN index |->
                    IF p \in DOMAIN index[u] THEN [index[u] EXCEPT ![p].moved = TRUE]
                    ELSE index[u]]
    /\ pass' = IF pass = NoPass THEN NoPass ELSE [pass EXCEPT !.moved = @ \cup {p}]
    /\ edits' = edits + 1
    /\ UNCHANGED <<planned, store, raced>>

\* The configuration or the installed tools change the plan.
Replan ==
    /\ edits < MaxEdits
    /\ planned' = ~planned
    /\ edits' = edits + 1
    /\ UNCHANGED <<disk, index, store, pass, raced>>

Next ==
    \/ \E look \in SUBSET Path, hinted, force \in BOOLEAN : Begin(look, hinted, force)
    \/ Overlay
    \/ Commit
    \/ Abort
    \/ \E p \in Path, v \in Version \cup {Gone} : Edit(p, v)
    \/ Replan

Spec == Init /\ [][Next]_vars

----------------------------------------------------------------------------
(* Properties                                                              *)

StoreOK(s) ==
    /\ s.files \in [Path -> Version \cup {Gone}]
    /\ s.scip \in BOOLEAN /\ s.stamped \in BOOLEAN
    /\ \A n \in s.nodes : n.path \in Stored(s) /\ \A m \in s.nodes : Id(m) = Id(n) => m = n
    /\ \A e \in s.edges : e.src \in IdsOf(s) /\ e.dst \in IdsOf(s) /\ e.conf \in 1 .. 1000
    /\ \A r \in s.refs : r.path \in Stored(s)

\* The tables keep their keys, in the store and in the transaction: a node is
\* the only one at its bytes, an edge has a node at either end, and no row
\* outlives the file row it belongs to (the foreign keys of store.py).
TypeOK ==
    /\ disk \in [Path -> Version \cup {Gone}]
    /\ planned \in BOOLEAN
    /\ \A u \in ToSet(Units) : DOMAIN index[u] \subseteq Path
    /\ StoreOK(store)
    /\ pass # NoPass => StoreOK(pass.work)
    /\ raced \subseteq Path
    /\ edits \in 0 .. MaxEdits

\* find_symbol reads the full-text index and then the row it names: the index
\* holds each node under the names it has, and nothing else.  forget_files must
\* give it the values the overlay left, and a commit must rebuild it after one.
FtsMatchesNodes == store.fts = {Posting(n) : n \in store.nodes}

\* What write_files, write_nodes and the rest make of the stored texts, in a
\* store that held nothing.
FromScratch(s) == Written(NoStore, [p \in Stored(s) |-> s.files[p]])

Place(n) == [id |-> Id(n), body |-> n.body, name |-> n.name]

\* However many passes wrote the store, a file here and a file there, it holds
\* what one pass over the same texts would write: the same definitions at the
\* same bytes, the same references and imports, and of the parser's edges none
\* that is out of date and only calls fewer, which the overlay took over.
IncrementalIsFromScratch ==
    pass = NoPass => \E fresh \in {FromScratch(store)} :
        /\ store.refs = fresh.refs
        /\ store.imports = fresh.imports
        /\ {Place(n) : n \in store.nodes} = {Place(n) : n \in fresh.nodes}
        /\ {n \in store.nodes : n.tier = "treesitter"} \subseteq fresh.nodes
        /\ {e \in store.edges : e.producer # Tool} \subseteq fresh.edges
        /\ \A e \in fresh.edges \ store.edges : e.kind = "CALLS"

\* Does the compiler, shown the stored texts, name this target at this call?
Says(e) ==
    LET p == e.src.path
        q == e.dst.path
    IN  /\ \E r \in FactsOf[p][store.files[p]].refs : r.kind = "CALLS" /\ r.site = e.site
        /\ \E o \in Document[p][store.files[p]].refs, d \in Document[q][store.files[q]].defs :
               /\ o.site = e.site /\ o.symbol = d.symbol
               /\ e.dst = [path |-> q, start |-> d.start, stop |-> d.stop]

\* An edge at confidence 1 replaced every candidate of its site, and it is what
\* the compiler says of the two stored texts (ingest._rewrite_call, _stale).
\* Left out: files that moved while the pass that last wrote them was under
\* way, whose ranges _stale cannot tell from those of the stored text.
ScipEdgesStandAlone ==
    \A e \in {f \in store.edges : f.evidence = "scip" /\ f.kind = "CALLS"} :
        /\ CallEdges(store, e.src.path, e.site) = {e}
        /\ {e.src.path, e.dst.path} \cap raced = {} => Says(e)

\* The files whose longest unit is u.
Nearest(s, u) ==
    {p \in Stored(s) : /\ p.lang \in Languages /\ IsPrefix(u, p.dir)
                       /\ \A w \in ToSet(Units) : IsPrefix(w, p.dir) => Len(w) <= Len(u)}

\* A unit whose artifact has a document of the stored text of every file it is
\* the nearest one above is never refused, whatever the other units hold.
Complete(s, u, docs) ==
    /\ \E n \in s.nodes : n.path \in Nearest(s, u) /\ n.kind # "module"
    /\ \A p \in Nearest(s, u) : p \in DOMAIN docs /\ docs[p].text = s.files[p]

CompleteIndexIsTaken ==
    [][\A u \in ToSet(Units) :
          (/\ pass # NoPass /\ pass' # NoPass
           /\ pass.said[u] = "none" /\ pass'.said[u] # "none"
           /\ Complete(pass.work, u, index'[u]))
          => pass'.said[u] = "merged"]_vars

\* The facts of the files of a store that parsed: symtab.build, had one pass
\* read them all.
Table(s) ==
    [p \in {q \in Stored(s) : ~FactsOf[q][s.files[q]].error} |-> FactsOf[p][s.files[p]]]

\* A reference its own file decides is an edge for good: no other file, and no
\* import of this one, could have changed the candidates it was given when only
\* its file was read (resolve_file_local against resolve_reference).
LocalDecisionStands ==
    pass = NoPass => \A table \in {Table(store)} : \A p \in DOMAIN table :
        \A ref \in table[p].refs :
            Decided(p, table[p], ref) =>
                ResolveReference(table, p, ref) =
                    [cands |-> LocalCandidates(p, table[p], ref), external |-> FALSE]

\* Every call of a stored file has an edge or a row that is resolved on read.
NoCallIsLost ==
    \A p \in DOMAIN Table(store) : \A r \in Table(store)[p].refs :
        r.kind = "CALLS" => Rewritable(store, p, r.site)
=============================================================================
