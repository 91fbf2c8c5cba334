------------------------------- MODULE Engine -------------------------------
(***************************************************************************)
(* The two halves of the engine together: the store the passes write       *)
(* (Graph), and the questions asked of it (Answers).  With them the rules  *)
(* that have no state of their own: Names, Offsets, Health.                *)
(***************************************************************************)
EXTENDS Graph, Answers, Offsets, Health

\* The key a table gives a definition, as the id of its node.
NodeIdOf(facts, c) == KeyOf(c.path, facts[c.path], c.key)

\* The definitions of a name are all nodes a query may answer with: none lost its
\* node to an overlapping one, none shares it with another of no bytes, and none
\* is of kind module; and no module of that name was given another kind by the
\* overlay, which would make it one of them.
AllAreNodes(table, name) ==
    /\ \A s \in TablePool(table, name) :
          /\ s.key \in Kept(table[s.path].defs)
          /\ \A j \in Kept(table[s.path].defs) \cup {Top} :
                KeyOf(s.path, table[s.path], j) = NodeIdOf(table, s) => j = s.key
          /\ NodeOf(store, NodeIdOf(table, s)).kind # "module"
    /\ \A n \in Pool(store, name) : Id(n) # ModuleId(n.path)

\* Resolving a stored reference against the tables gives what resolving it
\* against the facts of every file gives: the same candidates, with the same
\* confidence, or external alike.  Two codes answer the one question, dbread and
\* resolvedb on read, symtab and resolve for the pass.
AgreesOnRead ==
    pass = NoPass => \A table \in {Table(store)} : \A p \in DOMAIN table :
        \A ref \in {r \in table[p].refs : /\ ~Decided(p, table[p], r)
                                          /\ AllAreNodes(table, r.name)} :
            \A whole \in {ResolveReference(table, p, ref)},
               row \in {r \in store.refs : /\ r.path = p /\ r.kind = ref.kind
                                           /\ r.name = ref.name /\ r.site = ref.site} :
                ResolveRef(store, row) =
                    [whole EXCEPT !.cands = {[c EXCEPT !.key = NodeIdOf(table, c)] : c \in @}]

Definitions == {Id(n) : n \in {m \in store.nodes : m.kind # "module"}}

Facing(rows, id) == {[kind |-> r.kind, conf |-> r.conf, count |-> r.count] :
                        r \in {q \in rows : q.id = id}}

\* The one question answered from its two ends: x is a caller of y exactly if y
\* is a callee of x, over the same edge.  The upstream answer reads the
\* references by name and the downstream one by the bytes of a body, and both
\* must leave out what the overlay took over.
CallersMirrorCallees ==
    LET callers == [y \in Definitions |-> Neighbors(store, y, "callers", TRUE)]
        callees == [x \in Definitions |-> Neighbors(store, x, "callees", TRUE)]
    IN  pass = NoPass => \A x, y \in Definitions : Facing(callers[y], x) = Facing(callees[x], y)

\* A reference counts once: where the store has an edge for a call, no answer
\* derives that call again from its row.
NoCallCountsTwice ==
    \A r \in {q \in Open(store, store.refs) : q.kind = "CALLS"} :
        CallEdges(store, r.path, r.site) = {}

\* blast_radius tells each dependent once, at the length of the shortest chain
\* that leads to it, round a cycle too, and never the node itself.
RadiusIsShortest ==
    pass = NoPass =>
        \E next \in {[id \in IdsOf(store) |-> Dependents(store, id, FALSE)]} :
            \A start \in IdsOf(store) :
                LET chains[k \in Nat] ==
                        IF k = 0 THEN {start} ELSE UNION {next[id] : id \in chains[k - 1]}
                    shortest(id, k) == /\ id \in chains[k]
                                       /\ \A j \in 0 .. k - 1 : id \notin chains[j]
                IN  Radius(store, start, 3, FALSE) =
                        UNION {{[id |-> id, depth |-> k] : id \in {d \in IdsOf(store) : shortest(d, k)}} :
                               k \in 1 .. 3}

----------------------------------------------------------------------------
(* Rules with no state: over small inputs, before the first pass            *)

AtStart ==
    /\ pass = NoPass /\ store = NoStore /\ edits = 0 /\ ~planned
    /\ \A u \in DOMAIN index : index[u] = NoIndex

CONSTANTS
    SomeFiles,   \* the files whose imports of one another are checked
    SomeHits,    \* the answers of one project
    SomeBodies   \* the replies of /healthz

\* A directory is a sequence of segments; an answer is a sequence of hits; a reply
\* counts the queue from 0, and names projects by their roots, which the two
\* identities of health.py are not.
ASSUME EngineAssumption ==
    /\ \A p \in SomeFiles : p.dir \in Seq(ToSet(p.dir))
    /\ \A hits \in SomeHits \ {Gone} : hits \in Seq(ToSet(hits))
    /\ \A body \in SomeBodies \ {NoReply} :
          body.depth \in Nat /\ Worker \notin body.failing /\ Stalled \notin body.failing

\* An import spelt as its language spells it reaches the file it means: the
\* module a row names is the module the path of that file names, from any
\* directory, under build directories and for initialisers.
ImportMeetsItsFile ==
    AtStart => \A p, q \in SomeFiles :
        Importable(p, q) => \A row \in Spelt(p, q) : ResolveModule(p, row) = ModuleName(q)

\* What a loop over one project after another finds, and how far it goes: to the
\* first project by which there are hits enough, or to the last.
Plain(hits, limit) ==
    LET found[n \in 0 .. Len(hits)] ==
          IF n = 0 THEN <<>>
          ELSE found[n - 1] \o IF hits[n] = Gone THEN <<>> ELSE hits[n]
        gone[n \in 0 .. Len(hits)] ==
          IF n = 0 THEN <<>>
          ELSE gone[n - 1] \o IF hits[n] = Gone THEN <<n>> ELSE <<>>
        enough == {n \in 0 .. Len(hits) : Len(found[n]) >= limit \/ n = Len(hits)}
        last == CHOOSE n \in enough : \A m \in enough : n <= m
        all == found[last]
    IN  [results |-> SubSeq(all, 1, IF Len(all) < limit THEN Len(all) ELSE limit),
         unindexed |-> gone[last], opened |-> last]

\* The answer to find_symbol is that of the plain loop whatever the width of the
\* fan-out, and a window costs at most the rest of itself in stores opened.
WindowChangesNothing ==
    AtStart => \A hits \in SeqOf(SomeHits, 4), limit \in 1 .. 3, size \in 1 .. 3 :
        LET wide == FindSymbol(hits, limit, size)
            plain == Plain(hits, limit)
        IN  /\ wide.results = plain.results
            /\ wide.unindexed = plain.unindexed
            /\ wide.opened \in plain.opened .. plain.opened + size - 1

\* A range reaches its bytes: what an indexer writes of the occurrence between
\* two places of a text, in any of the three shapes, in any encoding, declared or
\* known by the tool, is read as the bytes before the one and before the other,
\* with wide characters, line separators and line ends in between.
RangesReachTheirBytes ==
    AtStart => \A text \in SeqOf(Char, 3), counted \in {"utf8", "utf16", "utf32"} :
        \A meta \in {m \in [tool : {"scip-go", "scip-python"}, declared : {"unspecified", counted}] :
                       m.declared = counted \/ DefaultEncoding[m.tool] = counted} :
            \A j \in 0 .. Len(text) : \A i \in 0 .. j :
                \A occurrence \in Occurrences(text, i, j, counted) :
                    SpanOf(Build(text), RangeRead(occurrence), EncodingFor(meta.tool, meta.declared))
                        = <<BytesIn(Until(text, i)), BytesIn(Until(text, j))>>

\* A check pages for what failed at the last check that was answered and fails
\* now, a dead worker like a project, through checks without a reply; for a queue
\* as soon as it is deep and no shallower than at that check; and for no more.
PagesForWhatLasts ==
    AtStart => \A bodies \in SeqOf(SomeBodies, 2), body \in SomeBodies \ {NoReply} :
        LET answered == {i \in DOMAIN bodies : bodies[i] # NoReply}
            before == bodies[Max(answered)]
            both == (body.failing \cap before.failing)
                    \cup (IF body.alive \/ before.alive THEN {} ELSE {Worker})
                    \cup (IF body.depth >= Stuck /\ body.depth >= before.depth THEN {Stalled} ELSE {})
        IN  Pages(After(bodies), body) = IF answered = {} THEN {} ELSE both
=============================================================================
