----------------------------- MODULE GraphProofs -----------------------------
(***************************************************************************)
(* What the store of a project promises for every project, every text and  *)
(* every answer of an indexer.                                             *)
(***************************************************************************)
EXTENDS Graph, ResolveProofs, Induct, SequenceTheorems, FiniteSetTheorems

\* Whatever was stored, a reference its own file decides keeps its candidates in
\* the table of all the stored files.
THEOREM DecisionsStand == Spec => []LocalDecisionStands
<1>1. LocalDecisionStands
  BY LocalDecision DEF LocalDecisionStands
<1> QED BY <1>1, PTL

----------------------------------------------------------------------------
(* What a pass writes of one file.                                          *)

\* What the writers of rows rely on, in the facts of a text that parsed.
Readable(facts) ==
    /\ DOMAIN facts.defs = 1 .. Len(facts.defs) /\ Len(facts.defs) \in Nat
    /\ \A i \in DOMAIN facts.defs : /\ facts.defs[i].start \in Nat
                                    /\ facts.defs[i].stop \in Nat
                                    /\ facts.defs[i].body \in Nat
    /\ \A r \in facts.refs : r.site \in Nat

\* _link gives each definition a parent and a name, and leaves its bytes alone.
LEMMA LinkedKeepsBytes ==
    ASSUME NEW defs \in Seq(Capture)
    PROVE  /\ DOMAIN Linked(defs) = 1 .. Len(Linked(defs))
           /\ Len(Linked(defs)) \in Nat
           /\ \A i \in DOMAIN Linked(defs) : /\ Linked(defs)[i].start \in Nat
                                             /\ Linked(defs)[i].stop \in Nat
                                             /\ Linked(defs)[i].body \in Nat
<1> DEFINE m == Len(defs)
           link == Linked(defs)
           all == {link[i] : i \in 1 .. m}
<1>1. m \in Nat /\ DOMAIN defs = 1 .. m /\ defs \in [1 .. m -> Capture]
  BY LenProperties
<1>2. DOMAIN link = 1 .. m
  BY <1>1 DEF Linked
<1>3. \A i \in 1 .. m : /\ link[i].start = defs[i].start
                        /\ link[i].stop = defs[i].stop
                        /\ link[i].body = defs[i].body
  BY <1>1 DEF Linked
<1>4. \A i \in 1 .. m : /\ defs[i].start \in Nat /\ defs[i].stop \in Nat
                        /\ defs[i].body \in Nat
  BY <1>1 DEF Capture
<1>5. link = [i \in 1 .. m |-> link[i]]
  BY <1>1 DEF Linked
<1>6. link \in [1 .. m -> all]
  <2> HIDE DEF link
  <2> QED BY <1>5
<1>7. link \in Seq(all)
  <2> HIDE DEF link, all, m
  <2> QED BY <1>1, <1>6, SeqDef
<1>8. Len(link) \in Nat /\ DOMAIN link = 1 .. Len(link)
  <2> HIDE DEF link, all
  <2> QED BY <1>7, LenProperties
<1> QED BY <1>2, <1>3, <1>4, <1>8

\* The facts of a text that parsed are its own captures.
LEMMA ExtractReads ==
    ASSUME NEW text, ~Extract(text).error
    PROVE  /\ Extract(text).defs = Linked(text.defs)
           /\ \A r \in Extract(text).refs : \E q \in text.refs : r.site = q.site
<1>1. text.parses
  <2>1. ~text.parses => Extract(text) = NoFacts
    BY DEF Extract
  <2>2. NoFacts.error
    BY DEF NoFacts
  <2> QED BY <2>1, <2>2
<1> DEFINE defs == Linked(text.defs)
           row(r) == [kind |-> r.kind, name |-> r.name, site |-> r.site,
                      member |-> r.member, receiver |-> r.receiver,
                      scope |-> Enclosing(defs, r.site),
                      self |-> r.receiver # ""
                               /\ IsSelf(defs, Enclosing(defs, r.site), r.receiver)]
           imports == Narrow(Dedup(text.imports))
<1>2. Extract(text) = [error |-> FALSE, defs |-> defs, refs |-> {row(r) : r \in text.refs},
                       imports |-> imports]
  BY <1>1 DEF Extract
<1>3. \A r : row(r).site = r.site
  OBVIOUS
<1> HIDE DEF defs, row, imports
<1>4. Extract(text).refs = {row(r) : r \in text.refs} /\ Extract(text).defs = defs
  BY <1>2
<1> QED BY <1>3, <1>4 DEF defs

\* So they are what the writers rely on, whatever the text.
LEMMA ParsedIsReadable ==
    ASSUME NEW p \in Path, NEW v \in Version, ~FactsOf[p][v].error
    PROVE  Readable(FactsOf[p][v])
<1> DEFINE text == Text[p][v]
           facts == FactsOf[p][v]
<1>1. facts = Extract(text)
  BY DEF FactsOf
<1>2. text.defs \in Seq(Capture) /\ \A r \in text.refs : r.site \in Nat
  BY GraphAssumption
<1>3. /\ facts.defs = Linked(text.defs)
      /\ \A r \in facts.refs : \E q \in text.refs : r.site = q.site
  BY <1>1, ExtractReads
<1> QED BY <1>2, <1>3, LinkedKeepsBytes DEF Readable

\* The definitions write_nodes takes, one after another.
LEMMA KeptUnfolds ==
    ASSUME NEW defs
    PROVE  \E g \in [Nat -> SUBSET Nat] :
              /\ Kept(defs) = g[Len(defs)]
              /\ g[0] = {}
              /\ \A n \in Nat : g[n + 1] = IF \E j \in g[n] : Overlap(defs[n + 1], defs[j])
                                           THEN g[n] ELSE g[n] \cup {n + 1}
<1> DEFINE S == SUBSET Nat
           base == {}
           F == [n \in Nat |-> [q \in S |->
                    IF \E j \in q : Overlap(defs[n], defs[j]) THEN q ELSE q \cup {n}]]
<1>1. F \in [Nat -> [S -> S]] /\ base \in S
  OBVIOUS
<1>2. PICK g \in [Nat -> S] : g[0] = base /\ \A n \in Nat : g[n + 1] = F[n + 1][g[n]]
  <2> HIDE DEF F, S, base
  <2> QED BY <1>1, Recursion
<1>3. ASSUME NEW n \in Nat
      PROVE  g[n + 1] = IF \E j \in g[n] : Overlap(defs[n + 1], defs[j]) THEN g[n]
                        ELSE g[n] \cup {n + 1}
  <2>1. g[n + 1] = F[n + 1][g[n]] /\ g[n] \in S /\ n + 1 \in Nat
    <3> HIDE DEF F, S, base
    <3> QED BY <1>2
  <2>2. F[n + 1] = [q \in S |->
            IF \E j \in q : Overlap(defs[n + 1], defs[j]) THEN q ELSE q \cup {n + 1}]
    BY <2>1
  <2> HIDE DEF F
  <2> QED BY <2>1, <2>2
<1> DEFINE next(n) == IF n = 0 THEN {}
                      ELSE IF \E j \in g[n - 1] : Overlap(defs[n], defs[j]) THEN g[n - 1]
                           ELSE g[n - 1] \cup {n}
<1>4. ASSUME NEW n \in Nat
      PROVE  g[n] = next(n)
  <2> HIDE DEF F, S
  <2>1. CASE n = 0
    BY <1>2, <2>1
  <2>2. CASE n # 0
    <3>1. n - 1 \in Nat /\ (n - 1) + 1 = n
      BY <2>2
    <3> QED BY <1>3, <2>2, <3>1
  <2> QED BY <2>1, <2>2
<1>5. g = [n \in Nat |-> next(n)]
  <2> HIDE DEF F, S, base, next
  <2> QED BY <1>2, <1>4
<1> DEFINE h == CHOOSE u : u = [n \in Nat |->
                             IF n = 0 THEN {}
                             ELSE IF \E j \in u[n - 1] : Overlap(defs[n], defs[j]) THEN u[n - 1]
                                  ELSE u[n - 1] \cup {n}]
<1>6. Kept(defs) = h[Len(defs)]
  BY DEF Kept
<1>7. h = [n \in Nat |-> IF n = 0 THEN {}
                         ELSE IF \E j \in h[n - 1] : Overlap(defs[n], defs[j]) THEN h[n - 1]
                              ELSE h[n - 1] \cup {n}]
  <2>1. \E u : u = [n \in Nat |->
                      IF n = 0 THEN {}
                      ELSE IF \E j \in u[n - 1] : Overlap(defs[n], defs[j]) THEN u[n - 1]
                           ELSE u[n - 1] \cup {n}]
    BY <1>5
  <2> QED BY <2>1
<1> HIDE DEF h, F, S, base
<1>8. h[0] = {}
  BY <1>7
<1>9. ASSUME NEW n \in Nat
      PROVE  h[n + 1] = IF \E j \in h[n] : Overlap(defs[n + 1], defs[j]) THEN h[n]
                        ELSE h[n] \cup {n + 1}
  <2>1. n + 1 \in Nat /\ n + 1 # 0 /\ (n + 1) - 1 = n
    OBVIOUS
  <2> HIDE DEF F, S, base
  <2> QED BY <1>7, <2>1
<1> DEFINE T == {n \in Nat : h[n] \in SUBSET Nat}
<1>10. Nat \subseteq T
  <2>1. 0 \in T
    BY <1>8
  <2>2. ASSUME NEW n \in Nat, n \in T
        PROVE  n + 1 \in T
    <3>1. h[n] \subseteq Nat /\ n + 1 \in Nat
      BY <2>2
    <3>2. h[n + 1] \subseteq h[n] \cup {n + 1}
      BY <1>9
    <3> QED BY <3>1, <3>2
  <2> HIDE DEF T
  <2> QED BY <2>1, <2>2, Inductive
<1>11. h \in [Nat -> SUBSET Nat]
  BY <1>7, <1>10
<1> QED BY <1>6, <1>8, <1>9, <1>11

\* A definition that becomes a node is one of the file's.
LEMMA KeptIsOfDefs ==
    ASSUME NEW defs, Len(defs) \in Nat
    PROVE  Kept(defs) \subseteq 1 .. Len(defs)
<1>1. PICK g \in [Nat -> SUBSET Nat] :
              /\ Kept(defs) = g[Len(defs)]
              /\ g[0] = {}
              /\ \A n \in Nat : g[n + 1] = IF \E j \in g[n] : Overlap(defs[n + 1], defs[j])
                                           THEN g[n] ELSE g[n] \cup {n + 1}
  BY KeptUnfolds
<1> DEFINE T == {n \in Nat : g[n] \subseteq 1 .. n}
<1>2. 0 \in T
  BY <1>1
<1>3. ASSUME NEW n \in Nat, n \in T
      PROVE  n + 1 \in T
  <2>1. 1 .. n \subseteq 1 .. n + 1 /\ n + 1 \in 1 .. n + 1
    OBVIOUS
  <2>2. g[n + 1] \subseteq g[n] \cup {n + 1}
    BY <1>1
  <2> QED BY <1>3, <2>1, <2>2
<1>4. Nat \subseteq T
  <2> HIDE DEF T
  <2> QED BY <1>2, <1>3, Inductive
<1> QED BY <1>1, <1>4

\* A definition becomes a node exactly where its identifier reaches into that of
\* no earlier one that became a node (_overlaps, write_nodes): so no two nodes of
\* a file share a byte of an identifier, and none is left out for nothing.
THEOREM FirstIdentifierWins ==
    ASSUME NEW defs, Len(defs) \in Nat, NEW i \in 1 .. Len(defs)
    PROVE  i \in Kept(defs) <=> ~\E j \in Kept(defs) : j < i /\ Overlap(defs[i], defs[j])
<1>1. PICK g \in [Nat -> SUBSET Nat] :
              /\ Kept(defs) = g[Len(defs)]
              /\ g[0] = {}
              /\ \A n \in Nat : g[n + 1] = IF \E k \in g[n] : Overlap(defs[n + 1], defs[k])
                                           THEN g[n] ELSE g[n] \cup {n + 1}
  BY KeptUnfolds
<1> DEFINE free(n, k) == ~\E j \in g[n] : j < k /\ Overlap(defs[k], defs[j])
           T == {n \in Nat : g[n] \subseteq 1 .. n /\ \A k \in 1 .. n : k \in g[n] <=> free(n, k)}
<1>2. 0 \in T
  BY <1>1
<1>3. ASSUME NEW n \in Nat, n \in T
      PROVE  n + 1 \in T
  <2>1. /\ 1 .. n \subseteq 1 .. n + 1 /\ n + 1 \in 1 .. n + 1
        /\ \A k \in 1 .. n : k < n + 1 /\ ~(n + 1 < k)
        /\ \A k \in 1 .. n + 1 : k \notin 1 .. n => k = n + 1
    OBVIOUS
  <2>2. g[n] \subseteq 1 .. n /\ \A k \in 1 .. n : k \in g[n] <=> free(n, k)
    BY <1>3
  <2>3. g[n + 1] = IF \E k \in g[n] : Overlap(defs[n + 1], defs[k])
                   THEN g[n] ELSE g[n] \cup {n + 1}
    BY <1>1
  <2>4. n + 1 \notin 1 .. n /\ ~(n + 1 < n + 1)
    OBVIOUS
  <2>5. g[n + 1] \subseteq 1 .. n + 1
    BY <2>1, <2>2, <2>3
  <2>6. ASSUME NEW k \in 1 .. n
        PROVE  k \in g[n + 1] <=> free(n + 1, k)
    <3>1. \A j \in g[n + 1] : j < k => j \in g[n]
      BY <2>1, <2>3
    <3>2. free(n + 1, k) <=> free(n, k)
      BY <2>3, <3>1
    <3>3. k \in g[n + 1] <=> k \in g[n]
      BY <2>3, <2>4
    <3> QED BY <2>2, <3>2, <3>3
  <2>7. n + 1 \in g[n + 1] <=> free(n + 1, n + 1)
    <3>1. \A j \in g[n + 1] : j < n + 1 <=> j \in g[n]
      BY <2>1, <2>2, <2>3, <2>4
    <3>2. free(n + 1, n + 1) <=> ~\E j \in g[n] : Overlap(defs[n + 1], defs[j])
      BY <2>3, <3>1
    <3> QED BY <2>2, <2>3, <2>4, <3>2
  <2> HIDE DEF free
  <2> QED BY <2>1, <2>5, <2>6, <2>7
<1>4. Nat \subseteq T
  <2> HIDE DEF T
  <2> QED BY <1>2, <1>3, Inductive
<1> QED BY <1>1, <1>4

NodeFields == {"path", "start", "stop", "body", "kind", "name", "qname", "tier"}

IsNode(n) ==
    /\ n = [field \in NodeFields |-> n[field]]
    /\ n.start \in Nat /\ n.stop \in Nat /\ n.body \in Nat

Ids(nodes) == {Id(n) : n \in nodes}

KeysApart(nodes) == \A n, m \in nodes : Id(n) = Id(m) => n = m

\* The row of a definition is a node of its file, as the parser left it.
LEMMA RowOfOne ==
    ASSUME NEW p, NEW facts, Readable(facts), NEW i \in {0} \cup Kept(facts.defs)
    PROVE  LET row == NodeRow(p, facts, i)
           IN  IsNode(row) /\ row.path = p /\ row.tier = "treesitter"
<1> DEFINE row == NodeRow(p, facts, i)
<1>1. i # 0 => i \in DOMAIN facts.defs
  BY KeptIsOfDefs DEF Readable
<1>2. /\ row = [field \in NodeFields |-> row[field]]
      /\ row.path = p /\ row.tier = "treesitter"
  BY DEF NodeRow, NodeFields
<1>3. row.start \in Nat /\ row.stop \in Nat /\ row.body \in Nat
  <2>1. CASE i = 0
    BY <2>1 DEF NodeRow
  <2>2. CASE i # 0
    <3>1. /\ row.start = facts.defs[i].start /\ row.stop = facts.defs[i].stop
          /\ row.body = facts.defs[i].body
      BY <2>2 DEF NodeRow
    <3> QED BY <1>1, <2>2, <3>1 DEF Readable
  <2> QED BY <2>1, <2>2
<1> QED BY <1>2, <1>3 DEF IsNode

\* write_nodes gives a file one node at each key, and one at the key of every
\* definition it keeps and at that of the module.
LEMMA NodesOfFile ==
    ASSUME NEW p, NEW facts, Readable(facts)
    PROVE  /\ \A n \in NodesOf(p, facts) : IsNode(n) /\ n.path = p /\ n.tier = "treesitter"
           /\ KeysApart(NodesOf(p, facts))
           /\ \A i \in Kept(facts.defs) \cup {Top} : KeyOf(p, facts, i) \in Ids(NodesOf(p, facts))
<1> DEFINE m == Len(facts.defs)
           indices == {0} \cup Kept(facts.defs)
           row(i) == NodeRow(p, facts, i)
           one(i, j) == Id(row(i)) = Id(row(j))
           first(i) == \A j \in indices : one(i, j) => i <= j
           last(i) == \A j \in indices : one(i, j) => j <= i
           pairs == {k \in indices \X indices : one(k[1], k[2]) /\ first(k[1]) /\ last(k[2])}
           node(k) == [row(k[2]) EXCEPT !.body = row(k[1]).body]
<1>1. NodesOf(p, facts) = {node(k) : k \in pairs}
  BY DEF NodesOf
<1>2. m \in Nat /\ indices \subseteq 0 .. m /\ indices \subseteq Nat
  <2>1. m \in Nat /\ Kept(facts.defs) \subseteq 1 .. m
    BY KeptIsOfDefs DEF Readable
  <2>2. 0 \in 0 .. m /\ 1 .. m \subseteq 0 .. m /\ 0 .. m \subseteq Nat
    BY <2>1
  <2> QED BY <2>1, <2>2
<1>3. ASSUME NEW i \in indices
      PROVE  IsNode(row(i)) /\ row(i).path = p /\ row(i).tier = "treesitter"
  BY <1>3, RowOfOne
<1> HIDE DEF row, indices, m
<1>4. ASSUME NEW k \in pairs
      PROVE  /\ IsNode(node(k)) /\ node(k).path = p /\ node(k).tier = "treesitter"
             /\ Id(node(k)) = Id(row(k[2]))
  <2>1. k[1] \in indices /\ k[2] \in indices
    OBVIOUS
  <2>2. IsNode(row(k[1])) /\ IsNode(row(k[2]))
    BY <1>3, <2>1
  <2>3. /\ IsNode(node(k)) /\ node(k).path = row(k[2]).path
        /\ node(k).tier = row(k[2]).tier /\ node(k).start = row(k[2]).start
        /\ node(k).stop = row(k[2]).stop
    BY <2>2 DEF IsNode, NodeFields
  <2> QED BY <1>3, <2>1, <2>3 DEF Id
<1>5. ASSUME NEW k \in pairs, NEW l \in pairs, Id(node(k)) = Id(node(l))
      PROVE  node(k) = node(l)
  <2>1. Id(row(k[2])) = Id(row(l[2]))
    BY <1>4, <1>5
  <2>2. one(k[1], l[1]) /\ one(l[1], k[1]) /\ one(k[2], l[2]) /\ one(l[2], k[2])
    BY <2>1
  <2>3. /\ k[1] \in indices /\ k[2] \in indices /\ l[1] \in indices /\ l[2] \in indices
    OBVIOUS
  <2>4. k[1] <= l[1] /\ l[1] <= k[1] /\ k[2] <= l[2] /\ l[2] <= k[2]
    BY <2>2, <2>3
  <2>5. k[1] = l[1] /\ k[2] = l[2]
    <3>1. \A i, j \in Nat : i <= j /\ j <= i => i = j
      OBVIOUS
    <3> QED BY <1>2, <2>3, <2>4, <3>1
  <2> QED BY <2>5
<1>6. ASSUME NEW i \in indices
      PROVE  Id(row(i)) \in Ids(NodesOf(p, facts))
  <2> DEFINE alike == {j \in indices : one(i, j)}
  <2>1. alike \in SUBSET Nat /\ alike \in SUBSET (0 .. m) /\ alike # {}
    <3>1. alike \subseteq indices /\ i \in alike
      OBVIOUS
    <3> HIDE DEF alike
    <3> QED BY <1>2, <3>1
  <2>2. PICK j \in alike : \A k \in alike : j <= k
    BY <2>1, Least
  <2>3. PICK l \in alike : \A k \in alike : k <= l
    BY <1>2, <2>1, Greatest
  <2>4. <<j, l>> \in pairs
    <3>1. first(j) /\ last(l) /\ one(j, l)
      BY <2>2, <2>3
    <3> QED BY <3>1
  <2>5. node(<<j, l>>) \in NodesOf(p, facts)
    BY <1>1, <2>4
  <2>6. Id(node(<<j, l>>)) = Id(row(l))
    BY <1>4, <2>4
  <2>7. Id(row(l)) = Id(row(i))
    OBVIOUS
  <2> QED BY <2>5, <2>6, <2>7 DEF Ids
<1>7. ASSUME NEW i \in Kept(facts.defs) \cup {Top}
      PROVE  KeyOf(p, facts, i) \in Ids(NodesOf(p, facts))
  <2>1. CASE i = Top
    <3>1. KeyOf(p, facts, i) = Id(row(0))
      BY <2>1 DEF KeyOf, ModuleId, Id, NodeRow, row
    <3>2. 0 \in indices
      BY DEF indices
    <3> QED BY <1>6, <3>1, <3>2
  <2>2. CASE i # Top
    <3>1. i \in indices /\ i # 0
      BY <2>2, KeptIsOfDefs DEF indices, Readable
    <3>2. KeyOf(p, facts, i) = Id(row(i))
      BY <2>2, <3>1 DEF KeyOf, Id, NodeRow, row
    <3> QED BY <1>6, <3>1, <3>2
  <2> QED BY <2>1, <2>2
<1> HIDE DEF node, pairs
<1>8. KeysApart(NodesOf(p, facts))
  BY <1>1, <1>5 DEF KeysApart
<1>9. \A n \in NodesOf(p, facts) : IsNode(n) /\ n.path = p /\ n.tier = "treesitter"
  BY <1>1, <1>4
<1> QED BY <1>7, <1>8, <1>9

\* The call a file makes at a byte, as its own text has it.
CallsAt(facts, site) == \E r \in facts.refs : r.kind = "CALLS" /\ r.site = site

IsOwnEdge(e) ==
    /\ e.conf \in 1 .. 1000 /\ e.evidence # "scip" /\ e.producer = "treesitter"

\* An edge has the fields it is made of.
LEMMA EdgeFields ==
    ASSUME NEW src, NEW dst, NEW kind, NEW conf, NEW count, NEW evidence, NEW site, NEW producer
    PROVE  LET e == Edge(src, dst, kind, conf, count, evidence, site, producer)
           IN  /\ e.src = src /\ e.dst = dst /\ e.kind = kind /\ e.conf = conf
               /\ e.evidence = evidence /\ e.site = site /\ e.producer = producer
BY DEF Edge

\* What a file decides by itself is scored, and never as the compiler would.
LEMMA LocalScores ==
    ASSUME NEW p, NEW facts, NEW r, NEW c \in LocalCandidates(p, facts, r)
    PROVE  c.conf \in 1 .. 1000 /\ c.evidence # "scip"
<1> DEFINE in == LocalInputs(p, facts, r)
           own(s) == IF in.holder # Top /\ s.parent = in.holder
                     THEN Scored(s, SameClass, "same_class")
                     ELSE Scored(s, SameFile, "same_file")
<1>1. LocalCandidates(p, facts, r) = Rank({own(s) : s \in in.pool})
  BY DEF LocalCandidates
<1>2. PICK s \in in.pool : c = own(s)
  BY <1>1 DEF Rank
<1> QED BY <1>2 DEF Scored, SameClass, SameFile

\* structural_edges and reference_edges stay inside the file, between nodes it
\* has, and a call has its reference.
LEMMA EdgesOfFile ==
    ASSUME NEW p, NEW facts, Readable(facts),
           NEW e \in StructuralEdges(p, facts) \cup ReferenceEdges(p, facts)
    PROVE  /\ e.src \in Ids(NodesOf(p, facts)) /\ e.dst \in Ids(NodesOf(p, facts))
           /\ IsOwnEdge(e)
           /\ e.kind = "CALLS" => CallsAt(facts, e.site)
<1> DEFINE kept == Kept(facts.defs)
           held(i) == facts.defs[i].parent \in kept
           key(i) == KeyOf(p, facts, i)
           nodeIds == Ids(NodesOf(p, facts))
<1>1. \A i \in kept \cup {Top} : key(i) \in nodeIds
  BY NodesOfFile
<1>2. CASE e \in StructuralEdges(p, facts)
  <2>1. PICK i \in kept :
           e = Edge(key(IF held(i) THEN facts.defs[i].parent ELSE Top), key(i),
                    IF held(i) THEN "CONTAINS" ELSE "DEFINES",
                    1000, 1, "same_file", 0, "treesitter")
    BY <1>2 DEF StructuralEdges
  <2> DEFINE from == IF held(i) THEN facts.defs[i].parent ELSE Top
             kind == IF held(i) THEN "CONTAINS" ELSE "DEFINES"
  <2>2. from \in kept \cup {Top} /\ kind # "CALLS"
    OBVIOUS
  <2> HIDE DEF key, from, kind, kept, held, nodeIds
  <2>3. /\ e.src = key(from) /\ e.dst = key(i) /\ e.kind = kind /\ e.conf = 1000
        /\ e.evidence = "same_file" /\ e.producer = "treesitter"
    BY <2>1, EdgeFields DEF from, kind
  <2>4. e.src \in nodeIds /\ e.dst \in nodeIds
    BY <1>1, <2>2, <2>3
  <2> QED BY <2>2, <2>3, <2>4 DEF IsOwnEdge, nodeIds
<1>3. CASE e \in ReferenceEdges(p, facts)
  <2>0. PICK r \in facts.refs : r.scope \in kept \cup {Top} /\
           \E c \in LocalCandidates(p, facts, r) :
              /\ c.key \in kept
              /\ e = Edge(key(r.scope), key(c.key), r.kind, c.conf,
                          Cardinality(LocalCandidates(p, facts, r)), c.evidence, r.site,
                          "treesitter")
    BY <1>3 DEF ReferenceEdges
  <2>1. PICK c \in LocalCandidates(p, facts, r) :
              /\ c.key \in kept
              /\ e = Edge(key(r.scope), key(c.key), r.kind, c.conf,
                          Cardinality(LocalCandidates(p, facts, r)), c.evidence, r.site,
                          "treesitter")
    BY <2>0
  <2> HIDE DEF key, kept, held, nodeIds
  <2>2. /\ e.src = key(r.scope) /\ e.dst = key(c.key) /\ e.kind = r.kind /\ e.conf = c.conf
        /\ e.evidence = c.evidence /\ e.producer = "treesitter" /\ e.site = r.site
    BY <2>1, EdgeFields
  <2>3. e.src \in nodeIds /\ e.dst \in nodeIds
    BY <1>1, <2>0, <2>1, <2>2
  <2>4. c.conf \in 1 .. 1000 /\ c.evidence # "scip"
    BY <2>1, LocalScores
  <2> QED BY <2>2, <2>3, <2>4 DEF IsOwnEdge, CallsAt, nodeIds
<1> QED BY <1>2, <1>3

\* A stored reference is one the file makes.
LEMMA RefsOfFile ==
    ASSUME NEW p, NEW facts, NEW r \in RefsOf(p, facts)
    PROVE  /\ r.path = p
           /\ \E q \in facts.refs : r.kind = q.kind /\ r.site = q.site
BY DEF RefsOf

----------------------------------------------------------------------------
(* What a pass writes of several files: `texts` maps some of them to the    *)
(* version of their text, as the table of a store does.                     *)

Texts(texts) == /\ DOMAIN texts \subseteq Path
                /\ \A p \in DOMAIN texts : texts[p] \in Version \cup {Gone}

FactIn(texts, p) == FactsOf[p][texts[p]]

Parsed(texts) == {p \in DOMAIN texts : texts[p] # Gone /\ ~FactIn(texts, p).error}

NodeRows(texts) == UNION {NodesOf(p, FactIn(texts, p)) : p \in Parsed(texts)}

EdgeRows(texts) ==
    UNION {StructuralEdges(p, FactIn(texts, p)) \cup ReferenceEdges(p, FactIn(texts, p)) :
              p \in Parsed(texts)}

RefRows(texts) == UNION {RefsOf(p, FactIn(texts, p)) : p \in Parsed(texts)}

Imported(texts) == [p \in Path |-> IF p \in Parsed(texts) THEN FactIn(texts, p).imports ELSE <<>>]

\* A file that parsed is one of the tree, and its facts can be read.
LEMMA ParsedText ==
    ASSUME NEW texts, Texts(texts), NEW p \in Parsed(texts)
    PROVE  p \in Path /\ texts[p] \in Version /\ Readable(FactIn(texts, p))
<1>1. p \in Path /\ texts[p] \in Version /\ ~FactsOf[p][texts[p]].error
  BY DEF Texts, Parsed, FactIn
<1> QED BY <1>1, ParsedIsReadable DEF FactIn

\* The nodes of several files are still one to a key: a key says its file.
LEMMA NodesOfTexts ==
    ASSUME NEW texts, Texts(texts)
    PROVE  /\ \A n \in NodeRows(texts) :
                 IsNode(n) /\ n.tier = "treesitter" /\ n.path \in Parsed(texts)
           /\ KeysApart(NodeRows(texts))
<1>1. ASSUME NEW p \in Parsed(texts)
      PROVE  /\ \A n \in NodesOf(p, FactIn(texts, p)) :
                    IsNode(n) /\ n.path = p /\ n.tier = "treesitter"
             /\ KeysApart(NodesOf(p, FactIn(texts, p)))
  BY <1>1, ParsedText, NodesOfFile
<1>2. \A n \in NodeRows(texts) :
          IsNode(n) /\ n.tier = "treesitter" /\ n.path \in Parsed(texts)
  BY <1>1 DEF NodeRows
<1>3. ASSUME NEW n \in NodeRows(texts), NEW m \in NodeRows(texts), Id(n) = Id(m)
      PROVE  n = m
  <2>1. PICK p \in Parsed(texts) : n \in NodesOf(p, FactIn(texts, p))
    BY DEF NodeRows
  <2>2. PICK q \in Parsed(texts) : m \in NodesOf(q, FactIn(texts, q))
    BY DEF NodeRows
  <2>3. n.path = m.path
    BY <1>3 DEF Id
  <2>4. p = q
    BY <1>1, <2>1, <2>2, <2>3
  <2> QED BY <1>1, <1>3, <2>1, <2>2, <2>4 DEF KeysApart
<1> QED BY <1>2, <1>3 DEF KeysApart

\* Every row of a file says which file it is of.
LEMMA PathsOfFile ==
    ASSUME NEW texts, Texts(texts), NEW p \in Parsed(texts)
    PROVE  /\ \A n \in NodesOf(p, FactIn(texts, p)) : n.path = p
           /\ \A e \in StructuralEdges(p, FactIn(texts, p))
                         \cup ReferenceEdges(p, FactIn(texts, p)) :
                 e.src.path = p /\ e.dst.path = p
           /\ \A r \in RefsOf(p, FactIn(texts, p)) : r.path = p
<1> DEFINE facts == FactIn(texts, p)
<1>1. Readable(facts)
  BY ParsedText
<1> HIDE DEF facts
<1>2. \A n \in NodesOf(p, facts) : n.path = p
  BY <1>1, NodesOfFile
<1>3. \A id \in Ids(NodesOf(p, facts)) : id.path = p
  BY <1>2 DEF Ids, Id
<1>4. ASSUME NEW e \in StructuralEdges(p, facts) \cup ReferenceEdges(p, facts)
      PROVE  e.src.path = p /\ e.dst.path = p
  BY <1>1, <1>3, EdgesOfFile
<1>5. \A r \in RefsOf(p, facts) : r.path = p
  BY RefsOfFile
<1> QED BY <1>2, <1>4, <1>5 DEF facts

\* The edges of several files run inside each of them.
LEMMA EdgesOfTexts ==
    ASSUME NEW texts, Texts(texts), NEW e \in EdgeRows(texts)
    PROVE  /\ e.src \in Ids(NodeRows(texts)) /\ e.dst \in Ids(NodeRows(texts))
           /\ e.src.path = e.dst.path /\ e.src.path \in Parsed(texts)
           /\ IsOwnEdge(e)
           /\ e.kind = "CALLS" => CallsAt(FactIn(texts, e.src.path), e.site)
<1>1. PICK p \in Parsed(texts) :
         e \in StructuralEdges(p, FactIn(texts, p)) \cup ReferenceEdges(p, FactIn(texts, p))
  BY DEF EdgeRows
<1> DEFINE facts == FactIn(texts, p)
<1>2. Readable(facts)
  BY ParsedText
<1> HIDE DEF facts
<1>3. /\ e.src \in Ids(NodesOf(p, facts)) /\ e.dst \in Ids(NodesOf(p, facts))
      /\ IsOwnEdge(e)
      /\ e.kind = "CALLS" => CallsAt(facts, e.site)
  BY <1>1, <1>2, EdgesOfFile DEF facts
<1>4. e.src.path = p /\ e.dst.path = p
  BY <1>1, PathsOfFile
<1>5. Ids(NodesOf(p, facts)) \subseteq Ids(NodeRows(texts))
  BY DEF Ids, NodeRows, facts
<1> QED BY <1>3, <1>4, <1>5 DEF facts

\* The references of several files are theirs, and a call is a call of its text.
LEMMA RefsOfTexts ==
    ASSUME NEW texts, Texts(texts), NEW r \in RefRows(texts)
    PROVE  /\ r.path \in Parsed(texts) /\ r.site \in Nat
           /\ r.kind = "CALLS" => CallsAt(FactIn(texts, r.path), r.site)
<1>1. PICK p \in Parsed(texts) : r \in RefsOf(p, FactIn(texts, p))
  BY DEF RefRows
<1>2. Readable(FactIn(texts, p))
  BY ParsedText
<1>3. r.path = p /\ \E q \in FactIn(texts, p).refs : r.kind = q.kind /\ r.site = q.site
  BY <1>1, RefsOfFile
<1> QED BY <1>2, <1>3 DEF Readable, CallsAt

\* A call with an edge is one its file decides.
LEMMA CallsDecided ==
    ASSUME NEW texts, Texts(texts), NEW e \in EdgeRows(texts), e.kind = "CALLS"
    PROVE  \E q \in FactIn(texts, e.src.path).refs :
              /\ q.kind = "CALLS" /\ q.site = e.site
              /\ Decided(e.src.path, FactIn(texts, e.src.path), q)
<1>1. PICK p \in Parsed(texts) :
         e \in StructuralEdges(p, FactIn(texts, p)) \cup ReferenceEdges(p, FactIn(texts, p))
  BY DEF EdgeRows
<1> DEFINE facts == FactIn(texts, p)
<1>2. e.src.path = p
  BY <1>1, PathsOfFile
<1> HIDE DEF facts
<1>3. e \notin StructuralEdges(p, facts)
  BY EdgeFields DEF StructuralEdges
<1>4. PICK q \in facts.refs : /\ Decided(p, facts, q)
                              /\ \E c \in LocalCandidates(p, facts, q) :
                                    e = Edge(KeyOf(p, facts, q.scope), KeyOf(p, facts, c.key), q.kind,
                                             c.conf, Cardinality(LocalCandidates(p, facts, q)),
                                             c.evidence, q.site, "treesitter")
  BY <1>1, <1>3 DEF ReferenceEdges, facts
<1>5. e.kind = q.kind /\ e.site = q.site
  BY <1>4, EdgeFields
<1> QED BY <1>2, <1>4, <1>5 DEF facts

\* And a row is a call its file does not decide.
LEMMA RowsUndecided ==
    ASSUME NEW texts, NEW r \in RefRows(texts)
    PROVE  \E q \in FactIn(texts, r.path).refs :
              /\ ~Decided(r.path, FactIn(texts, r.path), q)
              /\ r.kind = q.kind /\ r.name = q.name /\ r.site = q.site
              /\ r.member = q.member /\ r.receiver = q.receiver /\ r.self = q.self
<1>1. PICK p \in Parsed(texts) : r \in RefsOf(p, FactIn(texts, p))
  BY DEF RefRows
<1> QED BY <1>1 DEF RefsOf

\* Fewer files, and more of them.
Without(texts, ps) == [p \in Path |-> IF p \in ps THEN Gone ELSE texts[p]]

\* Without some files the rows are those of the others: this is why deleting by
\* path undoes a write.
LEMMA RowsWithout ==
    ASSUME NEW texts, Texts(texts), DOMAIN texts = Path, NEW ps
    PROVE  /\ Texts(Without(texts, ps))
           /\ Parsed(Without(texts, ps)) = Parsed(texts) \ ps
           /\ \A p \in Path \ ps : Without(texts, ps)[p] = texts[p]
           /\ NodeRows(Without(texts, ps)) = {n \in NodeRows(texts) : n.path \notin ps}
           /\ EdgeRows(Without(texts, ps)) = {e \in EdgeRows(texts) : e.src.path \notin ps}
           /\ RefRows(Without(texts, ps)) = {r \in RefRows(texts) : r.path \notin ps}
<1> DEFINE left == Without(texts, ps)
<1>1. /\ DOMAIN left = Path
      /\ \A p \in Path : left[p] = IF p \in ps THEN Gone ELSE texts[p]
  BY DEF Without
<1> HIDE DEF left
<1>2. Texts(left)
  BY <1>1 DEF Texts
<1>3. \A p \in Path \ ps : FactIn(left, p) = FactIn(texts, p)
  BY <1>1 DEF FactIn
<1>4. Parsed(left) = Parsed(texts) \ ps
  BY <1>1, <1>3 DEF Parsed
<1>5. \A p \in Parsed(left) : FactIn(left, p) = FactIn(texts, p)
  BY <1>3, <1>4 DEF Parsed
<1>6. NodeRows(left) = {n \in NodeRows(texts) : n.path \notin ps}
  BY <1>4, <1>5, PathsOfFile DEF NodeRows
<1>7. EdgeRows(left) = {e \in EdgeRows(texts) : e.src.path \notin ps}
  BY <1>4, <1>5, PathsOfFile DEF EdgeRows
<1>8. RefRows(left) = {r \in RefRows(texts) : r.path \notin ps}
  BY <1>4, <1>5, PathsOfFile DEF RefRows
<1>9. \A p \in Path \ ps : left[p] = texts[p]
  BY <1>1
<1> QED BY <1>2, <1>4, <1>6, <1>7, <1>8, <1>9 DEF left

With(files, texts) == [p \in Path |-> IF p \in DOMAIN texts THEN texts[p] ELSE files[p]]

\* With some more files the rows of those come on top.
LEMMA RowsWith ==
    ASSUME NEW files, Texts(files), DOMAIN files = Path, NEW texts, Texts(texts),
           \A p \in DOMAIN texts : files[p] = Gone
    PROVE  /\ Texts(With(files, texts))
           /\ Parsed(With(files, texts)) = Parsed(files) \cup Parsed(texts)
           /\ \A p \in Path : files[p] # Gone => With(files, texts)[p] = files[p]
           /\ \A p \in DOMAIN texts : With(files, texts)[p] = texts[p]
           /\ NodeRows(With(files, texts)) = NodeRows(files) \cup NodeRows(texts)
           /\ EdgeRows(With(files, texts)) = EdgeRows(files) \cup EdgeRows(texts)
           /\ RefRows(With(files, texts)) = RefRows(files) \cup RefRows(texts)
<1> DEFINE both == With(files, texts)
<1>1. /\ DOMAIN both = Path
      /\ \A p \in Path : both[p] = IF p \in DOMAIN texts THEN texts[p] ELSE files[p]
  BY DEF With
<1> HIDE DEF both
<1>2. Texts(both)
  BY <1>1 DEF Texts
<1>3. /\ \A p \in Path : files[p] # Gone => both[p] = files[p]
      /\ \A p \in DOMAIN texts : both[p] = texts[p]
  BY <1>1 DEF Texts
<1>4. /\ \A p \in Parsed(files) : p \in Path /\ both[p] = files[p]
      /\ \A p \in Parsed(texts) : p \in Path /\ both[p] = texts[p]
  BY <1>3 DEF Parsed, Texts
<1>5. /\ \A p \in Parsed(files) : FactIn(both, p) = FactIn(files, p)
      /\ \A p \in Parsed(texts) : FactIn(both, p) = FactIn(texts, p)
  BY <1>4 DEF FactIn
<1>6. Parsed(both) = Parsed(files) \cup Parsed(texts)
  <2>1. Parsed(files) \cup Parsed(texts) \subseteq Parsed(both)
    BY <1>1, <1>4, <1>5 DEF Parsed
  <2>2. Parsed(both) \subseteq Parsed(files) \cup Parsed(texts)
    BY <1>1, <1>3 DEF Parsed, FactIn
  <2> QED BY <2>1, <2>2
<1>7. NodeRows(both) = NodeRows(files) \cup NodeRows(texts)
  BY <1>5, <1>6 DEF NodeRows
<1>8. EdgeRows(both) = EdgeRows(files) \cup EdgeRows(texts)
  BY <1>5, <1>6 DEF EdgeRows
<1>9. RefRows(both) = RefRows(files) \cup RefRows(texts)
  BY <1>5, <1>6 DEF RefRows
<1> QED BY <1>2, <1>3, <1>6, <1>7, <1>8, <1>9 DEF both

----------------------------------------------------------------------------
(* The tables of a store, and the fields of a pass.                         *)

\* The shapes of the two records the steps update.
Tables == {"files", "nodes", "edges", "refs", "imports", "fts", "scip", "stamped"}
IsStore(s) == s = [table \in Tables |-> s[table]]

PassFields == {"work", "rewrote", "left", "said", "wrote", "moved"}
IsPass(t) == t = [field \in PassFields |-> t[field]]

Postings(nodes) == {Posting(n) : n \in nodes}

\* forget_files, table by table.
LEMMA ForgetFields ==
    ASSUME NEW s, NEW ps, IsStore(s)
    PROVE  LET f == Forget(s, ps)
           IN  /\ IsStore(f)
               /\ f.files = Without(s.files, ps)
               /\ f.nodes = {n \in s.nodes : n.path \notin ps}
               /\ f.edges = {e \in s.edges : e.src.path \notin ps /\ e.dst.path \notin ps}
               /\ f.refs = {r \in s.refs : r.path \notin ps}
               /\ f.imports = [p \in Path |-> IF p \in ps THEN <<>> ELSE s.imports[p]]
               /\ f.fts = s.fts \ Postings({n \in s.nodes : n.path \in ps})
               /\ f.scip = s.scip /\ f.stamped = s.stamped
<1> DEFINE files == Without(s.files, ps)
           nodes == {n \in s.nodes : n.path \notin ps}
           edges == {e \in s.edges : e.src.path \notin ps /\ e.dst.path \notin ps}
           refs == {r \in s.refs : r.path \notin ps}
           imports == [p \in Path |-> IF p \in ps THEN <<>> ELSE s.imports[p]]
           fts == s.fts \ Postings({n \in s.nodes : n.path \in ps})
<1>1. Forget(s, ps) = [s EXCEPT !.files = files, !.nodes = nodes, !.edges = edges,
                                !.refs = refs, !.imports = imports, !.fts = fts]
  BY DEF Forget, Postings, Without
<1> HIDE DEF files, nodes, edges, refs, imports, fts
<1>2. /\ IsStore(Forget(s, ps))
      /\ Forget(s, ps).files = files /\ Forget(s, ps).nodes = nodes
      /\ Forget(s, ps).edges = edges /\ Forget(s, ps).refs = refs
      /\ Forget(s, ps).imports = imports /\ Forget(s, ps).fts = fts
      /\ Forget(s, ps).scip = s.scip /\ Forget(s, ps).stamped = s.stamped
  BY <1>1 DEF IsStore, Tables
<1> QED BY <1>2 DEF files, nodes, edges, refs, imports, fts

\* The writers, table by table.
LEMMA WrittenFields ==
    ASSUME NEW s, NEW texts, IsStore(s), \A p \in DOMAIN texts : texts[p] # Gone
    PROVE  LET w == Written(s, texts)
           IN  /\ IsStore(w)
               /\ w.files = With(s.files, texts)
               /\ w.nodes = s.nodes \cup NodeRows(texts)
               /\ w.edges = s.edges \cup EdgeRows(texts)
               /\ w.refs = s.refs \cup RefRows(texts)
               /\ w.imports = [p \in Path |-> IF p \in Parsed(texts) THEN FactIn(texts, p).imports
                                              ELSE s.imports[p]]
               /\ w.fts = s.fts \cup Postings(NodeRows(texts))
               /\ w.scip = s.scip /\ w.stamped = s.stamped
<1> DEFINE facts == [p \in DOMAIN texts |-> FactsOf[p][texts[p]]]
           table == {p \in DOMAIN texts : ~facts[p].error}
           nodes == UNION {NodesOf(p, facts[p]) : p \in table}
           edges == UNION {StructuralEdges(p, facts[p]) \cup ReferenceEdges(p, facts[p]) :
                              p \in table}
           refs == UNION {RefsOf(p, facts[p]) : p \in table}
           files == With(s.files, texts)
           imports == [p \in Path |-> IF p \in table THEN facts[p].imports ELSE s.imports[p]]
           fts == s.fts \cup Postings(nodes)
<1>1. Written(s, texts) = [s EXCEPT !.files = files, !.nodes = s.nodes \cup nodes,
                                    !.edges = s.edges \cup edges, !.refs = s.refs \cup refs,
                                    !.imports = imports, !.fts = fts]
  BY DEF Written, Posted, Postings, FileRows, ImportRows, With
<1>2. \A p \in table : facts[p] = FactIn(texts, p)
  BY DEF FactIn
<1>3. table = Parsed(texts)
  BY DEF Parsed, FactIn
<1> HIDE DEF facts, table
<1>4. /\ nodes = NodeRows(texts) /\ edges = EdgeRows(texts) /\ refs = RefRows(texts)
      /\ imports = [p \in Path |-> IF p \in Parsed(texts) THEN FactIn(texts, p).imports
                                   ELSE s.imports[p]]
  BY <1>2, <1>3 DEF NodeRows, EdgeRows, RefRows
<1> HIDE DEF files, nodes, edges, refs, imports, fts
<1>5. /\ IsStore(Written(s, texts))
      /\ Written(s, texts).files = files /\ Written(s, texts).nodes = s.nodes \cup nodes
      /\ Written(s, texts).edges = s.edges \cup edges /\ Written(s, texts).refs = s.refs \cup refs
      /\ Written(s, texts).imports = imports /\ Written(s, texts).fts = fts
      /\ Written(s, texts).scip = s.scip /\ Written(s, texts).stamped = s.stamped
  BY <1>1 DEF IsStore, Tables
<1> QED BY <1>4, <1>5 DEF files, fts

----------------------------------------------------------------------------
(* What is stored, and why.                                                 *)

Places(nodes) == {Place(n) : n \in nodes}

\* The tables have their shapes, and a node is the only one at its bytes.
InOrder(s) ==
    /\ IsStore(s)
    /\ s.files \in [Path -> Version \cup {Gone}]
    /\ s.scip \in BOOLEAN /\ s.stamped \in BOOLEAN
    /\ \A n \in s.nodes : IsNode(n)
    /\ KeysApart(s.nodes)

\* The rows are those of the stored texts, as far as the overlay leaves them.
AsWritten(s) ==
    /\ s.refs = RefRows(s.files)
    /\ s.imports = Imported(s.files)
    /\ Places(s.nodes) = Places(NodeRows(s.files))
    /\ {n \in s.nodes : n.tier = "treesitter"} \subseteq NodeRows(s.files)
    /\ {e \in s.edges : e.producer # Tool} \subseteq EdgeRows(s.files)
    /\ \A e \in EdgeRows(s.files) \ s.edges : e.kind = "CALLS"

\* Edges run between nodes, and a call is a call of the text it stands in,
\* whoever said where it goes.
EdgesHold(s) ==
    \A e \in s.edges :
        /\ e.src \in Ids(s.nodes) /\ e.dst \in Ids(s.nodes) /\ e.conf \in 1 .. 1000
        /\ e.kind = "CALLS" => CallsAt(FactIn(s.files, e.src.path), e.site)

ByCompiler(e) == e.evidence = "scip" /\ e.kind = "CALLS"

\* Where the compiler decided, no other candidate is left.
Alone(s) == \A e \in s.edges : ByCompiler(e) => CallEdges(s, e.src.path, e.site) = {e}

\* The documents of two texts name the target of the edge at its site.
DocumentsSay(files, e) ==
    LET p == e.src.path
        q == e.dst.path
    IN  \E o \in Document[p][files[p]].refs, d \in Document[q][files[q]].defs :
           /\ o.site = e.site /\ o.symbol = d.symbol
           /\ e.dst = [path |-> q, start |-> d.start, stop |-> d.stop]

\* So they do wherever no file moved under the pass that wrote it.
SaidOutside(s, moved) ==
    \A e \in s.edges : ByCompiler(e) /\ {e.src.path, e.dst.path} \cap moved = {}
                          => DocumentsSay(s.files, e)

\* What the tool writes carries its evidence.
Signed(s) == \A e \in s.edges : e.producer = Tool => e.evidence = "scip"

Whole(s) == InOrder(s) /\ AsWritten(s) /\ EdgesHold(s) /\ Alone(s) /\ Signed(s)

\* Nodes at the same places have the same keys.
LEMMA SamePlaces ==
    ASSUME NEW left, NEW right, Places(left) = Places(right)
    PROVE  Ids(left) = Ids(right)
<1>1. \A n : Place(n).id = Id(n)
  BY DEF Place
<1>2. \A nodes : Ids(nodes) = {x.id : x \in Places(nodes)}
  BY <1>1 DEF Ids, Places
<1> QED BY <1>2

\* A key, and a place, say the file.
LEMMA IdTells ==
    ASSUME NEW n
    PROVE  Id(n).path = n.path /\ Place(n).id = Id(n)
BY DEF Id, Place

\* In a store that is whole every row is of a stored file that parsed.
LEMMA WholePaths ==
    ASSUME NEW s, Whole(s)
    PROVE  /\ Texts(s.files) /\ DOMAIN s.files = Path
           /\ Ids(s.nodes) = Ids(NodeRows(s.files))
           /\ \A n \in s.nodes : n.path \in Parsed(s.files)
           /\ \A e \in s.edges : e.src.path \in Parsed(s.files) /\ e.dst.path \in Parsed(s.files)
           /\ \A p \in Parsed(s.files) : p \in Path /\ s.files[p] # Gone
<1>1. Texts(s.files) /\ DOMAIN s.files = Path
  BY DEF Whole, InOrder, Texts
<1>2. Ids(s.nodes) = Ids(NodeRows(s.files))
  BY SamePlaces DEF Whole, AsWritten
<1>3. \A id \in Ids(s.nodes) : id.path \in Parsed(s.files)
  <2>1. \A n \in NodeRows(s.files) : Id(n).path \in Parsed(s.files)
    BY <1>1, NodesOfTexts, IdTells
  <2> QED BY <1>2, <2>1 DEF Ids
<1>4. \A n \in s.nodes : n.path \in Parsed(s.files)
  BY <1>3, IdTells DEF Ids
<1>5. \A e \in s.edges : e.src.path \in Parsed(s.files) /\ e.dst.path \in Parsed(s.files)
  BY <1>3 DEF Whole, EdgesHold
<1>6. \A p \in Parsed(s.files) : p \in Path /\ s.files[p] # Gone
  BY <1>1 DEF Parsed
<1> QED BY <1>1, <1>2, <1>4, <1>5, <1>6

\* Forgetting files leaves the store of the others, and with it clears them of
\* what moved under an earlier pass.
LEMMA ForgetWhole ==
    ASSUME NEW s, NEW ps, Whole(s)
    PROVE  /\ Whole(Forget(s, ps))
           /\ \A moved : SaidOutside(s, moved) => SaidOutside(Forget(s, ps), moved \ ps)
<1> DEFINE f == Forget(s, ps)
<1>0. IsStore(s)
  BY DEF Whole, InOrder
<1>1. /\ IsStore(f)
      /\ f.files = Without(s.files, ps)
      /\ f.nodes = {n \in s.nodes : n.path \notin ps}
      /\ f.edges = {e \in s.edges : e.src.path \notin ps /\ e.dst.path \notin ps}
      /\ f.refs = {r \in s.refs : r.path \notin ps}
      /\ f.imports = [p \in Path |-> IF p \in ps THEN <<>> ELSE s.imports[p]]
      /\ f.scip = s.scip /\ f.stamped = s.stamped
  BY <1>0, ForgetFields
<1> HIDE DEF f
<1>2. Texts(s.files) /\ DOMAIN s.files = Path
  BY WholePaths
<1>3. /\ Parsed(f.files) = Parsed(s.files) \ ps
      /\ \A p \in Path \ ps : f.files[p] = s.files[p]
      /\ NodeRows(f.files) = {n \in NodeRows(s.files) : n.path \notin ps}
      /\ EdgeRows(f.files) = {e \in EdgeRows(s.files) : e.src.path \notin ps}
      /\ RefRows(f.files) = {r \in RefRows(s.files) : r.path \notin ps}
  BY <1>1, <1>2, RowsWithout
<1>4. InOrder(f)
  <2>1. f.files \in [Path -> Version \cup {Gone}]
    BY <1>1 DEF Without, Whole, InOrder
  <2>2. (\A n \in f.nodes : IsNode(n)) /\ KeysApart(f.nodes)
    BY <1>1 DEF Whole, InOrder, KeysApart
  <2> QED BY <1>1, <2>1, <2>2 DEF Whole, InOrder
<1>5. AsWritten(f)
  <2>1. f.refs = RefRows(f.files)
    BY <1>1, <1>3 DEF Whole, AsWritten
  <2>2. f.imports = Imported(f.files)
    <3>1. ASSUME NEW p \in Path
          PROVE  (IF p \in ps THEN <<>> ELSE s.imports[p]) =
                   (IF p \in Parsed(f.files) THEN FactIn(f.files, p).imports ELSE <<>>)
      <4>1. s.imports[p] = IF p \in Parsed(s.files) THEN FactIn(s.files, p).imports ELSE <<>>
        BY DEF Whole, AsWritten, Imported
      <4>2. p \notin ps => FactIn(f.files, p) = FactIn(s.files, p)
        BY <1>3 DEF FactIn
      <4> QED BY <1>3, <4>1, <4>2
    <3> QED BY <1>1, <3>1 DEF Imported
  <2>3. Places(f.nodes) = Places(NodeRows(f.files))
    <3>1. \A n, m : Place(n) = Place(m) => n.path = m.path
      BY IdTells
    <3>2. Places(s.nodes) = Places(NodeRows(s.files))
      BY DEF Whole, AsWritten
    <3>3. ASSUME NEW n \in f.nodes
          PROVE  Place(n) \in Places(NodeRows(f.files))
      <4>1. n \in s.nodes /\ n.path \notin ps
        BY <1>1
      <4>2. PICK m \in NodeRows(s.files) : Place(n) = Place(m)
        BY <3>2, <4>1 DEF Places
      <4>3. m \in NodeRows(f.files)
        BY <1>3, <3>1, <4>1, <4>2
      <4> QED BY <4>2, <4>3 DEF Places
    <3>4. ASSUME NEW n \in NodeRows(f.files)
          PROVE  Place(n) \in Places(f.nodes)
      <4>1. n \in NodeRows(s.files) /\ n.path \notin ps
        BY <1>3
      <4>2. PICK m \in s.nodes : Place(n) = Place(m)
        BY <3>2, <4>1 DEF Places
      <4>3. m \in f.nodes
        BY <1>1, <3>1, <4>1, <4>2
      <4> QED BY <4>2, <4>3 DEF Places
    <3> QED BY <3>3, <3>4 DEF Places
  <2>4. {n \in f.nodes : n.tier = "treesitter"} \subseteq NodeRows(f.files)
    BY <1>1, <1>3 DEF Whole, AsWritten
  <2>5. {e \in f.edges : e.producer # Tool} \subseteq EdgeRows(f.files)
    BY <1>1, <1>3 DEF Whole, AsWritten
  <2>6. \A e \in EdgeRows(f.files) \ f.edges : e.kind = "CALLS"
    <3>1. \A e \in EdgeRows(s.files) : e.src.path = e.dst.path
      BY <1>2, EdgesOfTexts
    <3> QED BY <1>1, <1>3, <3>1 DEF Whole, AsWritten
  <2> QED BY <2>1, <2>2, <2>3, <2>4, <2>5, <2>6 DEF AsWritten
<1>6. EdgesHold(f)
  <2> SUFFICES ASSUME NEW e \in f.edges
               PROVE  /\ e.src \in Ids(f.nodes) /\ e.dst \in Ids(f.nodes)
                      /\ e.conf \in 1 .. 1000
                      /\ e.kind = "CALLS" => CallsAt(FactIn(f.files, e.src.path), e.site)
    BY DEF EdgesHold
  <2>1. /\ e \in s.edges /\ e.src.path \notin ps /\ e.dst.path \notin ps
        /\ e.src \in Ids(s.nodes) /\ e.dst \in Ids(s.nodes) /\ e.conf \in 1 .. 1000
        /\ e.kind = "CALLS" => CallsAt(FactIn(s.files, e.src.path), e.site)
    BY <1>1 DEF Whole, EdgesHold
  <2>2. \A id \in Ids(s.nodes) : id.path \notin ps => id \in Ids(f.nodes)
    BY <1>1, IdTells DEF Ids
  <2>3. FactIn(f.files, e.src.path) = FactIn(s.files, e.src.path)
    BY <1>3, <2>1, WholePaths DEF FactIn
  <2> QED BY <2>1, <2>2, <2>3
<1>7. Alone(f) /\ Signed(f)
  BY <1>1 DEF Whole, Alone, Signed, CallEdges
<1>8. ASSUME NEW moved, SaidOutside(s, moved)
      PROVE  SaidOutside(f, moved \ ps)
  <2> SUFFICES ASSUME NEW e \in f.edges, ByCompiler(e),
                      {e.src.path, e.dst.path} \cap (moved \ ps) = {}
               PROVE  DocumentsSay(f.files, e)
    BY DEF SaidOutside
  <2>1. e \in s.edges /\ e.src.path \notin ps /\ e.dst.path \notin ps
    BY <1>1
  <2>2. {e.src.path, e.dst.path} \cap moved = {}
    BY <2>1
  <2>3. DocumentsSay(s.files, e)
    BY <1>8, <2>1, <2>2 DEF SaidOutside
  <2>4. e.src.path \in Path /\ e.dst.path \in Path
    BY <2>1, WholePaths
  <2>5. f.files[e.src.path] = s.files[e.src.path] /\ f.files[e.dst.path] = s.files[e.dst.path]
    BY <1>3, <2>1, <2>4
  <2> QED BY <2>3, <2>5 DEF DocumentsSay
<1> QED BY <1>4, <1>5, <1>6, <1>7, <1>8 DEF Whole, f

\* Writing files that have no row gives the store of both.
LEMMA WrittenWhole ==
    ASSUME NEW s, NEW texts, Whole(s), Texts(texts),
           \A p \in DOMAIN texts : texts[p] # Gone /\ s.files[p] = Gone
    PROVE  /\ Whole(Written(s, texts))
           /\ \A moved : SaidOutside(s, moved) => SaidOutside(Written(s, texts), moved)
<1> DEFINE w == Written(s, texts)
<1>0. IsStore(s)
  BY DEF Whole, InOrder
<1>1. /\ IsStore(w)
      /\ w.files = With(s.files, texts)
      /\ w.nodes = s.nodes \cup NodeRows(texts)
      /\ w.edges = s.edges \cup EdgeRows(texts)
      /\ w.refs = s.refs \cup RefRows(texts)
      /\ w.imports = [p \in Path |-> IF p \in Parsed(texts) THEN FactIn(texts, p).imports
                                     ELSE s.imports[p]]
      /\ w.scip = s.scip /\ w.stamped = s.stamped
  BY <1>0, WrittenFields
<1> HIDE DEF w
<1>2. Texts(s.files) /\ DOMAIN s.files = Path
  BY WholePaths
<1>3. /\ Parsed(w.files) = Parsed(s.files) \cup Parsed(texts)
      /\ \A p \in Path : s.files[p] # Gone => w.files[p] = s.files[p]
      /\ \A p \in DOMAIN texts : w.files[p] = texts[p]
      /\ NodeRows(w.files) = NodeRows(s.files) \cup NodeRows(texts)
      /\ EdgeRows(w.files) = EdgeRows(s.files) \cup EdgeRows(texts)
      /\ RefRows(w.files) = RefRows(s.files) \cup RefRows(texts)
  BY <1>1, <1>2, RowsWith
<1>4. Parsed(texts) \subseteq DOMAIN texts /\ Parsed(s.files) \cap Parsed(texts) = {}
  BY DEF Parsed
<1>5. /\ \A p \in Parsed(s.files) : FactIn(w.files, p) = FactIn(s.files, p)
      /\ \A p \in Parsed(texts) : FactIn(w.files, p) = FactIn(texts, p)
  BY <1>3, <1>4, WholePaths DEF FactIn
<1>6. /\ \A n \in NodeRows(texts) : IsNode(n) /\ n.path \in Parsed(texts)
      /\ KeysApart(NodeRows(texts))
  BY NodesOfTexts
<1>7. InOrder(w)
  <2>1. w.files \in [Path -> Version \cup {Gone}]
    BY <1>1 DEF With, Texts, Whole, InOrder
  <2>2. \A n \in w.nodes : IsNode(n)
    BY <1>1, <1>6 DEF Whole, InOrder
  <2>3. ASSUME NEW n \in w.nodes, NEW m \in w.nodes, Id(n) = Id(m)
        PROVE  n = m
    <3>1. n.path = m.path
      BY <2>3, IdTells
    <3>2. \A x \in s.nodes : x.path \in Parsed(s.files)
      BY WholePaths
    <3>3. CASE n \in s.nodes
      <4>1. m \in s.nodes
        BY <1>1, <1>4, <1>6, <3>1, <3>2, <3>3
      <4>2. \A x, y \in s.nodes : Id(x) = Id(y) => x = y
        BY DEF Whole, InOrder, KeysApart
      <4> QED BY <2>3, <3>3, <4>1, <4>2
    <3>4. CASE n \in NodeRows(texts)
      <4>1. m \in NodeRows(texts)
        BY <1>1, <1>4, <1>6, <3>1, <3>2, <3>4
      <4>2. \A x, y \in NodeRows(texts) : Id(x) = Id(y) => x = y
        BY <1>6 DEF KeysApart
      <4> QED BY <2>3, <3>4, <4>1, <4>2
    <3> QED BY <1>1, <3>3, <3>4
  <2> QED BY <1>1, <2>1, <2>2, <2>3 DEF Whole, InOrder, KeysApart
<1>8. AsWritten(w)
  <2>1. w.refs = RefRows(w.files)
    BY <1>1, <1>3 DEF Whole, AsWritten
  <2>2. w.imports = Imported(w.files)
    <3>1. ASSUME NEW p \in Path
          PROVE  (IF p \in Parsed(texts) THEN FactIn(texts, p).imports ELSE s.imports[p]) =
                   (IF p \in Parsed(w.files) THEN FactIn(w.files, p).imports ELSE <<>>)
      <4>1. s.imports[p] = IF p \in Parsed(s.files) THEN FactIn(s.files, p).imports ELSE <<>>
        BY DEF Whole, AsWritten, Imported
      <4> QED BY <1>3, <1>5, <4>1
    <3> QED BY <1>1, <3>1 DEF Imported
  <2>3. Places(w.nodes) = Places(NodeRows(w.files))
    <3>1. Places(s.nodes) = Places(NodeRows(s.files))
      BY DEF Whole, AsWritten
    <3>2. /\ Places(w.nodes) = Places(s.nodes) \cup Places(NodeRows(texts))
          /\ Places(NodeRows(w.files)) = Places(NodeRows(s.files)) \cup Places(NodeRows(texts))
      BY <1>1, <1>3 DEF Places
    <3> QED BY <3>1, <3>2
  <2>4. {n \in w.nodes : n.tier = "treesitter"} \subseteq NodeRows(w.files)
    BY <1>1, <1>3 DEF Whole, AsWritten
  <2>5. {e \in w.edges : e.producer # Tool} \subseteq EdgeRows(w.files)
    BY <1>1, <1>3 DEF Whole, AsWritten
  <2>6. \A e \in EdgeRows(w.files) \ w.edges : e.kind = "CALLS"
    BY <1>1, <1>3 DEF Whole, AsWritten
  <2> QED BY <2>1, <2>2, <2>3, <2>4, <2>5, <2>6 DEF AsWritten
<1>9. ASSUME NEW e \in EdgeRows(texts)
      PROVE  /\ e.src \in Ids(NodeRows(texts)) /\ e.dst \in Ids(NodeRows(texts))
             /\ e.src.path \in Parsed(texts) /\ ~ByCompiler(e) /\ e.conf \in 1 .. 1000
             /\ e.kind = "CALLS" => CallsAt(FactIn(texts, e.src.path), e.site)
  BY EdgesOfTexts DEF ByCompiler, IsOwnEdge
<1>10. EdgesHold(w)
  <2>1. Ids(w.nodes) = Ids(s.nodes) \cup Ids(NodeRows(texts))
    BY <1>1 DEF Ids
  <2>2. ASSUME NEW e \in s.edges
        PROVE  /\ e.src \in Ids(w.nodes) /\ e.dst \in Ids(w.nodes) /\ e.conf \in 1 .. 1000
               /\ e.kind = "CALLS" => CallsAt(FactIn(w.files, e.src.path), e.site)
    BY <1>5, <2>1, WholePaths DEF Whole, EdgesHold
  <2>3. ASSUME NEW e \in EdgeRows(texts)
        PROVE  /\ e.src \in Ids(w.nodes) /\ e.dst \in Ids(w.nodes) /\ e.conf \in 1 .. 1000
               /\ e.kind = "CALLS" => CallsAt(FactIn(w.files, e.src.path), e.site)
    BY <1>5, <1>9, <2>1
  <2> QED BY <1>1, <2>2, <2>3 DEF EdgesHold
<1>11. ASSUME NEW e \in w.edges, ByCompiler(e)
       PROVE  e \in s.edges /\ e.src.path \in Parsed(s.files) /\ e.dst.path \in Parsed(s.files)
  BY <1>1, <1>9, <1>11, WholePaths
<1>12. Alone(w) /\ Signed(w)
  <2>0. Signed(w)
    <3>1. \A e \in EdgeRows(texts) : e.producer # Tool
      BY EdgesOfTexts, GraphAssumption DEF IsOwnEdge
    <3> QED BY <1>1, <3>1 DEF Whole, Signed
  <2> SUFFICES ASSUME NEW e \in w.edges, ByCompiler(e)
               PROVE  CallEdges(w, e.src.path, e.site) = {e}
    BY <2>0 DEF Alone
  <2>1. e \in s.edges /\ e.src.path \in Parsed(s.files)
    BY <1>11
  <2>2. CallEdges(s, e.src.path, e.site) = {e}
    BY <2>1 DEF Whole, Alone
  <2>3. CallEdges(w, e.src.path, e.site) = CallEdges(s, e.src.path, e.site)
    BY <1>1, <1>4, <1>9, <2>1 DEF CallEdges
  <2> QED BY <2>2, <2>3
<1>13. ASSUME NEW moved, SaidOutside(s, moved)
       PROVE  SaidOutside(w, moved)
  <2> SUFFICES ASSUME NEW e \in w.edges, ByCompiler(e),
                      {e.src.path, e.dst.path} \cap moved = {}
               PROVE  DocumentsSay(w.files, e)
    BY DEF SaidOutside
  <2>1. e \in s.edges /\ e.src.path \in Parsed(s.files) /\ e.dst.path \in Parsed(s.files)
    BY <1>11
  <2>2. DocumentsSay(s.files, e)
    BY <1>13, <2>1 DEF SaidOutside
  <2>3. w.files[e.src.path] = s.files[e.src.path] /\ w.files[e.dst.path] = s.files[e.dst.path]
    BY <1>3, <2>1, WholePaths
  <2> QED BY <2>2, <2>3 DEF DocumentsSay
<1> QED BY <1>7, <1>8, <1>10, <1>12, <1>13 DEF Whole, w

----------------------------------------------------------------------------
(* The overlay.                                                             *)

\* The node the overlay makes of one.
Up(joined, n) ==
    IF \E j \in joined : j.id = Id(n)
    THEN LET symbol == (CHOOSE j \in joined : j.id = Id(n)).symbol
         IN  [n EXCEPT !.qname = symbol, !.tier = "scip",
                       !.kind = IF symbol \in DOMAIN KindOf THEN KindOf[symbol] ELSE @]
    ELSE n

\* _upgrade_node leaves a node where it is.
LEMMA UpKeeps ==
    ASSUME NEW joined, NEW n, IsNode(n)
    PROVE  /\ IsNode(Up(joined, n)) /\ Id(Up(joined, n)) = Id(n)
           /\ Place(Up(joined, n)) = Place(n)
           /\ Up(joined, n).tier = "treesitter" => Up(joined, n) = n
<1>1. ASSUME NEW symbol, NEW kind
      PROVE  LET m == [n EXCEPT !.qname = symbol, !.tier = "scip", !.kind = kind]
             IN  /\ IsNode(m) /\ Id(m) = Id(n) /\ Place(m) = Place(n) /\ m.tier = "scip"
  BY DEF IsNode, NodeFields, Id, Place
<1> QED BY <1>1 DEF Up

\* So the nodes keep their keys and their places.
LEMMA UpgradedNodes ==
    ASSUME NEW s, NEW joined, \A n \in s.nodes : IsNode(n), KeysApart(s.nodes)
    PROVE  LET nodes == Upgraded(s, joined)
           IN  /\ \A n \in nodes : IsNode(n)
               /\ KeysApart(nodes)
               /\ Ids(nodes) = Ids(s.nodes)
               /\ Places(nodes) = Places(s.nodes)
               /\ \A n \in nodes : n.tier = "treesitter" => n \in s.nodes
<1> DEFINE nodes == Upgraded(s, joined)
<1>1. nodes = {Up(joined, n) : n \in s.nodes}
  BY DEF Upgraded, Up
<1>2. \A n \in s.nodes : /\ IsNode(Up(joined, n)) /\ Id(Up(joined, n)) = Id(n)
                         /\ Place(Up(joined, n)) = Place(n)
                         /\ Up(joined, n).tier = "treesitter" => Up(joined, n) = n
  BY UpKeeps
<1> HIDE DEF nodes
<1>3. KeysApart(nodes)
  <2> SUFFICES ASSUME NEW n \in s.nodes, NEW m \in s.nodes,
                      Id(Up(joined, n)) = Id(Up(joined, m))
               PROVE  Up(joined, n) = Up(joined, m)
    BY <1>1 DEF KeysApart
  <2> QED BY <1>2 DEF KeysApart
<1>4. Ids(nodes) = Ids(s.nodes) /\ Places(nodes) = Places(s.nodes)
  BY <1>1, <1>2 DEF Ids, Places
<1>5. \A n \in nodes : IsNode(n) /\ (n.tier = "treesitter" => n \in s.nodes)
  BY <1>1, <1>2
<1> QED BY <1>3, <1>4, <1>5 DEF nodes

\* enclosing finds a node of the file, if it finds one.
LEMMA EnclosingStands ==
    ASSUME NEW s, \A n \in s.nodes : IsNode(n), NEW p, NEW byte \in Nat,
           EnclosingNode(s, p, byte) # NoNode
    PROVE  \E n \in s.nodes : n.path = p /\ EnclosingNode(s, p, byte) = Id(n)
<1> DEFINE holding == {n \in s.nodes : n.path = p /\ n.start <= byte /\ byte < n.body}
           narrowest == {n \in holding : \A m \in holding : n.body - n.start <= m.body - m.start}
           spans == {n.body - n.start : n \in holding}
           starts == {n.start : n \in narrowest}
<1>1. holding # {}
  BY DEF EnclosingNode
<1>2. spans \in SUBSET Nat /\ spans # {}
  <2>1. \A n \in holding : n.body - n.start \in Nat
    BY DEF IsNode
  <2> QED BY <1>1, <2>1
<1>3. PICK span \in spans : \A other \in spans : span <= other
  <2> HIDE DEF spans
  <2> QED BY <1>2, Least
<1>4. narrowest # {}
  BY <1>3
<1>5. starts \in SUBSET Nat /\ starts # {}
  <2>1. \A n \in narrowest : n.start \in Nat
    BY DEF IsNode
  <2> HIDE DEF narrowest
  <2> QED BY <1>4, <2>1
<1>6. PICK start \in starts : \A other \in starts : start <= other
  <2> HIDE DEF starts
  <2> QED BY <1>5, Least
<1> DEFINE found == CHOOSE n \in narrowest : \A m \in narrowest : n.start <= m.start
<1>7. EnclosingNode(s, p, byte) = Id(found)
  BY <1>1 DEF EnclosingNode
<1>8. \E n \in narrowest : \A m \in narrowest : n.start <= m.start
  <2> HIDE DEF narrowest
  <2> QED BY <1>6
<1>9. found \in narrowest
  <2> HIDE DEF narrowest
  <2> QED BY <1>8
<1> HIDE DEF found
<1> QED BY <1>7, <1>9

\* The caller of a rewritten call is a node of the file the call stands in.
LEMMA CallerStands ==
    ASSUME NEW s, Whole(s), NEW p, NEW site, Rewritable(s, p, site),
           Caller(s, p, site) # NoNode
    PROVE  Caller(s, p, site) \in Ids(s.nodes) /\ Caller(s, p, site).path = p
<1>1. CASE CallEdges(s, p, site) # {}
  <2>1. PICK e \in CallEdges(s, p, site) : Caller(s, p, site) = e.src
    BY <1>1 DEF Caller
  <2> QED BY <2>1 DEF CallEdges, Whole, EdgesHold
<1>2. CASE CallEdges(s, p, site) = {}
  <2>1. PICK r \in s.refs : r.path = p /\ r.site = site
    BY <1>2 DEF Rewritable, CallRows
  <2>2. site \in Nat
    BY <2>1, WholePaths, RefsOfTexts DEF Whole, AsWritten
  <2>3. Caller(s, p, site) =
          IF EnclosingNode(s, p, site) # NoNode THEN EnclosingNode(s, p, site) ELSE ModuleNode(s, p)
    BY <1>2 DEF Caller, CallerNode
  <2>4. CASE EnclosingNode(s, p, site) # NoNode
    <3>1. \A n \in s.nodes : IsNode(n)
      BY DEF Whole, InOrder
    <3>2. PICK n \in s.nodes : n.path = p /\ EnclosingNode(s, p, site) = Id(n)
      BY <2>2, <2>4, <3>1, EnclosingStands
    <3> QED BY <2>3, <2>4, <3>2, IdTells DEF Ids
  <2>5. CASE EnclosingNode(s, p, site) = NoNode
    <3> DEFINE modules == {Id(n) : n \in {m \in s.nodes : m.path = p /\ m.kind = "module"}}
    <3>1. ModuleNode(s, p) \in modules
      <4>1. ModuleNode(s, p) = IF modules = {} THEN NoNode
                               ELSE IF ModuleId(p) \in modules THEN ModuleId(p)
                               ELSE CHOOSE id \in modules : TRUE
        BY DEF ModuleNode
      <4> HIDE DEF modules
      <4> QED BY <2>3, <2>5, <4>1
    <3>2. \A id \in modules : id \in Ids(s.nodes) /\ id.path = p
      BY IdTells DEF Ids
    <3> HIDE DEF modules
    <3> QED BY <2>3, <2>5, <3>1, <3>2
  <2> QED BY <2>4, <2>5
<1> QED BY <1>1, <1>2

\* A definition of a document of q, at the node it names.
Defines(docs, q, j) ==
    \E d \in Document[q][docs[q].text].defs :
        j.symbol = d.symbol /\ j.id = [path |-> q, start |-> d.start, stop |-> d.stop]

\* What stands on a node is of a fresh document, and of the file of the node.
LEMMA JoinedStand ==
    ASSUME NEW s, NEW docs, NEW j \in Joined(s, docs)
    PROVE  /\ j.id \in Ids(s.nodes)
           /\ j.id.path \in Fresh(s, docs) /\ Defines(docs, j.id.path, j)
<1>1. PICK q \in Fresh(s, docs) :
         j \in {[symbol |-> d.symbol, id |-> [path |-> q, start |-> d.start, stop |-> d.stop]] :
                  d \in {e \in Document[q][docs[q].text].defs :
                           [path |-> q, start |-> e.start, stop |-> e.stop] \in IdsOf(s)}}
  BY DEF Joined
<1>2. PICK d \in Document[q][docs[q].text].defs :
         /\ j = [symbol |-> d.symbol, id |-> [path |-> q, start |-> d.start, stop |-> d.stop]]
         /\ [path |-> q, start |-> d.start, stop |-> d.stop] \in IdsOf(s)
  BY <1>1
<1> QED BY <1>2 DEF Defines, IdsOf, Ids

\* nodes[symbol] is where a definition of the symbol stands.
LEMMA NodeForStands ==
    ASSUME NEW joined, NEW symbol, \E j \in joined : j.symbol = symbol
    PROVE  \E j \in joined : j.symbol = symbol /\ NodeFor(joined, symbol) = j.id
BY DEF NodeFor

\* A name the document has for the call, of a definition that is a node.
RestsOn(docs, joined, w) ==
    \E o \in Document[w.path][docs[w.path].text].refs :
        o.site = w.site /\ \E j \in joined : j.symbol = o.symbol /\ w.dst = j.id

\* What a rewrite rests on: a call of the text, with a caller, and its target.
LEMMA RewriteStands ==
    ASSUME NEW s, NEW docs, NEW joined, NEW w \in Rewrites(s, docs, joined)
    PROVE  /\ w.path \in Fresh(s, docs) /\ Rewritable(s, w.path, w.site)
           /\ Caller(s, w.path, w.site) # NoNode
           /\ RestsOn(docs, joined, w)
           /\ w = [path |-> w.path, site |-> w.site,
                   dst |-> NodeFor(joined, CHOOSE symbol \in Named(docs, joined, w.path, w.site) :
                                              TRUE)]
<1> DEFINE sites(p) == {o.site : o \in {q \in Document[p][docs[p].text].refs :
                                          /\ Rewritable(s, p, q.site)
                                          /\ Caller(s, p, q.site) # NoNode
                                          /\ Named(docs, joined, p, q.site) # {}}}
           rewrite(p, site) ==
             [path |-> p, site |-> site,
              dst |-> NodeFor(joined, CHOOSE symbol \in Named(docs, joined, p, site) : TRUE)]
<1>1. Rewrites(s, docs, joined) =
        UNION {{rewrite(p, site) : site \in sites(p)} : p \in Fresh(s, docs)}
  BY DEF Rewrites
<1>2. PICK p \in Fresh(s, docs) : \E site \in sites(p) : w = rewrite(p, site)
  BY <1>1
<1>3. PICK site \in sites(p) : w = rewrite(p, site)
  BY <1>2
<1>4. /\ Rewritable(s, p, site) /\ Caller(s, p, site) # NoNode
      /\ Named(docs, joined, p, site) # {}
  BY <1>3
<1> DEFINE symbol == CHOOSE x \in Named(docs, joined, p, site) : TRUE
<1>5. symbol \in Named(docs, joined, p, site)
  BY <1>4
<1>6. w.path = p /\ w.site = site /\ w.dst = NodeFor(joined, symbol) /\ w = rewrite(p, site)
  BY <1>3
<1> HIDE DEF symbol, sites, rewrite
<1>7. PICK o \in Document[p][docs[p].text].refs : o.site = site /\ o.symbol = symbol
  BY <1>5 DEF Named
<1>8. \E j \in joined : j.symbol = symbol
  BY <1>5 DEF Named
<1>9. PICK j \in joined : j.symbol = symbol /\ w.dst = j.id
  BY <1>6, <1>8, NodeForStands
<1>10. RestsOn(docs, joined, w)
  BY <1>6, <1>7, <1>9 DEF RestsOn
<1> QED BY <1>4, <1>6, <1>10 DEF rewrite

\* A site is rewritten once.
LEMMA OneRewrite ==
    ASSUME NEW s, NEW docs, NEW joined, NEW v \in Rewrites(s, docs, joined),
           NEW w \in Rewrites(s, docs, joined), v.path = w.path, v.site = w.site
    PROVE  v = w
<1> DEFINE rewrite(p, site) ==
             [path |-> p, site |-> site,
              dst |-> NodeFor(joined, CHOOSE symbol \in Named(docs, joined, p, site) : TRUE)]
<1>1. v = rewrite(v.path, v.site) /\ w = rewrite(w.path, w.site)
  BY RewriteStands
<1> HIDE DEF rewrite
<1> QED BY <1>1

\* The edge of a rewritten call.
LEMMA CallFields ==
    ASSUME NEW s, NEW w
    PROVE  LET e == CallTo(s, w)
           IN  /\ e.src = Caller(s, w.path, w.site) /\ e.dst = w.dst /\ e.kind = "CALLS"
               /\ e.conf = 1000 /\ e.evidence = "scip" /\ e.site = w.site /\ e.producer = Tool
BY EdgeFields DEF CallTo

\* The edges after the overlay: those it left, its calls and its implementations.
LEMMA IngestedEdges ==
    ASSUME NEW s, NEW docs, NEW joined,
           NEW e \in Implementations(Calls(s, Rewrites(s, docs, joined)), Related(s, docs, joined))
    PROVE  \/ /\ e \in s.edges
              /\ e.kind = "CALLS" => \A w \in Rewrites(s, docs, joined) :
                                        ~(w.path = e.src.path /\ w.site = e.site)
           \/ \E w \in Rewrites(s, docs, joined) : e = CallTo(s, w)
           \/ \E c, d \in {j.symbol : j \in joined} :
                 e = Edge(NodeFor(joined, c), NodeFor(joined, d), "IMPLEMENTS", 1000, 1, "scip", 0,
                          Tool)
<1>1. CASE e \in Calls(s, Rewrites(s, docs, joined))
  BY <1>1 DEF Calls
<1>2. CASE e \notin Calls(s, Rewrites(s, docs, joined))
  <2>1. PICK r \in Related(s, docs, joined) :
           e = Edge(r[1], r[2], "IMPLEMENTS", 1000, 1, "scip", 0, Tool)
    BY <1>2 DEF Implementations
  <2>2. PICK c, d \in {j.symbol : j \in joined} : r = <<NodeFor(joined, c), NodeFor(joined, d)>>
    BY DEF Related
  <2> QED BY <2>1, <2>2
<1> QED BY <1>1, <1>2

\* The descriptions are the nodes', and nothing else moves.
LEMMA DescribedFields ==
    ASSUME NEW s, NEW joined, IsStore(s)
    PROVE  LET m == Described(s, joined)
           IN  /\ IsStore(m)
               /\ m.nodes = Upgraded(s, joined)
               /\ m.files = s.files /\ m.refs = s.refs /\ m.imports = s.imports
               /\ m.edges = s.edges
               /\ m.scip = s.scip /\ m.stamped = s.stamped /\ m.fts = s.fts
<1> DEFINE nodes == Upgraded(s, joined)
<1>1. Described(s, joined) = [s EXCEPT !.nodes = nodes]
  BY DEF Described
<1> HIDE DEF nodes
<1>2. /\ IsStore(Described(s, joined))
      /\ Described(s, joined).nodes = nodes /\ Described(s, joined).edges = s.edges
      /\ Described(s, joined).files = s.files /\ Described(s, joined).refs = s.refs
      /\ Described(s, joined).imports = s.imports /\ Described(s, joined).fts = s.fts
      /\ Described(s, joined).scip = s.scip /\ Described(s, joined).stamped = s.stamped
  BY <1>1 DEF IsStore, Tables
<1> QED BY <1>2 DEF nodes

\* The calls and the implementations are edges, and nothing else moves.
LEMMA RewrittenFields ==
    ASSUME NEW s, NEW docs, NEW joined, IsStore(s)
    PROVE  LET m == Rewritten(s, docs, joined)
           IN  /\ IsStore(m)
               /\ m.nodes = s.nodes
               /\ m.edges = Implementations(Calls(s, Rewrites(s, docs, joined)),
                                            Related(s, docs, joined))
               /\ m.files = s.files /\ m.refs = s.refs /\ m.imports = s.imports
               /\ m.scip = s.scip /\ m.stamped = s.stamped /\ m.fts = s.fts
<1> DEFINE edges == Implementations(Calls(s, Rewrites(s, docs, joined)), Related(s, docs, joined))
<1>1. Rewritten(s, docs, joined) = [s EXCEPT !.edges = edges]
  BY DEF Rewritten
<1> HIDE DEF edges
<1>2. /\ IsStore(Rewritten(s, docs, joined))
      /\ Rewritten(s, docs, joined).nodes = s.nodes /\ Rewritten(s, docs, joined).edges = edges
      /\ Rewritten(s, docs, joined).files = s.files /\ Rewritten(s, docs, joined).refs = s.refs
      /\ Rewritten(s, docs, joined).imports = s.imports
      /\ Rewritten(s, docs, joined).fts = s.fts /\ Rewritten(s, docs, joined).scip = s.scip
      /\ Rewritten(s, docs, joined).stamped = s.stamped
  BY <1>1 DEF IsStore, Tables
<1> QED BY <1>2 DEF edges

\* A store described is as whole as it was, on the same nodes.
LEMMA DescribedWhole ==
    ASSUME NEW s, NEW joined, Whole(s)
    PROVE  LET m == Described(s, joined)
           IN  Whole(m) /\ Ids(m.nodes) = Ids(s.nodes) /\ m.files = s.files /\ m.edges = s.edges
<1> DEFINE m == Described(s, joined)
<1>0. IsStore(s)
  BY DEF Whole, InOrder
<1>1. /\ IsStore(m)
      /\ m.nodes = Upgraded(s, joined)
      /\ m.files = s.files /\ m.refs = s.refs /\ m.imports = s.imports /\ m.edges = s.edges
      /\ m.scip = s.scip /\ m.stamped = s.stamped /\ m.fts = s.fts
  BY <1>0, DescribedFields
<1> HIDE DEF m
<1>3. (\A n \in s.nodes : IsNode(n)) /\ KeysApart(s.nodes)
  BY DEF Whole, InOrder
<1>4. /\ \A n \in m.nodes : IsNode(n)
      /\ KeysApart(m.nodes)
      /\ Ids(m.nodes) = Ids(s.nodes)
      /\ Places(m.nodes) = Places(s.nodes)
      /\ \A n \in m.nodes : n.tier = "treesitter" => n \in s.nodes
  BY <1>1, <1>3, UpgradedNodes
<1>5. InOrder(m)
  BY <1>1, <1>4 DEF Whole, InOrder
<1>8. AsWritten(m)
  BY <1>1, <1>4 DEF Whole, AsWritten
<1>9. EdgesHold(m)
  BY <1>1, <1>4 DEF Whole, EdgesHold
<1>10. Alone(m)
  BY <1>1 DEF Whole, Alone, CallEdges
<1>11. Signed(m)
  BY <1>1 DEF Whole, Signed
<1> QED BY <1>1, <1>4, <1>5, <1>8, <1>9, <1>10, <1>11 DEF Whole, m

\* Whatever the artifact says of the calls, they leave a store that is whole.
LEMMA RewrittenWhole ==
    ASSUME NEW s, NEW docs, NEW joined, Whole(s), \A j \in joined : j.id \in Ids(s.nodes)
    PROVE  Whole(Rewritten(s, docs, joined))
<1> DEFINE m == Rewritten(s, docs, joined)
           rewrites == Rewrites(s, docs, joined)
<1>0. IsStore(s)
  BY DEF Whole, InOrder
<1>1. /\ IsStore(m)
      /\ m.nodes = s.nodes
      /\ m.edges = Implementations(Calls(s, rewrites), Related(s, docs, joined))
      /\ m.files = s.files /\ m.refs = s.refs /\ m.imports = s.imports
      /\ m.scip = s.scip /\ m.stamped = s.stamped /\ m.fts = s.fts
  BY <1>0, RewrittenFields
<1> HIDE DEF m
<1>2. \A c \in {j.symbol : j \in joined} : NodeFor(joined, c) \in Ids(s.nodes)
  BY NodeForStands
<1>5. InOrder(m)
  BY <1>1 DEF Whole, InOrder
<1>6. ASSUME NEW e \in m.edges, e \notin s.edges
      PROVE  /\ e.src \in Ids(s.nodes) /\ e.dst \in Ids(s.nodes) /\ e.conf \in 1 .. 1000
             /\ e.producer = Tool /\ e.evidence = "scip"
             /\ e.kind = "CALLS" => \E w \in rewrites : e = CallTo(s, w)
             /\ e.kind = "CALLS" => CallsAt(FactIn(s.files, e.src.path), e.site)
  <2>1. CASE \E w \in rewrites : e = CallTo(s, w)
    <3>1. PICK w \in rewrites : e = CallTo(s, w)
      BY <2>1
    <3>2. /\ Rewritable(s, w.path, w.site) /\ Caller(s, w.path, w.site) # NoNode
          /\ \E j \in joined : w.dst = j.id
      <4>1. /\ Rewritable(s, w.path, w.site) /\ Caller(s, w.path, w.site) # NoNode
            /\ RestsOn(docs, joined, w)
        BY RewriteStands
      <4> QED BY <4>1 DEF RestsOn
    <3>3. /\ e.src = Caller(s, w.path, w.site) /\ e.dst = w.dst /\ e.conf = 1000
          /\ e.site = w.site /\ e.producer = Tool /\ e.evidence = "scip"
      BY <3>1, CallFields
    <3>4. e.src \in Ids(s.nodes) /\ e.src.path = w.path
      BY <3>2, <3>3, CallerStands
    <3>5. CallsAt(FactIn(s.files, w.path), w.site)
      <4>1. CASE CallEdges(s, w.path, w.site) # {}
        BY <4>1 DEF CallEdges, Whole, EdgesHold
      <4>2. CASE CallEdges(s, w.path, w.site) = {}
        <5>1. PICK r \in s.refs : r.path = w.path /\ r.site = w.site /\ r.kind = "CALLS"
          BY <3>2, <4>2 DEF Rewritable, CallRows
        <5>2. r \in RefRows(s.files) /\ Texts(s.files)
          BY WholePaths DEF Whole, AsWritten
        <5> QED BY <5>1, <5>2, RefsOfTexts
      <4> QED BY <4>1, <4>2
    <3> QED BY <1>2, <3>1, <3>2, <3>3, <3>4, <3>5
  <2>2. CASE \E c, d \in {j.symbol : j \in joined} :
               e = Edge(NodeFor(joined, c), NodeFor(joined, d), "IMPLEMENTS", 1000, 1, "scip", 0,
                        Tool)
    <3>1. PICK c, d \in {j.symbol : j \in joined} :
            e = Edge(NodeFor(joined, c), NodeFor(joined, d), "IMPLEMENTS", 1000, 1, "scip", 0, Tool)
      BY <2>2
    <3>2. /\ e.src = NodeFor(joined, c) /\ e.dst = NodeFor(joined, d) /\ e.kind = "IMPLEMENTS"
          /\ e.conf = 1000 /\ e.producer = Tool /\ e.evidence = "scip"
      BY <3>1, EdgeFields
    <3> QED BY <1>2, <3>2
  <2> QED BY <1>1, <1>6, <2>1, <2>2, IngestedEdges
<1>7. ASSUME NEW e \in s.edges, e \notin m.edges
      PROVE  e.kind = "CALLS" \/ e.producer = Tool
  BY <1>1, <1>7 DEF Implementations, Calls
<1>8. AsWritten(m)
  <2>1. m.refs = RefRows(m.files) /\ m.imports = Imported(m.files)
    BY <1>1 DEF Whole, AsWritten
  <2>2. Places(m.nodes) = Places(NodeRows(m.files))
    BY <1>1 DEF Whole, AsWritten
  <2>3. {n \in m.nodes : n.tier = "treesitter"} \subseteq NodeRows(m.files)
    BY <1>1 DEF Whole, AsWritten
  <2>4. {e \in m.edges : e.producer # Tool} \subseteq EdgeRows(m.files)
    BY <1>1, <1>6 DEF Whole, AsWritten
  <2>5. ASSUME NEW e \in EdgeRows(m.files), e \notin m.edges
        PROVE  e.kind = "CALLS"
    <3>1. e.producer = "treesitter"
      BY <1>1, WholePaths, EdgesOfTexts DEF IsOwnEdge
    <3>2. e.producer # Tool
      BY <3>1, GraphAssumption
    <3> QED BY <1>1, <1>7, <2>5, <3>2 DEF Whole, AsWritten
  <2> QED BY <2>1, <2>2, <2>3, <2>4, <2>5 DEF AsWritten
<1>9. EdgesHold(m)
  <2> SUFFICES ASSUME NEW e \in m.edges
               PROVE  /\ e.src \in Ids(s.nodes) /\ e.dst \in Ids(s.nodes) /\ e.conf \in 1 .. 1000
                      /\ e.kind = "CALLS" => CallsAt(FactIn(s.files, e.src.path), e.site)
    BY <1>1 DEF EdgesHold
  <2>1. CASE e \in s.edges
    BY <2>1 DEF Whole, EdgesHold
  <2>2. CASE e \notin s.edges
    BY <1>6, <2>2
  <2> QED BY <2>1, <2>2
<1>10. Alone(m)
  <2> SUFFICES ASSUME NEW e \in m.edges, ByCompiler(e), NEW f \in CallEdges(m, e.src.path, e.site)
               PROVE  f = e
    BY DEF Alone, CallEdges, ByCompiler
  <2>1. /\ f \in m.edges /\ f.src.path = e.src.path /\ f.site = e.site
        /\ f.kind = "CALLS" /\ e.kind = "CALLS"
    BY DEF CallEdges, ByCompiler
  <2>2. ASSUME NEW x \in m.edges, x.kind = "CALLS"
        PROVE  \/ /\ x \in s.edges
                  /\ \A w \in rewrites : ~(w.path = x.src.path /\ w.site = x.site)
               \/ \E w \in rewrites : /\ x = CallTo(s, w)
                                      /\ w.path = x.src.path /\ w.site = x.site
    <3>1. ASSUME NEW w \in rewrites, x = CallTo(s, w)
          PROVE  w.path = x.src.path /\ w.site = x.site
      <4>1. Rewritable(s, w.path, w.site) /\ Caller(s, w.path, w.site) # NoNode
        BY RewriteStands
      <4>2. x.src = Caller(s, w.path, w.site) /\ x.site = w.site
        BY <3>1, CallFields
      <4> QED BY <4>1, <4>2, CallerStands
    <3>2. ASSUME NEW c, NEW d
          PROVE  x # Edge(NodeFor(joined, c), NodeFor(joined, d), "IMPLEMENTS", 1000, 1, "scip", 0,
                          Tool)
      BY <2>2, EdgeFields
    <3> QED BY <1>1, <2>2, <3>1, <3>2, IngestedEdges
  <2>3. CASE \E w \in rewrites : w.path = e.src.path /\ w.site = e.site
    <3>1. PICK v \in rewrites : e = CallTo(s, v) /\ v.path = e.src.path /\ v.site = e.site
      BY <2>1, <2>2, <2>3
    <3>2. PICK w \in rewrites : f = CallTo(s, w) /\ w.path = e.src.path /\ w.site = e.site
      BY <2>1, <2>2, <2>3
    <3>3. v = w
      BY <3>1, <3>2, OneRewrite
    <3> QED BY <3>1, <3>2, <3>3
  <2>4. CASE ~\E w \in rewrites : w.path = e.src.path /\ w.site = e.site
    <3>1. e \in s.edges /\ f \in s.edges
      BY <2>1, <2>2, <2>4
    <3>2. f \in CallEdges(s, e.src.path, e.site)
      BY <2>1, <3>1 DEF CallEdges
    <3> QED BY <3>1, <3>2 DEF Whole, Alone
  <2> QED BY <2>3, <2>4
<1>11. Signed(m)
  BY <1>6 DEF Whole, Signed
<1> QED BY <1>5, <1>8, <1>9, <1>10, <1>11 DEF Whole, m

\* Whatever the artifact says, the overlay leaves a store that is whole.
LEMMA IngestedWhole ==
    ASSUME NEW s, NEW docs, Whole(s)
    PROVE  Whole(Ingested(s, docs, Joined(s, docs)))
<1> DEFINE joined == Joined(s, docs)
<1>1. \A j \in joined : j.id \in Ids(s.nodes)
  BY JoinedStand
<1> HIDE DEF joined
<1>2. Whole(Described(s, joined)) /\ Ids(Described(s, joined).nodes) = Ids(s.nodes)
  BY DescribedWhole
<1>3. Whole(Rewritten(Described(s, joined), docs, joined))
  BY <1>1, <1>2, RewrittenWhole
<1> QED BY <1>3 DEF Ingested, joined

\* The overlay writes nodes and edges, and leaves the files alone.
LEMMA IngestedFiles ==
    ASSUME NEW s, NEW docs, NEW joined, IsStore(s)
    PROVE  Ingested(s, docs, joined).files = s.files
<1>1. IsStore(Described(s, joined)) /\ Described(s, joined).files = s.files
  BY DescribedFields
<1> QED BY <1>1, RewrittenFields DEF Ingested

\* An artifact is as good as its documents are the stored texts.
LEMMA RewrittenSaid ==
    ASSUME NEW s, NEW docs, NEW joined, NEW moved, Whole(s), SaidOutside(s, moved),
           \A p \in Fresh(s, docs) : p \notin moved => docs[p].text = s.files[p],
           \A j \in joined : j.id.path \in Fresh(s, docs) /\ Defines(docs, j.id.path, j)
    PROVE  SaidOutside(Rewritten(s, docs, joined), moved)
<1> DEFINE m == Rewritten(s, docs, joined)
           rewrites == Rewrites(s, docs, joined)
<1>0. IsStore(s)
  BY DEF Whole, InOrder
<1>1. /\ m.edges = Implementations(Calls(s, rewrites), Related(s, docs, joined))
      /\ m.files = s.files
  <2> HIDE DEF rewrites
  <2>1. SaidOutside(s, moved) => TRUE
    OBVIOUS
  <2> QED BY <1>0, RewrittenFields DEF rewrites
<1> HIDE DEF m
<1> SUFFICES ASSUME NEW e \in m.edges, ByCompiler(e), {e.src.path, e.dst.path} \cap moved = {}
             PROVE  DocumentsSay(s.files, e)
  BY <1>1 DEF SaidOutside, m
<1>2. CASE e \in s.edges
  BY <1>2 DEF SaidOutside
<1>3. CASE e \notin s.edges
  <2>1. PICK w \in rewrites : e = CallTo(s, w)
    <3>1. ASSUME NEW c, NEW d
          PROVE  e # Edge(NodeFor(joined, c), NodeFor(joined, d), "IMPLEMENTS", 1000, 1, "scip", 0,
                          Tool)
      BY EdgeFields DEF ByCompiler
    <3> QED BY <1>1, <1>3, <3>1, IngestedEdges
  <2>2. /\ w.path \in Fresh(s, docs) /\ Rewritable(s, w.path, w.site)
        /\ Caller(s, w.path, w.site) # NoNode /\ RestsOn(docs, joined, w)
    BY RewriteStands
  <2>3. e.src = Caller(s, w.path, w.site) /\ e.dst = w.dst /\ e.site = w.site
    BY <2>1, CallFields
  <2>4. e.src.path = w.path
    BY <2>2, <2>3, CallerStands
  <2>5. PICK o \in Document[w.path][docs[w.path].text].refs :
           o.site = w.site /\ \E j \in joined : j.symbol = o.symbol /\ w.dst = j.id
    BY <2>2 DEF RestsOn
  <2>6. PICK j \in joined : j.symbol = o.symbol /\ w.dst = j.id
    BY <2>5
  <2>7. e.dst.path \in Fresh(s, docs) /\ Defines(docs, e.dst.path, j)
    BY <2>3, <2>6
  <2>8. docs[e.src.path].text = s.files[e.src.path] /\ docs[e.dst.path].text = s.files[e.dst.path]
    BY <2>2, <2>4, <2>7
  <2>9. o \in Document[e.src.path][s.files[e.src.path]].refs
    BY <2>4, <2>8
  <2>10. PICK d \in Document[e.dst.path][s.files[e.dst.path]].defs :
            j.symbol = d.symbol
            /\ j.id = [path |-> e.dst.path, start |-> d.start, stop |-> d.stop]
    BY <2>7, <2>8 DEF Defines
  <2> QED BY <2>3, <2>5, <2>6, <2>9, <2>10 DEF DocumentsSay
<1> QED BY <1>2, <1>3

\* The descriptions are no edges, and the calls are as good as the documents.
LEMMA IngestedSaid ==
    ASSUME NEW s, NEW docs, NEW moved, Whole(s), SaidOutside(s, moved),
           \A p \in Fresh(s, docs) : p \notin moved => docs[p].text = s.files[p]
    PROVE  SaidOutside(Ingested(s, docs, Joined(s, docs)), moved)
<1> DEFINE joined == Joined(s, docs)
           u == Described(s, joined)
<1>1. \A j \in joined : j.id.path \in Fresh(s, docs) /\ Defines(docs, j.id.path, j)
  BY JoinedStand
<1> HIDE DEF joined
<1>2. Whole(u) /\ u.files = s.files /\ u.edges = s.edges
  BY DescribedWhole
<1> HIDE DEF u
<1>3. Fresh(u, docs) = Fresh(s, docs)
  BY <1>2 DEF Fresh
<1>4. SaidOutside(u, moved)
  BY <1>2 DEF SaidOutside
<1>5. SaidOutside(Rewritten(u, docs, joined), moved)
  BY <1>1, <1>2, <1>3, <1>4, RewrittenSaid
<1> QED BY <1>5 DEF Ingested, u, joined

\* The flags and the postings say nothing of the rows.
LEMMA SameTables ==
    ASSUME NEW s, NEW t, Whole(s), IsStore(t),
           t.files = s.files, t.nodes = s.nodes, t.edges = s.edges,
           t.refs = s.refs, t.imports = s.imports,
           t.scip \in BOOLEAN, t.stamped \in BOOLEAN
    PROVE  Whole(t) /\ \A moved : SaidOutside(s, moved) => SaidOutside(t, moved)
<1>1. InOrder(t)
  BY DEF Whole, InOrder
<1>2. AsWritten(t) /\ EdgesHold(t)
  BY DEF Whole, AsWritten, EdgesHold
<1>3. Alone(t) /\ Signed(t)
  BY DEF Whole, Alone, Signed, CallEdges
<1>4. \A moved : SaidOutside(s, moved) => SaidOutside(t, moved)
  BY DEF SaidOutside
<1> QED BY <1>1, <1>2, <1>3, <1>4 DEF Whole

----------------------------------------------------------------------------
(* The passes.                                                              *)

\* A function on 1..n is a sequence of its values.
LEMMA ListIsSeq ==
  ASSUME NEW s, NEW n \in Nat, DOMAIN s = 1 .. n, s = [i \in 1 .. n |-> s[i]]
  PROVE s \in Seq(ToSet(s))
<1>1. s \in [1 .. n -> ToSet(s)]
  BY DEF ToSet
<1> QED BY <1>1, SeqDef

\* The build units are a list.
LEMMA UnitsAreSeq == Units \in Seq(ToSet(Units))
<1> DEFINE found == {d \in Marked : ToSet(d) \cap Skipped = {}}
           nth(n) == CHOOSE d \in found : Cardinality({e \in found : Before(e, d)}) = n - 1
<1>1. CASE found = {}
  <2>1. Units = <<<<>>>>
    BY <1>1 DEF Units
  <2> QED BY <2>1 DEF ToSet
<1>2. CASE found # {}
  <2>1. Cardinality(found) \in Nat
    <3>1. IsFiniteSet(found)
      BY FS_Subset, GraphAssumption
    <3> QED BY <3>1, FS_CardinalityType
  <2>2. Units = [n \in 1 .. Cardinality(found) |-> nth(n)]
    BY <1>2 DEF Units
  <2> HIDE DEF found, nth
  <2>3. DOMAIN Units = 1 .. Cardinality(found)
    BY <2>2
  <2>4. Units = [n \in 1 .. Cardinality(found) |-> Units[n]]
    BY <2>2
  <2> QED BY <2>1, <2>3, <2>4, ListIsSeq
<1> QED BY <1>1, <1>2

\* A document that did not move is of the text on disk.
DocsHold(docs, texts) ==
    /\ DOMAIN docs \subseteq Path /\ docs = [p \in DOMAIN docs |-> docs[p]]
    /\ \A p \in DOMAIN docs : /\ docs[p] \in [text : Version, moved : BOOLEAN]
                              /\ ~docs[p].moved => docs[p].text = texts[p]

\* The transaction of a pass is whole at every step; what it says of the compiler
\* may be wrong only of files that moved under it, or under the pass that wrote
\* what it left alone.
PassHolds(t, texts, before) ==
    /\ IsPass(t) /\ t.rewrote \in BOOLEAN /\ t.wrote \subseteq Path /\ t.moved \subseteq Path
    /\ t.left \in Seq(ToSet(Units)) /\ (~t.rewrote => t.left = <<>>)
    /\ Whole(t.work) /\ SaidOutside(t.work, (before \ t.wrote) \cup t.moved)
    /\ t.rewrote => \A p \in Path \ t.moved : t.work.files[p] = texts[p]

GraphInv ==
    /\ disk \in [Path -> Version \cup {Gone}]
    /\ planned \in BOOLEAN
    /\ DOMAIN index = ToSet(Units)
    /\ \A u \in ToSet(Units) : DocsHold(index[u], disk)
    /\ Whole(store) /\ SaidOutside(store, raced)
    /\ pass # NoPass => PassHolds(pass, disk, raced)
    /\ raced \subseteq Path
    /\ edits \in 0 .. MaxEdits

\* A store that holds nothing is whole.
LEMMA NothingWhole == Whole(NoStore) /\ SaidOutside(NoStore, {})
<1>1. /\ IsStore(NoStore)
      /\ NoStore.files = [p \in Path |-> Gone] /\ NoStore.nodes = {} /\ NoStore.edges = {}
      /\ NoStore.refs = {} /\ NoStore.imports = [p \in Path |-> <<>>]
      /\ NoStore.scip = FALSE /\ NoStore.stamped = FALSE
  BY DEF NoStore, IsStore, Tables
<1>2. Parsed(NoStore.files) = {}
  BY <1>1 DEF Parsed
<1>3. /\ NodeRows(NoStore.files) = {} /\ EdgeRows(NoStore.files) = {}
      /\ RefRows(NoStore.files) = {} /\ Imported(NoStore.files) = NoStore.imports
  BY <1>1, <1>2 DEF NodeRows, EdgeRows, RefRows, Imported
<1>4. InOrder(NoStore)
  BY <1>1 DEF InOrder, KeysApart
<1>5. AsWritten(NoStore)
  BY <1>1, <1>3 DEF AsWritten, Places
<1> QED BY <1>1, <1>4, <1>5 DEF Whole, EdgesHold, Alone, Signed, SaidOutside

\* The inductive invariant holds at the start.
LEMMA GraphInit == Init => GraphInv
<1> SUFFICES ASSUME Init PROVE GraphInv
  OBVIOUS
<1>1. DOMAIN index = ToSet(Units) /\ \A u \in ToSet(Units) : DocsHold(index[u], disk)
  BY DEF Init, NoIndex, DocsHold
<1>2. 1 \in Version /\ MaxEdits \in Nat
  BY GraphAssumption
<1> QED BY <1>1, <1>2, NothingWhole DEF Init, GraphInv

\* The file rows after forgetting.
LEMMA ForgetFiles ==
    ASSUME NEW s, NEW ps, IsStore(s)
    PROVE  Forget(s, ps).files = Without(s.files, ps)
<1> DEFINE files == Without(s.files, ps)
           nodes == {n \in s.nodes : n.path \notin ps}
           edges == {e \in s.edges : e.src.path \notin ps /\ e.dst.path \notin ps}
           refs == {r \in s.refs : r.path \notin ps}
           imports == [p \in Path |-> IF p \in ps THEN <<>> ELSE s.imports[p]]
           fts == s.fts \ {Posting(n) : n \in {m \in s.nodes : m.path \in ps}}
<1>1. Forget(s, ps) = [s EXCEPT !.files = files, !.nodes = nodes, !.edges = edges,
                                !.refs = refs, !.imports = imports, !.fts = fts]
  BY DEF Forget, Without
<1> HIDE DEF files, nodes, edges, refs, imports, fts
<1>2. Forget(s, ps).files = files
  BY <1>1 DEF IsStore, Tables
<1> QED BY <1>2 DEF files

\* And after writing.
LEMMA WrittenFiles ==
    ASSUME NEW s, NEW texts, IsStore(s), \A p \in DOMAIN texts : texts[p] # Gone
    PROVE  Written(s, texts).files = With(s.files, texts)
BY WrittenFields

\* What a pass writes at its start is what the tree then holds, where it looked
\* at all of it.
LEMMA WorkWhole ==
    ASSUME NEW s, Whole(s), NEW texts \in [Path -> Version \cup {Gone}],
           NEW targets \in SUBSET Path, NEW before, SaidOutside(s, before)
    PROVE  LET read == [p \in {q \in targets : texts[q] # Gone} |-> texts[p]]
               work == Written(Forget(s, targets), read)
           IN  /\ Whole(work) /\ SaidOutside(work, before \ targets)
               /\ \A p \in targets : work.files[p] = texts[p]
               /\ \A p \in Path \ targets : work.files[p] = s.files[p]
<1> DEFINE read == [p \in {q \in targets : texts[q] # Gone} |-> texts[p]]
           f == Forget(s, targets)
           work == Written(f, read)
<1>1. Whole(f) /\ SaidOutside(f, before \ targets)
  BY ForgetWhole
<1>2. IsStore(s) /\ IsStore(f)
  BY <1>1 DEF Whole, InOrder
<1>3. f.files = Without(s.files, targets)
  BY <1>2, ForgetFiles
<1> HIDE DEF f
<1>4. \A p \in Path : f.files[p] = IF p \in targets THEN Gone ELSE s.files[p]
  BY <1>3 DEF Without
<1>5. Texts(read) /\ \A p \in DOMAIN read : read[p] # Gone /\ f.files[p] = Gone
  BY <1>4 DEF Texts
<1>6. Whole(work) /\ SaidOutside(work, before \ targets)
  <2> HIDE DEF read
  <2> QED BY <1>1, <1>5, WrittenWhole
<1>7. work.files = With(f.files, read)
  <2> HIDE DEF read
  <2> QED BY <1>2, <1>5, WrittenFiles
<1> HIDE DEF work
<1>8. \A p \in Path : work.files[p] = IF p \in DOMAIN read THEN read[p] ELSE f.files[p]
  BY <1>7 DEF With
<1> QED BY <1>4, <1>6, <1>8 DEF work, f

\* A pass starts with a transaction that is whole.
LEMMA UnderwayHolds ==
    ASSUME NEW work, NEW overlaid \in BOOLEAN, NEW wrote \in SUBSET Path, NEW texts, NEW before,
           Whole(work), SaidOutside(work, before \ wrote),
           overlaid => \A p \in Path : work.files[p] = texts[p]
    PROVE  PassHolds(Underway(work, overlaid, wrote), texts, before)
<1> DEFINE t == Underway(work, overlaid, wrote)
<1>0. IsStore(work) /\ work.scip \in BOOLEAN
  BY DEF Whole, InOrder
<1>1. /\ IsPass(t) /\ t.rewrote = overlaid /\ t.wrote = wrote /\ t.moved = {}
      /\ t.left \in {Units, <<>>} /\ (~overlaid => t.left = <<>>)
      /\ t.work = [work EXCEPT !.scip = @ \/ overlaid, !.stamped = TRUE]
  BY DEF Underway, IsPass, PassFields
<1> HIDE DEF t
<1>2. /\ IsStore(t.work)
      /\ t.work.files = work.files /\ t.work.nodes = work.nodes
      /\ t.work.edges = work.edges /\ t.work.refs = work.refs
      /\ t.work.imports = work.imports
      /\ t.work.scip \in BOOLEAN /\ t.work.stamped \in BOOLEAN
  <2>1. ASSUME NEW scip \in BOOLEAN, NEW w, w = [work EXCEPT !.scip = scip, !.stamped = TRUE]
        PROVE  /\ IsStore(w)
               /\ w.files = work.files /\ w.nodes = work.nodes
               /\ w.edges = work.edges /\ w.refs = work.refs
               /\ w.imports = work.imports
               /\ w.scip \in BOOLEAN /\ w.stamped \in BOOLEAN
    BY <1>0, <2>1 DEF IsStore, Tables
  <2>2. (work.scip \/ overlaid) \in BOOLEAN
    OBVIOUS
  <2> QED BY <1>1, <2>1, <2>2
<1>3. Whole(t.work) /\ SaidOutside(t.work, before \ wrote)
  BY <1>2, SameTables
<1>4. t.left \in Seq(ToSet(Units))
  <2>1. t.left = Units \/ t.left = <<>>
    BY <1>1
  <2>2. <<>> \in Seq(ToSet(Units))
    OBVIOUS
  <2> QED BY <2>1, <2>2, UnitsAreSeq
<1>5. (before \ t.wrote) \cup t.moved = before \ wrote
  BY <1>1
<1> QED BY <1>1, <1>2, <1>3, <1>4, <1>5 DEF PassHolds, t

----------------------------------------------------------------------------
(* The steps.                                                               *)

\* A pass that will run the overlay looked at the whole tree: what it has written
\* is the tree.
LEMMA BeginHolds ==
    ASSUME GraphInv, NEW look \in SUBSET Path, NEW hinted \in BOOLEAN, NEW force \in BOOLEAN,
           Begin(look, hinted, force)
    PROVE  PassHolds(pass', disk, raced)
<1> DEFINE whole == force \/ ~store.stamped
           targets == Rewrite(look, whole)
           read == [p \in {q \in targets : disk[q] # Gone} |-> disk[p]]
           work == Written(Forget(store, targets), read)
<1>1. pass' = Underway(work, planned /\ ~hinted, targets) /\ (~hinted => look = Path)
  BY DEF Begin
<1>2. targets \in SUBSET Path /\ Changed(look) \subseteq targets
  BY DEF Rewrite, Changed
<1>3. /\ disk \in [Path -> Version \cup {Gone}] /\ Whole(store) /\ SaidOutside(store, raced)
      /\ (planned /\ ~hinted) \in BOOLEAN
  BY DEF GraphInv
<1> HIDE DEF targets
<1>4. /\ Whole(work) /\ SaidOutside(work, raced \ targets)
      /\ \A p \in targets : work.files[p] = disk[p]
      /\ \A p \in Path \ targets : work.files[p] = store.files[p]
  BY <1>2, <1>3, WorkWhole
<1> HIDE DEF work
<1>5. (planned /\ ~hinted) => \A p \in Path : work.files[p] = disk[p]
  BY <1>1, <1>2, <1>4 DEF Changed
<1> QED BY <1>1, <1>2, <1>3, <1>4, <1>5, UnderwayHolds

\* What an indexer writes now is of the texts there are now.
LEMMA MayIndexHolds ==
    ASSUME NEW u, NEW docs \in MayIndex(u), disk \in [Path -> Version \cup {Gone}]
    PROVE  DocsHold(docs, disk)
<1>1. PICK ps : /\ ps \subseteq {p \in Path : disk[p] # Gone}
                /\ docs = [p \in ps |-> [text |-> disk[p], moved |-> FALSE]]
  BY DEF MayIndex
<1>2. \A p \in ps : disk[p] \in Version
  BY <1>1
<1> QED BY <1>1, <1>2 DEF DocsHold

\* One unit of the overlay keeps the transaction whole, and what an artifact says
\* of texts that moved is laid at the door of the files that moved.
LEMMA OverlayHolds ==
    ASSUME GraphInv, Overlay
    PROVE  /\ DOMAIN index' = ToSet(Units)
           /\ \A u \in ToSet(Units) : DocsHold(index'[u], disk)
           /\ PassHolds(pass', disk, raced)
<1> DEFINE u == Head(pass.left)
           blamed == (raced \ pass.wrote) \cup pass.moved
<1>1. PassHolds(pass, disk, raced) /\ pass.left # <<>>
  BY DEF Overlay, GraphInv
<1>2. /\ pass.left \in Seq(ToSet(Units)) /\ pass.rewrote /\ IsPass(pass)
      /\ Whole(pass.work) /\ SaidOutside(pass.work, blamed)
      /\ \A p \in Path \ pass.moved : pass.work.files[p] = disk[p]
  BY <1>1 DEF PassHolds
<1>3. u \in ToSet(Units) /\ Tail(pass.left) \in Seq(ToSet(Units))
  BY <1>1, <1>2
<1>4. /\ disk \in [Path -> Version \cup {Gone}] /\ DOMAIN index = ToSet(Units)
      /\ \A v \in ToSet(Units) : DocsHold(index[v], disk)
  BY DEF GraphInv
<1>5. PICK docs \in MayIndex(u) \cup {index[u]} :
        /\ index' = [index EXCEPT ![u] = docs]
        /\ \/ pass' = [pass EXCEPT !.left = Tail(@), !.said[u] = "refused"]
           \/ pass' = [pass EXCEPT !.left = Tail(@), !.said[u] = "merged",
                                   !.work = Ingested(@, docs, Joined(pass.work, docs))]
  BY DEF Overlay
<1> HIDE DEF u, blamed
<1>6. DocsHold(docs, disk)
  BY <1>3, <1>4, <1>5, MayIndexHolds
<1>7. DOMAIN index' = ToSet(Units) /\ \A v \in ToSet(Units) : DocsHold(index'[v], disk)
  BY <1>3, <1>4, <1>5, <1>6
<1> DEFINE next == Ingested(pass.work, docs, Joined(pass.work, docs))
<1>8. /\ Whole(next) /\ SaidOutside(next, blamed) /\ next.files = pass.work.files
  <2>1. \A p \in Fresh(pass.work, docs) : p \in Path /\ ~docs[p].moved /\ docs[p].text = disk[p]
    BY <1>6 DEF Fresh, DocsHold
  <2>2. \A p \in Fresh(pass.work, docs) : p \notin blamed => docs[p].text = pass.work.files[p]
    BY <1>2, <2>1 DEF blamed
  <2>3. SaidOutside(next, blamed)
    BY <1>2, <2>2, IngestedSaid
  <2>4. Whole(next)
    BY <1>2, IngestedWhole
  <2>5. IsStore(pass.work)
    BY <1>2 DEF Whole, InOrder
  <2>6. next.files = pass.work.files
    BY <2>5, IngestedFiles
  <2> QED BY <2>3, <2>4, <2>6
<1> HIDE DEF next
<1>9. /\ IsPass(pass') /\ pass'.rewrote = pass.rewrote /\ pass'.wrote = pass.wrote
      /\ pass'.moved = pass.moved /\ pass'.left = Tail(pass.left)
      /\ pass'.work \in {pass.work, next}
  <2>1. CASE pass' = [pass EXCEPT !.left = Tail(@), !.said[u] = "refused"]
    BY <1>2, <2>1 DEF IsPass, PassFields
  <2>2. CASE pass' = [pass EXCEPT !.left = Tail(@), !.said[u] = "merged", !.work = next]
    BY <1>2, <2>2 DEF IsPass, PassFields
  <2> QED BY <1>5, <2>1, <2>2 DEF next
<1>10. /\ Whole(pass'.work) /\ SaidOutside(pass'.work, blamed)
       /\ pass'.work.files = pass.work.files
  BY <1>2, <1>8, <1>9
<1>11. PassHolds(pass', disk, raced)
  <2>1. (raced \ pass'.wrote) \cup pass'.moved = blamed
    BY <1>9 DEF blamed
  <2> QED BY <1>1, <1>2, <1>3, <1>9, <1>10, <2>1 DEF PassHolds
<1> QED BY <1>7, <1>11

\* rebuild_fts leaves the other tables alone.
LEMMA RebuiltWhole ==
    ASSUME NEW s, Whole(s)
    PROVE  Whole(Rebuilt(s)) /\ \A moved : SaidOutside(s, moved) => SaidOutside(Rebuilt(s), moved)
<1>1. IsStore(s) /\ s.scip \in BOOLEAN /\ s.stamped \in BOOLEAN
  BY DEF Whole, InOrder
<1>2. ASSUME NEW fts, NEW t, t = [s EXCEPT !.fts = fts]
      PROVE  /\ IsStore(t) /\ t.files = s.files /\ t.nodes = s.nodes /\ t.edges = s.edges
             /\ t.refs = s.refs /\ t.imports = s.imports
             /\ t.scip \in BOOLEAN /\ t.stamped \in BOOLEAN
  BY <1>1, <1>2 DEF IsStore, Tables
<1>3. /\ IsStore(Rebuilt(s)) /\ Rebuilt(s).files = s.files /\ Rebuilt(s).nodes = s.nodes
      /\ Rebuilt(s).edges = s.edges /\ Rebuilt(s).refs = s.refs
      /\ Rebuilt(s).imports = s.imports
      /\ Rebuilt(s).scip \in BOOLEAN /\ Rebuilt(s).stamped \in BOOLEAN
  BY <1>2 DEF Rebuilt
<1> QED BY <1>3, SameTables

\* A file that moves counts from then on as moved, under the pass and in the
\* artifacts that have it.
LEMMA EditHolds ==
    ASSUME GraphInv, NEW p \in Path, NEW v \in Version \cup {Gone}, Edit(p, v)
    PROVE  /\ DOMAIN index' = ToSet(Units)
           /\ \A u \in ToSet(Units) : DocsHold(index'[u], disk')
           /\ pass' # NoPass => PassHolds(pass', disk', raced)
<1>1. /\ disk' = [disk EXCEPT ![p] = v] /\ disk \in [Path -> Version \cup {Gone}]
      /\ \A q \in Path : q # p => disk'[q] = disk[q]
  BY DEF Edit, GraphInv
<1>2. DOMAIN index' = ToSet(Units)
  BY DEF Edit, GraphInv
<1>3. ASSUME NEW u \in ToSet(Units)
      PROVE  DocsHold(index'[u], disk')
  <2>1. DocsHold(index[u], disk)
    BY DEF GraphInv
  <2>2. CASE p \in DOMAIN index[u]
    <3>1. index'[u] = [index[u] EXCEPT ![p].moved = TRUE]
      BY <2>2 DEF Edit, GraphInv
    <3>2. /\ DOMAIN index'[u] = DOMAIN index[u]
          /\ index'[u] = [q \in DOMAIN index'[u] |-> index'[u][q]]
      BY <2>1, <3>1 DEF DocsHold
    <3>3. index'[u][p] = [index[u][p] EXCEPT !.moved = TRUE]
      BY <2>1, <2>2, <3>1 DEF DocsHold
    <3>4. index'[u][p] \in [text : Version, moved : BOOLEAN] /\ index'[u][p].moved
      BY <2>1, <2>2, <3>3 DEF DocsHold
    <3>5. \A q \in DOMAIN index[u] : q # p => index'[u][q] = index[u][q]
      BY <2>1, <3>1 DEF DocsHold
    <3>6. ASSUME NEW q \in DOMAIN index'[u]
          PROVE  /\ index'[u][q] \in [text : Version, moved : BOOLEAN]
                 /\ ~index'[u][q].moved => index'[u][q].text = disk'[q]
      <4>1. CASE q = p
        BY <3>4, <4>1
      <4>2. CASE q # p
        BY <1>1, <2>1, <3>2, <3>5, <4>2 DEF DocsHold
      <4> QED BY <4>1, <4>2
    <3> QED BY <2>1, <3>2, <3>6 DEF DocsHold
  <2>3. CASE p \notin DOMAIN index[u]
    <3>1. index'[u] = index[u]
      BY <2>3 DEF Edit, GraphInv
    <3> QED BY <1>1, <2>1, <2>3, <3>1 DEF DocsHold
  <2> QED BY <2>2, <2>3
<1>4. ASSUME pass' # NoPass
      PROVE  PassHolds(pass', disk', raced)
  <2>1. pass # NoPass /\ pass' = [pass EXCEPT !.moved = @ \cup {p}]
    BY <1>4 DEF Edit
  <2>2. PassHolds(pass, disk, raced)
    BY <2>1 DEF GraphInv
  <2>3. /\ IsPass(pass') /\ pass'.rewrote = pass.rewrote /\ pass'.wrote = pass.wrote
        /\ pass'.moved = pass.moved \cup {p} /\ pass'.left = pass.left
        /\ pass'.work = pass.work
    BY <2>1, <2>2 DEF PassHolds, IsPass, PassFields
  <2>4. SaidOutside(pass'.work, (raced \ pass'.wrote) \cup pass'.moved)
    BY <2>2, <2>3 DEF PassHolds, SaidOutside
  <2>5. pass'.rewrote => \A q \in Path \ pass'.moved : pass'.work.files[q] = disk'[q]
    BY <1>1, <2>2, <2>3 DEF PassHolds
  <2> QED BY <2>2, <2>3, <2>4, <2>5 DEF PassHolds
<1> QED BY <1>2, <1>3, <1>4

\* Every step keeps the inductive invariant.
LEMMA GraphStep == GraphInv /\ [Next]_vars => GraphInv'
<1> SUFFICES ASSUME GraphInv, [Next]_vars PROVE GraphInv'
  OBVIOUS
<1> USE DEF GraphInv
<1>1. ASSUME NEW look \in SUBSET Path, NEW hinted \in BOOLEAN, NEW force \in BOOLEAN,
             Begin(look, hinted, force)
      PROVE  GraphInv'
  <2>1. PassHolds(pass', disk, raced)
    BY <1>1, BeginHolds
  <2>2. UNCHANGED <<disk, planned, index, store, raced, edits>>
    BY <1>1 DEF Begin
  <2> QED BY <2>1, <2>2
<1>2. CASE Overlay
  <2>1. /\ DOMAIN index' = ToSet(Units)
        /\ \A u \in ToSet(Units) : DocsHold(index'[u], disk)
        /\ PassHolds(pass', disk, raced)
    BY <1>2, OverlayHolds
  <2>2. UNCHANGED <<disk, planned, store, raced, edits>>
    BY <1>2 DEF Overlay
  <2> QED BY <2>1, <2>2
<1>3. CASE Commit
  <2>1. /\ pass # NoPass /\ pass' = NoPass
        /\ store' \in {Rebuilt(pass.work), pass.work}
        /\ raced' = (raced \ pass.wrote) \cup pass.moved
        /\ UNCHANGED <<disk, planned, index, edits>>
    BY <1>3 DEF Commit
  <2>2. PassHolds(pass, disk, raced)
    BY <2>1
  <2>3. Whole(pass.work) /\ SaidOutside(pass.work, raced') /\ raced' \subseteq Path
    BY <2>1, <2>2 DEF PassHolds
  <2>4. Whole(store') /\ SaidOutside(store', raced')
    BY <2>1, <2>3, RebuiltWhole
  <2> QED BY <2>1, <2>3, <2>4
<1>4. CASE Abort
  BY <1>4 DEF Abort
<1>5. ASSUME NEW p \in Path, NEW v \in Version \cup {Gone}, Edit(p, v)
      PROVE  GraphInv'
  <2>1. /\ DOMAIN index' = ToSet(Units)
        /\ \A u \in ToSet(Units) : DocsHold(index'[u], disk')
        /\ pass' # NoPass => PassHolds(pass', disk', raced)
    BY <1>5, EditHolds
  <2>2. /\ disk' \in [Path -> Version \cup {Gone}] /\ edits' \in 0 .. MaxEdits
        /\ UNCHANGED <<planned, store, raced>>
    BY <1>5, GraphAssumption DEF Edit
  <2> QED BY <2>1, <2>2
<1>6. CASE Replan
  BY <1>6, GraphAssumption DEF Replan
<1>7. CASE UNCHANGED vars
  BY <1>7 DEF vars
<1> QED BY <1>1, <1>2, <1>3, <1>4, <1>5, <1>6, <1>7 DEF Next

----------------------------------------------------------------------------
(* What a reader of the store may count on.                                 *)

\* A store that is whole keeps the keys and the foreign keys.
LEMMA WholeTables ==
    ASSUME NEW s, Whole(s)
    PROVE  StoreOK(s)
<1>1. s.files \in [Path -> Version \cup {Gone}] /\ s.scip \in BOOLEAN /\ s.stamped \in BOOLEAN
  BY DEF Whole, InOrder
<1>2. Parsed(s.files) \subseteq Stored(s)
  BY WholePaths DEF Stored
<1>3. \A n \in s.nodes : n.path \in Stored(s) /\ \A m \in s.nodes : Id(m) = Id(n) => m = n
  BY <1>2, WholePaths DEF Whole, InOrder, KeysApart
<1>4. \A e \in s.edges : e.src \in IdsOf(s) /\ e.dst \in IdsOf(s) /\ e.conf \in 1 .. 1000
  <2>1. IdsOf(s) = Ids(s.nodes)
    BY DEF IdsOf, Ids
  <2> QED BY <2>1 DEF Whole, EdgesHold
<1>5. \A r \in s.refs : r.path \in Stored(s)
  <2>1. s.refs = RefRows(s.files) /\ Texts(s.files)
    BY WholePaths DEF Whole, AsWritten
  <2>2. \A r \in RefRows(s.files) : r.path \in Parsed(s.files)
    BY RefsOfFile DEF RefRows
  <2> QED BY <1>2, <2>1, <2>2
<1> QED BY <1>1, <1>3, <1>4, <1>5 DEF StoreOK

\* However the passes, the overlay, the edits and the crashes fall, the tables keep
\* their keys: a node is the only one at its bytes, an edge has a node at either
\* end, no row outlives the file row it belongs to (the keys of store.py).
THEOREM GraphTypes == Spec => []TypeOK
<1>1. GraphInv => TypeOK
  <2> SUFFICES ASSUME GraphInv PROVE TypeOK
    OBVIOUS
  <2>1. StoreOK(store)
    BY WholeTables DEF GraphInv
  <2>2. pass # NoPass => StoreOK(pass.work)
    BY WholeTables DEF GraphInv, PassHolds
  <2>3. \A u \in ToSet(Units) : DOMAIN index[u] \subseteq Path
    BY DEF GraphInv, DocsHold
  <2> QED BY <2>1, <2>2, <2>3 DEF GraphInv, TypeOK
<1> QED BY <1>1, GraphInit, GraphStep, PTL DEF Spec

\* One pass over all the stored texts, table by table.
LEMMA ScratchFields ==
    ASSUME NEW s, Whole(s)
    PROVE  /\ FromScratch(s).nodes = NodeRows(s.files)
           /\ FromScratch(s).edges = EdgeRows(s.files)
           /\ FromScratch(s).refs = RefRows(s.files)
           /\ FromScratch(s).imports = Imported(s.files)
<1> DEFINE texts == [p \in Stored(s) |-> s.files[p]]
           fresh == Written(NoStore, texts)
<1>1. /\ NoStore.files = [p \in Path |-> Gone] /\ NoStore.nodes = {} /\ NoStore.edges = {}
      /\ NoStore.refs = {} /\ NoStore.imports = [p \in Path |-> <<>>]
  BY DEF NoStore
<1>2. Whole(NoStore) /\ IsStore(NoStore)
  BY NothingWhole DEF Whole, InOrder
<1>3. DOMAIN texts = Stored(s) /\ \A p \in Stored(s) : texts[p] = s.files[p]
  OBVIOUS
<1>4. s.files \in [Path -> Version \cup {Gone}]
  BY DEF Whole, InOrder
<1> HIDE DEF texts
<1>5. Texts(texts) /\ \A p \in DOMAIN texts : texts[p] # Gone
  BY <1>3, <1>4 DEF Texts, Stored
<1>6. With(NoStore.files, texts) = s.files
  <2>1. \A p \in Path : (IF p \in DOMAIN texts THEN texts[p] ELSE NoStore.files[p]) = s.files[p]
    BY <1>1, <1>3 DEF Stored
  <2> QED BY <1>4, <2>1 DEF With
<1>7. /\ fresh.nodes = NodeRows(texts) /\ fresh.edges = EdgeRows(texts)
      /\ fresh.refs = RefRows(texts)
      /\ fresh.imports = Imported(texts)
  <2>1. /\ fresh.nodes = NoStore.nodes \cup NodeRows(texts)
        /\ fresh.edges = NoStore.edges \cup EdgeRows(texts)
        /\ fresh.refs = NoStore.refs \cup RefRows(texts)
        /\ fresh.imports = [p \in Path |-> IF p \in Parsed(texts) THEN FactIn(texts, p).imports
                                           ELSE NoStore.imports[p]]
    BY <1>2, <1>5, WrittenFields
  <2> HIDE DEF fresh
  <2> QED BY <1>1, <2>1 DEF Imported
<1> HIDE DEF fresh
<1>8. /\ Parsed(s.files) = Parsed(NoStore.files) \cup Parsed(texts)
      /\ NodeRows(s.files) = NodeRows(NoStore.files) \cup NodeRows(texts)
      /\ EdgeRows(s.files) = EdgeRows(NoStore.files) \cup EdgeRows(texts)
      /\ RefRows(s.files) = RefRows(NoStore.files) \cup RefRows(texts)
  <2>1. Texts(NoStore.files) /\ DOMAIN NoStore.files = Path
    BY <1>1 DEF Texts
  <2>2. \A p \in DOMAIN texts : NoStore.files[p] = Gone
    BY <1>1, <1>5 DEF Texts
  <2> QED BY <1>5, <1>6, <2>1, <2>2, RowsWith
<1>9. Parsed(NoStore.files) = {}
  BY <1>1 DEF Parsed
<1>10. /\ NodeRows(NoStore.files) = {} /\ EdgeRows(NoStore.files) = {}
       /\ RefRows(NoStore.files) = {}
  BY <1>9 DEF NodeRows, EdgeRows, RefRows
<1>11. Imported(texts) = Imported(s.files)
  <2>1. \A p \in Parsed(texts) : FactIn(texts, p) = FactIn(s.files, p)
    BY <1>3 DEF FactIn, Parsed
  <2>2. Parsed(texts) = Parsed(s.files)
    BY <1>8, <1>9
  <2> QED BY <2>1, <2>2 DEF Imported
<1> QED BY <1>7, <1>8, <1>10, <1>11 DEF FromScratch, fresh, texts

\* A store written by many passes, some of them cut off and some over a few files
\* only, holds what one pass over the same texts would write; the overlay changed
\* no more than the names of nodes and the edges of calls (index.index_once,
\* indexwrite, ingest.ingest).
THEOREM PassesAddUp == Spec => []IncrementalIsFromScratch
<1>1. GraphInv => IncrementalIsFromScratch
  <2> SUFFICES ASSUME GraphInv PROVE IncrementalIsFromScratch
    OBVIOUS
  <2> DEFINE fresh == FromScratch(store)
  <2>1. AsWritten(store)
    BY DEF GraphInv, Whole
  <2>2. /\ fresh.nodes = NodeRows(store.files) /\ fresh.edges = EdgeRows(store.files)
        /\ fresh.refs = RefRows(store.files) /\ fresh.imports = Imported(store.files)
    BY ScratchFields DEF GraphInv
  <2> HIDE DEF fresh
  <2>3. /\ store.refs = fresh.refs
        /\ store.imports = fresh.imports
        /\ {Place(n) : n \in store.nodes} = {Place(n) : n \in fresh.nodes}
        /\ {n \in store.nodes : n.tier = "treesitter"} \subseteq fresh.nodes
        /\ {e \in store.edges : e.producer # Tool} \subseteq fresh.edges
        /\ \A e \in fresh.edges \ store.edges : e.kind = "CALLS"
    BY <2>1, <2>2 DEF AsWritten, Places
  <2> QED BY <2>3 DEF IncrementalIsFromScratch, fresh
<1> QED BY <1>1, GraphInit, GraphStep, PTL DEF Spec

\* A call the compiler decided has that one edge, and the two stored texts, as the
\* compiler reads them, say so: unless one of them moved while it was being
\* written, and that is the window _stale leaves (ingest._rewrite_call, _stale).
THEOREM CompilerDecides == Spec => []ScipEdgesStandAlone
<1>1. GraphInv => ScipEdgesStandAlone
  <2> SUFFICES ASSUME GraphInv, NEW e \in store.edges, e.evidence = "scip", e.kind = "CALLS"
               PROVE  /\ CallEdges(store, e.src.path, e.site) = {e}
                      /\ {e.src.path, e.dst.path} \cap raced = {} => Says(e)
    BY DEF ScipEdgesStandAlone
  <2>1. ByCompiler(e) /\ Whole(store) /\ SaidOutside(store, raced)
    BY DEF ByCompiler, GraphInv
  <2>2. CallEdges(store, e.src.path, e.site) = {e}
    BY <2>1 DEF Whole, Alone
  <2>3. CallsAt(FactIn(store.files, e.src.path), e.site)
    BY <2>1 DEF Whole, EdgesHold
  <2>4. {e.src.path, e.dst.path} \cap raced = {} => DocumentsSay(store.files, e)
    BY <2>1 DEF SaidOutside
  <2> QED BY <2>2, <2>3, <2>4 DEF Says, CallsAt, FactIn, DocumentsSay
<1> QED BY <1>1, GraphInit, GraphStep, PTL DEF Spec

----------------------------------------------------------------------------
(* The full-text index.                                                     *)

Indexed(s) == s.fts = Postings(s.nodes)

\* A pass that does not run the overlay has no unit left and its postings in
\* order; one that does will rebuild them.
IndexedByTheEnd(t) ==
    /\ IsPass(t) /\ IsStore(t.work)
    /\ t.rewrote \/ (t.left = <<>> /\ Indexed(t.work))

FtsInv ==
    /\ IsStore(store) /\ Indexed(store)
    /\ pass # NoPass => IndexedByTheEnd(pass)

\* The postings taken out are those of the nodes that go: a posting says whose
\* it is.
LEMMA ForgetIndexed ==
    ASSUME NEW s, NEW ps, IsStore(s), Indexed(s)
    PROVE  IsStore(Forget(s, ps)) /\ Indexed(Forget(s, ps))
<1> DEFINE files == [p \in Path |-> IF p \in ps THEN Gone ELSE s.files[p]]
           kept == {n \in s.nodes : n.path \notin ps}
           gone == {n \in s.nodes : n.path \in ps}
           edges == {e \in s.edges : e.src.path \notin ps /\ e.dst.path \notin ps}
           refs == {r \in s.refs : r.path \notin ps}
           imports == [p \in Path |-> IF p \in ps THEN <<>> ELSE s.imports[p]]
<1>1. /\ IsStore(Forget(s, ps))
      /\ Forget(s, ps).nodes = kept
      /\ Forget(s, ps).fts = s.fts \ Postings(gone)
  <2>1. Forget(s, ps) = [s EXCEPT !.files = files, !.nodes = kept, !.edges = edges,
                                  !.refs = refs, !.imports = imports,
                                  !.fts = s.fts \ Postings(gone)]
    BY DEF Forget, Postings
  <2> HIDE DEF files, kept, gone, edges, refs, imports
  <2> QED BY <2>1 DEF IsStore, Tables
<1>2. \A n, m \in s.nodes : Posting(n) = Posting(m) => n.path = m.path
  BY DEF Posting, Id
<1>3. Postings(s.nodes) \ Postings(gone) = Postings(kept)
  BY <1>2 DEF Postings
<1> QED BY <1>1, <1>3 DEF Indexed

\* The postings put in are those of the nodes that come.
LEMMA WrittenIndexed ==
    ASSUME NEW s, NEW texts, IsStore(s), Indexed(s)
    PROVE  IsStore(Written(s, texts)) /\ Indexed(Written(s, texts))
<1> DEFINE facts == [p \in DOMAIN texts |-> FactsOf[p][texts[p]]]
           table == {p \in DOMAIN texts : ~facts[p].error}
           nodes == UNION {NodesOf(p, facts[p]) : p \in table}
<1>1. /\ IsStore(Written(s, texts))
      /\ Written(s, texts).nodes = s.nodes \cup nodes
      /\ Written(s, texts).fts = s.fts \cup Postings(nodes)
  <2> DEFINE edges == s.edges \cup UNION {StructuralEdges(p, facts[p])
                                             \cup ReferenceEdges(p, facts[p]) : p \in table}
             refs == s.refs \cup UNION {RefsOf(p, facts[p]) : p \in table}
  <2>1. Written(s, texts) = [s EXCEPT !.files = FileRows(s, texts), !.nodes = s.nodes \cup nodes,
                                      !.edges = edges, !.refs = refs,
                                      !.imports = ImportRows(s, facts, table),
                                      !.fts = s.fts \cup Postings(nodes)]
    BY DEF Written, Posted, Postings
  <2> HIDE DEF facts, table, nodes, edges, refs
  <2> QED BY <2>1 DEF IsStore, Tables
<1>2. Postings(s.nodes \cup nodes) = Postings(s.nodes) \cup Postings(nodes)
  BY DEF Postings
<1> QED BY <1>1, <1>2 DEF Indexed

\* A pass that will not rebuild the postings starts with all of them.
LEMMA UnderwayIndexed ==
    ASSUME NEW work, NEW overlaid \in BOOLEAN, NEW wrote, IsStore(work), Indexed(work)
    PROVE  IndexedByTheEnd(Underway(work, overlaid, wrote))
<1> DEFINE t == Underway(work, overlaid, wrote)
<1>1. /\ IsPass(t) /\ t.rewrote = overlaid
      /\ ~overlaid => t.left = <<>>
      /\ t.work = [work EXCEPT !.scip = @ \/ overlaid, !.stamped = TRUE]
  BY DEF Underway, IsPass, PassFields
<1>2. IsStore(t.work) /\ t.work.fts = work.fts /\ t.work.nodes = work.nodes
  BY <1>1 DEF IsStore, Tables
<1> QED BY <1>1, <1>2 DEF IndexedByTheEnd, Indexed

\* The overlay leaves the tables their shapes.
LEMMA IngestedStore ==
    ASSUME NEW s, NEW docs, NEW joined, IsStore(s)
    PROVE  IsStore(Ingested(s, docs, joined))
BY DescribedFields, RewrittenFields DEF Ingested

\* FtsInv holds at the start.
LEMMA FtsInit == Init => FtsInv
<1> SUFFICES ASSUME Init PROVE FtsInv
  OBVIOUS
<1>1. store = NoStore /\ pass = NoPass
  BY DEF Init
<1>2. IsStore(NoStore) /\ Indexed(NoStore)
  BY DEF NoStore, IsStore, Tables, Indexed, Postings
<1> QED BY <1>1, <1>2 DEF FtsInv

\* Every step keeps FtsInv.
LEMMA FtsStep == FtsInv /\ [Next]_vars => FtsInv'
<1> SUFFICES ASSUME FtsInv, [Next]_vars PROVE FtsInv'
  OBVIOUS
<1>1. ASSUME NEW look \in SUBSET Path, NEW hinted \in BOOLEAN, NEW force \in BOOLEAN,
             Begin(look, hinted, force)
      PROVE  FtsInv'
  <2>1. PICK targets, texts :
           pass' = Underway(Written(Forget(store, targets), texts), planned /\ ~hinted, targets)
    BY <1>1 DEF Begin
  <2>2. store' = store
    BY <1>1 DEF Begin
  <2>3. IsStore(store) /\ Indexed(store)
    BY DEF FtsInv
  <2>4. IsStore(Forget(store, targets)) /\ Indexed(Forget(store, targets))
    BY <2>3, ForgetIndexed
  <2>5. /\ IsStore(Written(Forget(store, targets), texts))
        /\ Indexed(Written(Forget(store, targets), texts))
    BY <2>4, WrittenIndexed
  <2>6. (planned /\ ~hinted) \in BOOLEAN
    OBVIOUS
  <2>7. IndexedByTheEnd(pass')
    BY <2>1, <2>5, <2>6, UnderwayIndexed
  <2> QED BY <2>2, <2>3, <2>7 DEF FtsInv, IndexedByTheEnd, IsPass, IsStore, Indexed, Postings
<1>2. CASE Overlay
  <2>1. pass # NoPass /\ pass.left # <<>> /\ store' = store
    BY <1>2 DEF Overlay
  <2>2. IsPass(pass) /\ IsStore(pass.work) /\ pass.rewrote
    BY <2>1 DEF FtsInv, IndexedByTheEnd
  <2> DEFINE u == Head(pass.left)
  <2>3. \/ pass' = [pass EXCEPT !.left = Tail(@), !.said[u] = "refused"]
        \/ \E docs, joined :
              pass' = [pass EXCEPT !.left = Tail(@), !.said[u] = "merged",
                                   !.work = Ingested(@, docs, joined)]
    BY <1>2 DEF Overlay
  <2> HIDE DEF u
  <2>4. IndexedByTheEnd(pass')
    <3>1. CASE pass' = [pass EXCEPT !.left = Tail(@), !.said[u] = "refused"]
      <4>1. IsPass(pass') /\ pass'.work = pass.work /\ pass'.rewrote = pass.rewrote
        BY <2>2, <3>1 DEF IsPass, PassFields
      <4> QED BY <2>2, <4>1 DEF IndexedByTheEnd
    <3>2. ASSUME NEW docs, NEW joined,
                 pass' = [pass EXCEPT !.left = Tail(@), !.said[u] = "merged",
                                      !.work = Ingested(@, docs, joined)]
          PROVE  IndexedByTheEnd(pass')
      <4>1. /\ IsPass(pass') /\ pass'.rewrote = pass.rewrote
            /\ pass'.work = Ingested(pass.work, docs, joined)
        BY <2>2, <3>2 DEF IsPass, PassFields
      <4>2. IsStore(pass'.work)
        BY <2>2, <4>1, IngestedStore
      <4> QED BY <2>2, <4>1, <4>2 DEF IndexedByTheEnd
    <3> QED BY <2>3, <3>1, <3>2
  <2>5. IsStore(store) /\ Indexed(store)
    BY DEF FtsInv
  <2> QED BY <2>1, <2>4, <2>5 DEF FtsInv, IndexedByTheEnd, IsPass, IsStore, Indexed, Postings
<1>3. CASE Commit
  <2>1. /\ pass # NoPass /\ pass' = NoPass
        /\ store' = IF pass.rewrote THEN Rebuilt(pass.work) ELSE pass.work
    BY <1>3 DEF Commit
  <2>2. IsStore(pass.work) /\ (pass.rewrote \/ Indexed(pass.work))
    BY <2>1 DEF FtsInv, IndexedByTheEnd
  <2>3. IsStore(Rebuilt(pass.work)) /\ Indexed(Rebuilt(pass.work))
    BY <2>2 DEF Rebuilt, IsStore, Tables, Indexed, Postings
  <2>4. IsStore(store') /\ Indexed(store')
    BY <2>1, <2>2, <2>3
  <2> QED BY <2>1, <2>4 DEF FtsInv, IsStore, Indexed, Postings
<1>4. CASE Abort
  BY <1>4 DEF Abort, FtsInv, IsStore, Indexed, Postings
<1>5. ASSUME NEW p \in Path, NEW v \in Version \cup {Gone}, Edit(p, v)
      PROVE  FtsInv'
  <2>1. /\ store' = store
        /\ pass' = IF pass = NoPass THEN NoPass ELSE [pass EXCEPT !.moved = @ \cup {p}]
    BY <1>5 DEF Edit
  <2>2. IsStore(store) /\ Indexed(store)
    BY DEF FtsInv
  <2>3. ASSUME pass' # NoPass PROVE IndexedByTheEnd(pass')
    <3>1. pass # NoPass /\ pass' = [pass EXCEPT !.moved = @ \cup {p}]
      BY <2>1, <2>3
    <3>2. IndexedByTheEnd(pass)
      BY <3>1 DEF FtsInv
    <3>3. /\ IsPass(pass') /\ pass'.work = pass.work
          /\ pass'.rewrote = pass.rewrote /\ pass'.left = pass.left
      BY <3>1, <3>2 DEF IndexedByTheEnd, IsPass, PassFields
    <3> QED BY <3>2, <3>3 DEF IndexedByTheEnd
  <2> QED BY <2>1, <2>2, <2>3 DEF FtsInv, IndexedByTheEnd, IsPass, IsStore, Indexed, Postings
<1>6. CASE Replan
  BY <1>6 DEF Replan, FtsInv, IndexedByTheEnd, IsPass, IsStore, Indexed, Postings
<1>7. CASE UNCHANGED vars
  BY <1>7 DEF vars, FtsInv, IndexedByTheEnd, IsPass, IsStore, Indexed, Postings
<1> QED BY <1>1, <1>2, <1>3, <1>4, <1>5, <1>6, <1>7 DEF Next

\* find_symbol finds each node under the names it has: however the passes, the
\* overlay and the readers fall, a committed store has the postings of its nodes.
THEOREM FtsFaithful == Spec => []FtsMatchesNodes
<1>1. FtsInv => FtsMatchesNodes
  BY DEF FtsInv, FtsMatchesNodes, Indexed, Postings
<1> QED BY <1>1, FtsInit, FtsStep, PTL DEF Spec

----------------------------------------------------------------------------
(* A sum over a finite set.                                                 *)

\* A member that CHOOSE takes, and the sum over the subsets of a set it adds to.
OneOf(s) == CHOOSE x \in s : TRUE
Adds(S, f, g) ==
    g = [s \in SUBSET S |-> IF s = {} THEN 0 ELSE f[OneOf(s)] + g[s \ {OneOf(s)}]]

\* SumFunctionOnSet is that sum, if there is one.
LEMMA SumIsChosen ==
    ASSUME NEW S, NEW f
    PROVE  SumFunctionOnSet(f, S) = (CHOOSE g : Adds(S, f, g))[S]
BY DEF SumFunctionOnSet, FoldFunctionOnSet, MapThenFoldSet, Adds, OneOf

\* Of a finite set there is such a sum.
LEMMA SumExists ==
    ASSUME NEW S, IsFiniteSet(S), NEW f \in [S -> Nat]
    PROVE  \E g \in [SUBSET S -> Nat] : Adds(S, f, g)
<1> DEFINE V == [SUBSET S -> Nat]
           more(h) == [s \in SUBSET S |-> IF s = {} THEN 0 ELSE f[OneOf(s)] + h[s \ {OneOf(s)}]]
           base == [s \in SUBSET S |-> 0]
           F == [n \in Nat |-> [h \in V |-> more(h)]]
<1>0. \A s \in SUBSET S : s # {} => OneOf(s) \in s
  BY DEF OneOf
<1>1. ASSUME NEW h \in V
      PROVE  more(h) \in V
  <2>1. ASSUME NEW s \in SUBSET S, s # {}
        PROVE  f[OneOf(s)] + h[s \ {OneOf(s)}] \in Nat
    <3>1. OneOf(s) \in S /\ s \ {OneOf(s)} \in SUBSET S
      BY <1>0, <2>1
    <3> QED BY <3>1
  <2> QED BY <2>1
<1>2. base \in V
  OBVIOUS
<1>3. F \in Steps(V)
  <2> HIDE DEF V, more
  <2> QED BY <1>1 DEF Steps
<1>4. PICK g \in [Nat -> V] : Solves(g, base, F)
  <2> HIDE DEF V, base, F
  <2> QED BY <1>2, <1>3, NamedRecursion
<1>5. g[0] = base /\ \A n \in Nat : g[n + 1] = more(g[n])
  <2>1. \A n \in Nat : F[n + 1] = [h \in V |-> more(h)]
    <3> HIDE DEF V, more
    <3> QED OBVIOUS
  <2>2. \A n \in Nat : F[n + 1][g[n]] = more(g[n])
    <3> HIDE DEF F, V, more
    <3> QED BY <2>1
  <2> HIDE DEF F, V, more, base
  <2> QED BY <1>4, <2>2 DEF Solves
<1>6. \A s \in SUBSET S : IsFiniteSet(s) /\ Cardinality(s) \in Nat
  BY FS_Subset, FS_CardinalityType
<1> DEFINE Settled == {n \in Nat : \A s \in SUBSET S : Cardinality(s) <= n => g[n + 1][s] = g[n][s]}
<1>7. ASSUME NEW n \in Nat, NEW s \in SUBSET S
      PROVE  g[n + 1][s] = IF s = {} THEN 0 ELSE f[OneOf(s)] + g[n][s \ {OneOf(s)}]
  <2>1. g[n + 1] = more(g[n])
    <3> HIDE DEF more
    <3> QED BY <1>5
  <2> QED BY <2>1
<1>8. 0 \in Settled
  <2> SUFFICES ASSUME NEW s \in SUBSET S, Cardinality(s) <= 0 PROVE g[0 + 1][s] = g[0][s]
    OBVIOUS
  <2>1. s = {}
    BY <1>6, FS_EmptySet
  <2>2. g[0][s] = 0
    BY <1>5
  <2>3. g[0 + 1][s] = 0
    <3> HIDE DEF V
    <3> QED BY <2>1, <1>7
  <2> QED BY <2>2, <2>3
<1>9. ASSUME NEW n \in Nat, n \in Settled
      PROVE  n + 1 \in Settled
  <2> SUFFICES ASSUME NEW s \in SUBSET S, Cardinality(s) <= n + 1
               PROVE  g[(n + 1) + 1][s] = g[n + 1][s]
    OBVIOUS
  <2>0. n + 1 \in Nat
    OBVIOUS
  <2>1. CASE s = {}
    <3> HIDE DEF V, more
    <3>1. g[n + 1][s] = 0
      BY <1>7, <2>1
    <3>2. g[(n + 1) + 1][s] = 0
      BY ONLY <1>7, <2>0, <2>1
    <3> QED BY <3>1, <3>2
  <2>2. CASE s # {}
    <3> DEFINE r == s \ {OneOf(s)}
    <3>1. OneOf(s) \in s /\ r \in SUBSET S
      BY <1>0, <2>2
    <3>2. Cardinality(r) <= n
      <4>1. Cardinality(r) = Cardinality(s) - 1
        BY <1>6, <3>1, FS_RemoveElement
      <4> HIDE DEF r
      <4> QED BY <1>6, <4>1
    <3>3. g[n + 1][r] = g[n][r]
      <4> HIDE DEF r, V
      <4> QED BY <1>9, <3>1, <3>2
    <3>4. g[(n + 1) + 1][s] = f[OneOf(s)] + g[n + 1][r]
      <4> HIDE DEF V, more
      <4> QED BY ONLY <1>7, <2>0, <2>2
    <3>5. g[n + 1][s] = f[OneOf(s)] + g[n][r]
      <4> HIDE DEF V
      <4> QED BY <1>7, <2>2
    <3> HIDE DEF r, V
    <3> QED BY <3>3, <3>4, <3>5
  <2> QED BY <2>1, <2>2
<1>10. Nat \subseteq Settled
  <2> HIDE DEF Settled
  <2> QED BY <1>8, <1>9, Inductive
<1> DEFINE m == Cardinality(S)
<1>11. m \in Nat /\ g[m] \in V
  <2> HIDE DEF V
  <2> QED BY <1>6
<1>12. ASSUME NEW s \in SUBSET S
       PROVE  g[m][s] = IF s = {} THEN 0 ELSE f[OneOf(s)] + g[m][s \ {OneOf(s)}]
  <2>1. Cardinality(s) <= m
    BY FS_Subset
  <2>2. g[m + 1][s] = g[m][s]
    <3> HIDE DEF m, V
    <3> QED BY <1>10, <1>11, <2>1
  <2> HIDE DEF m, V
  <2> QED BY <1>7, <1>11, <2>2
<1>13. Adds(S, f, g[m])
  <2> HIDE DEF m
  <2> QED BY <1>11, <1>12 DEF Adds
<1> HIDE DEF m, V
<1> QED BY <1>11, <1>13 DEF V

\* So a sum over a finite set is what the smaller sums come to.
SumsTo(S, f, g) ==
    /\ SumFunctionOnSet(f, S) = g[S]
    /\ g[{}] = 0
    /\ \A s \in SUBSET S : s # {} => \E x \in s : g[s] = f[x] + g[s \ {x}]

LEMMA SumUnfolds ==
    ASSUME NEW S, IsFiniteSet(S), NEW f \in [S -> Nat]
    PROVE  \E g : SumsTo(S, f, g)
<1> DEFINE g == CHOOSE h : Adds(S, f, h)
<1>1. Adds(S, f, g)
  BY SumExists
<1> HIDE DEF g
<1>2. /\ g[{}] = 0
      /\ \A s \in SUBSET S : s # {} => g[s] = f[OneOf(s)] + g[s \ {OneOf(s)}]
  BY <1>1 DEF Adds
<1>3. \A s \in SUBSET S : s # {} => OneOf(s) \in s
  BY DEF OneOf
<1>4. SumFunctionOnSet(f, S) = g[S]
  BY SumIsChosen DEF g
<1> QED BY <1>2, <1>3, <1>4 DEF SumsTo
\* The nodes of some files.
NodesIn(nodes, S) == {n \in nodes : n.path \in S}

\* A sum that is, file by file, at least a share of the nodes is one of them all.
LEMMA SumCovers ==
    ASSUME NEW S, IsFiniteSet(S), NEW f \in [S -> Nat], NEW nodes, NEW share \in Nat,
           \A p \in S : /\ IsFiniteSet(NodesIn(nodes, {p}))
                        /\ 100 * f[p] >= share * Cardinality(NodesIn(nodes, {p}))
    PROVE  /\ IsFiniteSet(NodesIn(nodes, S)) /\ SumFunctionOnSet(f, S) \in Nat
           /\ 100 * SumFunctionOnSet(f, S) >= share * Cardinality(NodesIn(nodes, S))
<1>0. PICK g : SumsTo(S, f, g)
  BY SumUnfolds
<1>1. /\ SumFunctionOnSet(f, S) = g[S]
      /\ g[{}] = 0
      /\ \A s \in SUBSET S : s # {} => \E x \in s : g[s] = f[x] + g[s \ {x}]
  BY <1>0 DEF SumsTo
<1> DEFINE holds(s) == /\ IsFiniteSet(NodesIn(nodes, s)) /\ g[s] \in Nat
                       /\ 100 * g[s] >= share * Cardinality(NodesIn(nodes, s))
           T == {n \in Nat : \A s \in SUBSET S : Cardinality(s) = n => holds(s)}
<1>2. \A s \in SUBSET S : IsFiniteSet(s) /\ Cardinality(s) \in Nat
  BY FS_Subset, FS_CardinalityType
<1>3. holds({})
  <2>1. NodesIn(nodes, {}) = {}
    BY DEF NodesIn
  <2>2. IsFiniteSet({}) /\ Cardinality({}) = 0
    BY FS_EmptySet
  <2>3. g[{}] = 0 /\ share * 0 = 0
    BY <1>1
  <2>4. g[{}] \in Nat /\ 100 * g[{}] >= share * 0
    BY <2>3
  <2> QED BY <2>1, <2>2, <2>4
<1>4. 0 \in T
  <2>1. \A s \in SUBSET S : Cardinality(s) = 0 => s = {}
    BY <1>2, FS_EmptySet
  <2> HIDE DEF holds
  <2> QED BY <1>3, <2>1
<1>5. ASSUME NEW n \in Nat, n \in T
      PROVE  n + 1 \in T
  <2> SUFFICES ASSUME NEW s \in SUBSET S, Cardinality(s) = n + 1 PROVE holds(s)
    OBVIOUS
  <2>1. s # {}
    <3>1. Cardinality({}) = 0 /\ n + 1 # 0
      BY FS_EmptySet
    <3> QED BY <3>1
  <2>2. PICK p \in s : g[s] = f[p] + g[s \ {p}]
    BY <1>1, <2>1
  <2> DEFINE r == s \ {p}
  <2>3. Cardinality(r) = n /\ r \in SUBSET S
    <3>1. Cardinality(r) = Cardinality(s) - 1
      BY <1>2, FS_RemoveElement
    <3> HIDE DEF r
    <3> QED BY <3>1 DEF r
  <2>4. holds(r)
    <3> HIDE DEF r, holds
    <3> QED BY <1>5, <2>3
  <2> DEFINE rest == NodesIn(nodes, r)
             own == NodesIn(nodes, {p})
  <2>5. /\ IsFiniteSet(rest) /\ IsFiniteSet(own)
        /\ 100 * f[p] >= share * Cardinality(own) /\ f[p] \in Nat
    BY <2>4
  <2>6. NodesIn(nodes, s) = rest \cup own /\ rest \cap own = {}
    BY DEF NodesIn
  <2> HIDE DEF rest, own
  <2>7. /\ IsFiniteSet(NodesIn(nodes, s))
        /\ Cardinality(NodesIn(nodes, s)) = Cardinality(rest) + Cardinality(own)
        /\ Cardinality(rest) \in Nat /\ Cardinality(own) \in Nat
    <3>1. Cardinality(rest \cap own) = 0
      BY <2>6, FS_EmptySet
    <3>2. Cardinality(rest) \in Nat /\ Cardinality(own) \in Nat
      BY <2>5, FS_CardinalityType
    <3>3. /\ IsFiniteSet(rest \cup own)
          /\ Cardinality(rest \cup own)
                 = Cardinality(rest) + Cardinality(own) - Cardinality(rest \cap own)
      BY <2>5, FS_Union
    <3> QED BY <2>6, <3>1, <3>2, <3>3
  <2>8. g[r] \in Nat /\ 100 * g[r] >= share * Cardinality(rest)
    BY <2>4 DEF rest
  <2>9. g[s] = f[p] + g[r]
    BY <2>2
  <2> HIDE DEF r
  <2>10. \A x, y \in Nat : share * (x + y) = share * x + share * y
    OBVIOUS
  <2>11. /\ g[s] \in Nat
         /\ share * Cardinality(NodesIn(nodes, s)) = share * Cardinality(rest) + share * Cardinality(own)
    BY <2>5, <2>7, <2>8, <2>9, <2>10
  <2>12. share * Cardinality(rest) \in Nat /\ share * Cardinality(own) \in Nat
    BY <2>7
  <2> QED BY <2>5, <2>7, <2>8, <2>9, <2>11, <2>12
<1>6. Nat \subseteq T
  <2> HIDE DEF T
  <2> QED BY <1>4, <1>5, Inductive
<1>7. holds(S)
  <2>1. Cardinality(S) \in T /\ S \in SUBSET S
    BY <1>2, <1>6
  <2> HIDE DEF holds
  <2> QED BY <2>1
<1> QED BY <1>1, <1>7

----------------------------------------------------------------------------
(* The units, and the files each of them owns.                              *)

\* Of finitely many directories in order there is one at each rank.
LEMMA Ranked ==
    ASSUME NEW S \in SUBSET Marked, NEW k \in 1 .. Cardinality(S)
    PROVE  \E d \in S : Cardinality({e \in S : Before(e, d)}) = k - 1
<1> DEFINE m == Cardinality(S)
           below(d) == {e \in S : Before(e, d)}
           r == [d \in S |-> Cardinality(below(d))]
<1>1. IsFiniteSet(S) /\ m \in Nat
  BY FS_Subset, FS_CardinalityType, GraphAssumption
<1>2. ASSUME NEW d \in S
      PROVE  /\ IsFiniteSet(below(d)) /\ Cardinality(below(d)) \in Nat
             /\ Cardinality(below(d)) <= m - 1
  <2>1. below(d) \in SUBSET (S \ {d})
    BY GraphAssumption
  <2>2. IsFiniteSet(S \ {d}) /\ Cardinality(S \ {d}) = m - 1
    BY <1>1, FS_RemoveElement
  <2> HIDE DEF below, m
  <2> QED BY <2>1, <2>2, FS_Subset, FS_CardinalityType
<1>3. ASSUME NEW d \in S, NEW e \in S, Before(d, e)
      PROVE  Cardinality(below(d)) < Cardinality(below(e))
  <2>1. below(d) \in SUBSET below(e) /\ d \in below(e) /\ d \notin below(d)
    BY <1>3, GraphAssumption
  <2> HIDE DEF below, m
  <2>2. Cardinality(below(d)) <= Cardinality(below(e)) /\ Cardinality(below(d)) # Cardinality(below(e))
    BY <1>2, <2>1, FS_Subset
  <2> QED BY <1>2, <2>2
<1>4. r \in Injection(S, 0 .. (m - 1))
  <2>1. \A d \in S : Cardinality(below(d)) \in 0 .. (m - 1)
    <3> HIDE DEF below, m
    <3> QED BY <1>1, <1>2
  <2>2. \A d, e \in S : d # e => Cardinality(below(d)) # Cardinality(below(e))
    <3>1. \A d, e \in S : d # e => Before(d, e) \/ Before(e, d)
      BY GraphAssumption
    <3> HIDE DEF below
    <3> QED BY <1>2, <1>3, <3>1
  <2> HIDE DEF below, m
  <2> QED BY <2>1, <2>2 DEF Injection, IsInjective
<1>5. IsFiniteSet(0 .. (m - 1)) /\ Cardinality(0 .. (m - 1)) = m
  <2> HIDE DEF m
  <2> QED BY <1>1, FS_Interval
<1>6. r \in Surjection(S, 0 .. (m - 1))
  <2> HIDE DEF r
  <2> QED BY <1>4, <1>5, FS_Injection
<1>7. \E d \in S : r[d] = k - 1
  <2>1. k - 1 \in 0 .. (m - 1)
    <3> HIDE DEF m
    <3>1. k \in 1 .. m
      BY DEF m
    <3> QED BY <1>1, <3>1
  <2> HIDE DEF r, m
  <2> QED BY <1>6, <2>1 DEF Surjection
<1> QED BY <1>7

\* A unit is a directory with a declaration, or the root.
LEMMA UnitsAreMarked ==
    ASSUME NEW u \in ToSet(Units)
    PROVE  u \in Seq(ToSet(u))
<1> DEFINE found == {d \in Marked : ToSet(d) \cap Skipped = {}}
           nth(n) == CHOOSE d \in found : Cardinality({e \in found : Before(e, d)}) = n - 1
<1>1. CASE found = {}
  <2>1. Units = <<<<>>>>
    BY <1>1 DEF Units
  <2>2. u = <<>>
    BY <2>1 DEF ToSet
  <2> QED BY <2>2
<1>2. CASE found # {}
  <2>1. Units = [n \in 1 .. Cardinality(found) |-> nth(n)]
    BY <1>2 DEF Units
  <2>2. ASSUME NEW n \in 1 .. Cardinality(found)
        PROVE  nth(n) \in found
    <3>1. found \in SUBSET Marked
      OBVIOUS
    <3> HIDE DEF found
    <3>2. \E d \in found : Cardinality({e \in found : Before(e, d)}) = n - 1
      BY <3>1, Ranked
    <3> QED BY <3>2
  <2>3. u \in found
    <3> HIDE DEF found, nth
    <3> QED BY <2>1, <2>2 DEF ToSet
  <2> QED BY <2>3, GraphAssumption
<1> QED BY <1>1, <1>2
\* What a prefix is, name by name.
LEMMA PrefixTells ==
    ASSUME NEW S, NEW s \in Seq(S), NEW t \in Seq(S)
    PROVE  IsPrefix(s, t) <=> Len(s) <= Len(t) /\ \A i \in 1 .. Len(s) : s[i] = t[i]
<1>1. Len(s) \in Nat /\ Len(t) \in Nat
  OBVIOUS
<1>2. ASSUME Len(s) <= Len(t)
      PROVE  /\ SubSeq(s, 1, Len(s)) = [i \in 1 .. Len(s) |-> s[i]]
             /\ SubSeq(t, 1, Len(s)) = [i \in 1 .. Len(s) |-> t[i]]
  BY <1>1, <1>2
<1>3. [i \in 1 .. Len(s) |-> s[i]] = [i \in 1 .. Len(s) |-> t[i]]
        <=> \A i \in 1 .. Len(s) : s[i] = t[i]
  <2> DEFINE f == [i \in 1 .. Len(s) |-> s[i]]
             g == [i \in 1 .. Len(s) |-> t[i]]
  <2>1. \A i \in 1 .. Len(s) : f[i] = s[i] /\ g[i] = t[i]
    OBVIOUS
  <2>2. f = g => \A i \in 1 .. Len(s) : f[i] = g[i]
    OBVIOUS
  <2>3. (\A i \in 1 .. Len(s) : s[i] = t[i]) => f = g
    OBVIOUS
  <2> HIDE DEF f, g
  <2> QED BY <2>1, <2>2, <2>3 DEF f, g
<1> QED BY <1>2, <1>3 DEF IsPrefix

\* Of two directories above a third, the one with the shorter path is above the
\* other, or they are one.
LEMMA AboveInOrder ==
    ASSUME NEW d, NEW u, NEW w, d \in Seq(ToSet(d)), u \in Seq(ToSet(u)), w \in Seq(ToSet(w)),
           IsPrefix(u, d)
    PROVE  /\ IsPrefix(w, d) /\ Len(u) < Len(w) => IsStrictPrefix(u, w)
           /\ IsPrefix(w, d) /\ IsStrictPrefix(u, w) => Len(u) < Len(w)
<1> DEFINE S == ToSet(d) \cup ToSet(u) \cup ToSet(w)
<1>1. d \in Seq(S) /\ u \in Seq(S) /\ w \in Seq(S)
  <2> HIDE DEF S
  <2>1. ToSet(d) \subseteq S /\ ToSet(u) \subseteq S /\ ToSet(w) \subseteq S
    BY DEF S
  <2> QED BY <2>1
<1> HIDE DEF S
<1>2. Len(u) \in Nat /\ Len(w) \in Nat /\ Len(d) \in Nat
  BY <1>1
<1>3. ASSUME IsPrefix(w, d), Len(u) < Len(w)
      PROVE  IsStrictPrefix(u, w)
  <2>1. \A i \in 1 .. Len(u) : i \in 1 .. Len(w) /\ u[i] = w[i]
    BY <1>1, <1>2, <1>3, PrefixTells
  <2>2. IsPrefix(u, w)
    BY <1>1, <1>2, <1>3, <2>1, PrefixTells
  <2> QED BY <1>2, <1>3, <2>2 DEF IsStrictPrefix
<1>4. ASSUME IsPrefix(w, d), IsStrictPrefix(u, w)
      PROVE  Len(u) < Len(w)
  <2>1. /\ Len(u) <= Len(w) /\ u # w
        /\ \A i \in 1 .. Len(u) : u[i] = w[i]
    BY <1>1, <1>4, PrefixTells DEF IsStrictPrefix
  <2>2. Len(u) = Len(w) => u = w
    BY <1>1, <2>1, SeqEqual
  <2> QED BY <1>2, <2>1, <2>2
<1> QED BY <1>3, <1>4

\* _owns takes the nearest unit: no unit above the file has a longer path.
LEMMA OwnerIsNearest ==
    ASSUME NEW s, NEW u \in ToSet(Units), Stored(s) \subseteq Path
    PROVE  Census(s, u) = Nearest(s, u)
<1>1. \A p \in Path, w \in ToSet(Units) :
          /\ p.dir \in Seq(ToSet(p.dir))
          /\ w \in Seq(ToSet(w)) /\ Len(w) \in Nat
  <2>1. \A w \in ToSet(Units) : w \in Seq(ToSet(w))
    BY UnitsAreMarked
  <2> QED BY <2>1, GraphAssumption
<1>2. ASSUME NEW p \in Stored(s), IsPrefix(u, p.dir)
      PROVE  (\A d \in Deeper(u) : ~IsPrefix(d, p.dir))
                <=> (\A w \in ToSet(Units) : IsPrefix(w, p.dir) => Len(w) <= Len(u))
  <2>1. ASSUME NEW w \in ToSet(Units), IsPrefix(w, p.dir)
        PROVE  IsStrictPrefix(u, w) <=> Len(u) < Len(w)
    BY <1>1, <1>2, <2>1, AboveInOrder
  <2> QED BY <1>1, <2>1 DEF Deeper
<1> QED BY <1>2 DEF Census, Owns, Nearest
----------------------------------------------------------------------------
(* No complete artifact is refused.                                         *)

\* A file has finitely many nodes.
LEMMA FewNodes ==
    ASSUME NEW p, NEW facts, Readable(facts)
    PROVE  IsFiniteSet(NodesOf(p, facts))
<1> DEFINE indices == {0} \cup Kept(facts.defs)
           row(i) == NodeRow(p, facts, i)
           one(i, j) == Id(row(i)) = Id(row(j))
           first(i) == \A j \in indices : one(i, j) => i <= j
           last(i) == \A j \in indices : one(i, j) => j <= i
           pairs == {k \in indices \X indices : one(k[1], k[2]) /\ first(k[1]) /\ last(k[2])}
           node(k) == [row(k[2]) EXCEPT !.body = row(k[1]).body]
           write == [k \in pairs |-> node(k)]
<1>1. NodesOf(p, facts) = {node(k) : k \in pairs}
  BY DEF NodesOf
<1>2. IsFiniteSet(indices)
  <2>1. Len(facts.defs) \in Nat /\ Kept(facts.defs) \subseteq 1 .. Len(facts.defs)
    BY KeptIsOfDefs DEF Readable
  <2>2. indices \in SUBSET (0 .. Len(facts.defs))
    BY <2>1
  <2>3. IsFiniteSet(0 .. Len(facts.defs))
    BY <2>1, FS_Interval
  <2> HIDE DEF indices
  <2> QED BY <2>2, <2>3, FS_Subset
<1>3. IsFiniteSet(pairs)
  <2>1. pairs \in SUBSET (indices \X indices)
    OBVIOUS
  <2>2. IsFiniteSet(indices \X indices)
    <3> HIDE DEF indices
    <3> QED BY <1>2, FS_Product
  <2> HIDE DEF pairs, indices
  <2> QED BY <2>1, <2>2, FS_Subset
<1> HIDE DEF pairs, node
<1>4. write \in Surjection(pairs, NodesOf(p, facts))
  BY <1>1 DEF Surjection
<1> HIDE DEF write
<1> QED BY <1>3, <1>4, FS_Surjection

\* Whatever the overlay made of them, a store has no more nodes of a file than the
\* parser makes of its text.
LEMMA NoMoreNodes ==
    ASSUME NEW s, Whole(s), NEW p
    PROVE  /\ IsFiniteSet(NodesIn(s.nodes, {p})) /\ Cardinality(NodesIn(s.nodes, {p})) \in Nat
           /\ p \notin Parsed(s.files) => Cardinality(NodesIn(s.nodes, {p})) = 0
           /\ p \in Parsed(s.files) =>
                 /\ Cardinality(NodesOf(p, FactIn(s.files, p))) \in Nat
                 /\ Cardinality(NodesIn(s.nodes, {p}))
                       <= Cardinality(NodesOf(p, FactIn(s.files, p)))
<1> DEFINE own == NodesIn(s.nodes, {p})
           made == NodesOf(p, FactIn(s.files, p))
<1>1. own \subseteq s.nodes /\ \A n \in own : n.path = p
  BY DEF NodesIn
<1>2. CASE p \notin Parsed(s.files)
  <2>1. own = {}
    BY <1>1, <1>2, WholePaths
  <2> QED BY <1>2, <2>1, FS_EmptySet
<1>3. CASE p \in Parsed(s.files)
  <2>1. IsFiniteSet(made) /\ KeysApart(made)
    BY <1>3, ParsedText, WholePaths, FewNodes, NodesOfFile
  <2>2. \A n \in own : \E m \in made : Id(m) = Id(n)
    <3> SUFFICES ASSUME NEW n \in own PROVE \E m \in made : Id(m) = Id(n)
      OBVIOUS
    <3>1. Id(n) \in Ids(NodeRows(s.files)) /\ Id(n).path = p
      BY <1>1, WholePaths, IdTells DEF Ids
    <3>2. PICK m \in NodeRows(s.files) : Id(m) = Id(n)
      BY <3>1 DEF Ids
    <3>3. PICK q \in Parsed(s.files) : m \in NodesOf(q, FactIn(s.files, q))
      BY <3>2 DEF NodeRows
    <3>4. m.path = q /\ m.path = p
      BY <3>1, <3>2, <3>3, PathsOfFile, WholePaths, IdTells
    <3> QED BY <3>2, <3>3, <3>4
  <2>3. KeysApart(own)
    BY <1>1 DEF Whole, InOrder, KeysApart
  <2> DEFINE from == [n \in own |-> CHOOSE m \in made : Id(m) = Id(n)]
  <2> HIDE DEF own, made
  <2>4. \A n \in own : from[n] \in made /\ Id(from[n]) = Id(n)
    BY <2>2
  <2>5. from \in Injection(own, made)
    <3>1. from \in [own -> made]
      BY <2>4
    <3> HIDE DEF from
    <3> QED BY <2>3, <2>4, <3>1 DEF Injection, IsInjective, KeysApart
  <2>6. IsFiniteSet(own) /\ Cardinality(own) <= Cardinality(made)
    <3> HIDE DEF from
    <3> QED BY <2>1, <2>5, FS_Injection
  <2> QED BY <1>3, <2>1, <2>6, FS_CardinalityType DEF own, made
<1> QED BY <1>2, <1>3

\* Of every text the indexer defines at least the share that guard.check asks for:
\* as many hundredths of the nodes the parser makes of it, the module among them,
\* whose kind the overlay of another unit may change.
IndexerIsThorough ==
    \A p \in Path, v \in Version :
        /\ IsFiniteSet(Document[p][v].defs)
        /\ ~FactsOf[p][v].error =>
              100 * Cardinality(Document[p][v].defs)
                  >= DefShare * Cardinality(NodesOf(p, FactsOf[p][v]))

\* A complete artifact passes both shares.
LEMMA CompleteCovers ==
    ASSUME IndexerIsThorough, FileShare <= 100,
           NEW s, Whole(s), NEW u \in ToSet(Units), NEW docs,
           Complete(s, u, docs)
    PROVE  Covers(s, u, docs)
<1> DEFINE census == Census(s, u)
           matched == census \cap DOMAIN docs
           size(p) == Cardinality(Document[p][docs[p].text].defs)
           f == [p \in matched |-> size(p)]
           held == {n \in s.nodes : n.path \in census /\ n.kind # "module"}
<1>1. /\ Stored(s) \subseteq Path /\ \A p \in Stored(s) : s.files[p] \in Version
      /\ \A p \in Stored(s) : FactIn(s.files, p) = FactsOf[p][s.files[p]]
  BY DEF Whole, InOrder, Stored, FactIn
<1>2. census = Nearest(s, u)
  BY <1>1, OwnerIsNearest
<1>3. /\ \E n \in s.nodes : n.path \in census /\ n.kind # "module"
      /\ \A p \in census : p \in DOMAIN docs /\ docs[p].text = s.files[p]
  BY <1>2 DEF Complete
<1>4. census \subseteq Stored(s) /\ census # {} /\ IsFiniteSet(census)
  <2>1. census \subseteq Stored(s)
    BY DEF Census
  <2>2. census \in SUBSET Path /\ IsFiniteSet(Path)
    BY <1>1, <2>1, GraphAssumption
  <2> HIDE DEF census
  <2> QED BY <1>3, <2>1, <2>2, FS_Subset
<1>5. matched = census
  BY <1>3
<1>6. DefShare \in Nat /\ FileShare \in Nat
  BY GraphAssumption
<1> HIDE DEF census
<1>7. ASSUME NEW p \in census
      PROVE  /\ size(p) \in Nat
             /\ 100 * size(p) >= DefShare * Cardinality(NodesIn(s.nodes, {p}))
  <2> DEFINE own == Cardinality(NodesIn(s.nodes, {p}))
             made == Cardinality(NodesOf(p, FactsOf[p][s.files[p]]))
  <2>1. p \in Path /\ s.files[p] \in Version /\ docs[p].text = s.files[p]
    BY <1>1, <1>3, <1>4
  <2>2. IsFiniteSet(Document[p][docs[p].text].defs)
    BY <2>1 DEF IndexerIsThorough
  <2>3. size(p) \in Nat
    BY <2>2, FS_CardinalityType
  <2>4. CASE p \notin Parsed(s.files)
    <3>1. own = 0
      BY <2>4, NoMoreNodes
    <3> HIDE DEF size, own
    <3>2. DefShare * own = 0
      BY <1>6, <3>1
    <3> QED BY <2>3, <3>2 DEF own
  <2>5. CASE p \in Parsed(s.files)
    <3>1. ~FactsOf[p][s.files[p]].error
      BY <1>1, <1>4, <2>5 DEF Parsed
    <3>2. 100 * size(p) >= DefShare * made
      BY <2>1, <3>1 DEF IndexerIsThorough
    <3>3. own \in Nat /\ made \in Nat /\ own <= made
      BY <1>1, <1>4, <2>5, NoMoreNodes
    <3> HIDE DEF size, own, made
    <3>4. DefShare * own <= DefShare * made
      <4>1. \A a, b, c \in Nat : a <= b => c * a <= c * b
        OBVIOUS
      <4> QED BY <1>6, <3>3, <4>1
    <3>5. DefShare * own \in Nat /\ DefShare * made \in Nat
      BY <1>6, <3>3
    <3> QED BY <2>3, <3>2, <3>4, <3>5 DEF own
  <2> QED BY <2>3, <2>4, <2>5
<1>8. f \in [matched -> Nat] /\ \A p \in matched : f[p] = size(p)
  <2> HIDE DEF size
  <2> QED BY <1>5, <1>7
<1> DEFINE defined == SumFunctionOnSet(f, matched)
           all == NodesIn(s.nodes, matched)
<1>9. IsFiniteSet(all) /\ defined \in Nat /\ 100 * defined >= DefShare * Cardinality(all)
  <2>1. \A p \in matched : /\ IsFiniteSet(NodesIn(s.nodes, {p}))
                           /\ 100 * f[p] >= DefShare * Cardinality(NodesIn(s.nodes, {p}))
    <3> HIDE DEF f, size
    <3> QED BY <1>5, <1>7, <1>8, NoMoreNodes
  <2> HIDE DEF f, matched
  <2> QED BY <1>4, <1>5, <1>6, <1>8, <2>1, SumCovers
<1>10. /\ IsFiniteSet(held) /\ Cardinality(held) \in Nat /\ Cardinality(held) # 0
       /\ Cardinality(held) <= Cardinality(all) /\ Cardinality(all) \in Nat
  <2>1. held \in SUBSET all /\ held # {}
    BY <1>3, <1>5 DEF NodesIn
  <2> HIDE DEF held, all
  <2> QED BY <1>9, <2>1, FS_Subset, FS_CardinalityType, FS_EmptySet
<1>11. 100 * defined >= DefShare * Cardinality(held)
  <2> HIDE DEF defined, held, all
  <2>1. \A a, b, c \in Nat : a <= b => c * a <= c * b
    OBVIOUS
  <2>2. DefShare * Cardinality(held) <= DefShare * Cardinality(all)
    BY <1>6, <1>10, <2>1
  <2>3. DefShare * Cardinality(held) \in Nat /\ DefShare * Cardinality(all) \in Nat
    BY <1>6, <1>10
  <2> QED BY <1>9, <2>2, <2>3
<1>12. 100 * Cardinality(matched) >= FileShare * Cardinality(census)
  <2>1. Cardinality(census) \in Nat
    BY <1>4, FS_CardinalityType
  <2>2. \A a, c \in Nat : c <= 100 => 100 * a >= c * a
    OBVIOUS
  <2> HIDE DEF matched
  <2> QED BY <1>5, <1>6, <2>1, <2>2
<1> HIDE DEF defined, all
<1> QED BY <1>4, <1>10, <1>11, <1>12 DEF Covers, census, defined
\* A pass has something to say of each unit.
SaidOfAll(t) == t # NoPass => IsPass(t) /\ DOMAIN t.said = ToSet(Units)

UnitsInv == GraphInv /\ SaidOfAll(pass)

\* Every step keeps it.
LEMMA UnitsStep == UnitsInv /\ [Next]_vars => UnitsInv'
<1> SUFFICES ASSUME UnitsInv, [Next]_vars PROVE UnitsInv'
  OBVIOUS
<1>0. GraphInv'
  BY GraphStep DEF UnitsInv
<1>1. SaidOfAll(pass) /\ (pass' # NoPass => IsPass(pass'))
  BY <1>0 DEF UnitsInv, GraphInv, PassHolds
<1>2. ASSUME NEW look \in SUBSET Path, NEW hinted \in BOOLEAN, NEW force \in BOOLEAN,
             Begin(look, hinted, force)
      PROVE  SaidOfAll(pass')
  <2>1. PICK work, overlaid, wrote : pass' = Underway(work, overlaid, wrote)
    BY <1>2 DEF Begin
  <2>2. pass'.said = [u \in ToSet(Units) |-> "none"]
    BY <2>1 DEF Underway
  <2> QED BY <1>1, <2>2 DEF SaidOfAll
<1>3. ASSUME Overlay
      PROVE  SaidOfAll(pass')
  <2>1. pass # NoPass /\ DOMAIN pass'.said = DOMAIN pass.said
    BY <1>1, <1>3 DEF Overlay, SaidOfAll, IsPass, PassFields
  <2> QED BY <1>1, <2>1 DEF SaidOfAll
<1>4. ASSUME Commit \/ Abort
      PROVE  SaidOfAll(pass')
  BY <1>4 DEF Commit, Abort, SaidOfAll
<1>5. ASSUME NEW p \in Path, NEW v \in Version \cup {Gone}, Edit(p, v)
      PROVE  SaidOfAll(pass')
  <2>1. pass' # NoPass => pass # NoPass /\ pass'.said = pass.said
    BY <1>1, <1>5 DEF Edit, SaidOfAll, IsPass, PassFields
  <2> QED BY <1>1, <2>1 DEF SaidOfAll
<1>6. ASSUME Replan \/ UNCHANGED vars
      PROVE  SaidOfAll(pass')
  BY <1>1, <1>6 DEF Replan, vars
<1> QED BY <1>0, <1>2, <1>3, <1>4, <1>5, <1>6 DEF Next, UnitsInv

\* Only the overlay grades a unit, and it takes one whose shares are met.
LEMMA TakenIfCovered ==
    ASSUME UnitsInv, [Next]_vars, NEW u \in ToSet(Units), pass # NoPass, pass' # NoPass,
           pass.said[u] = "none", pass'.said[u] # "none",
           Covers(pass.work, u, index'[u])
    PROVE  pass'.said[u] = "merged"
<1>1. /\ IsPass(pass) /\ DOMAIN pass.said = ToSet(Units) /\ DOMAIN index = ToSet(Units)
      /\ PassHolds(pass, disk, raced)
  BY DEF UnitsInv, SaidOfAll, GraphInv
<1>2. CASE Overlay
  <2> DEFINE head == Head(pass.left)
  <2>1. head \in ToSet(Units)
    BY <1>1, <1>2 DEF Overlay, PassHolds
  <2>2. PICK docs : /\ index' = [index EXCEPT ![head] = docs]
                    /\ \/ ~Covers(pass.work, head, docs) /\ pass'.said = [pass.said EXCEPT ![head] = "refused"]
                       \/ pass'.said = [pass.said EXCEPT ![head] = "merged"]
    BY <1>1, <1>2 DEF Overlay, IsPass, PassFields
  <2> HIDE DEF head
  <2>3. u = head
    BY <1>1, <2>1, <2>2
  <2>4. index'[u] = docs
    BY <1>1, <2>2, <2>3
  <2> QED BY <1>1, <2>2, <2>3, <2>4
<1>3. ASSUME NEW look \in SUBSET Path, NEW hinted \in BOOLEAN, NEW force \in BOOLEAN,
             Begin(look, hinted, force)
      PROVE  FALSE
  BY <1>3 DEF Begin
<1>4. CASE Commit \/ Abort
  BY <1>4 DEF Commit, Abort
<1>5. ASSUME NEW p \in Path, NEW v \in Version \cup {Gone}, Edit(p, v)
      PROVE  FALSE
  <2>1. pass'.said = pass.said
    BY <1>1, <1>5 DEF Edit, IsPass, PassFields
  <2> QED BY <2>1
<1>6. CASE Replan \/ UNCHANGED vars
  BY <1>6 DEF Replan, vars
<1> QED BY <1>2, <1>3, <1>4, <1>5, <1>6 DEF Next

\* A unit with a document of every file it is the nearest one above is never
\* refused: an indexer that defines its share of each text defines that share of
\* the files of the unit, however the units are nested and whatever the overlay of
\* the units before it made of the nodes (coverage and check of scip/guard.py).  A
\* floor above all the files would refuse whatever there is.
THEOREM CompleteIsTaken ==
    FileShare <= 100 /\ IndexerIsThorough => (Spec => CompleteIndexIsTaken)
<1>1. Init => UnitsInv
  BY GraphInit DEF UnitsInv, SaidOfAll, Init
<1>2. ASSUME FileShare <= 100, IndexerIsThorough, UnitsInv, [Next]_vars
      PROVE  [\A u \in ToSet(Units) :
                 (/\ pass # NoPass /\ pass' # NoPass
                  /\ pass.said[u] = "none" /\ pass'.said[u] # "none"
                  /\ Complete(pass.work, u, index'[u]))
                 => pass'.said[u] = "merged"]_vars
  <2> SUFFICES ASSUME NEW u \in ToSet(Units), pass # NoPass, pass' # NoPass,
                      pass.said[u] = "none", pass'.said[u] # "none",
                      Complete(pass.work, u, index'[u])
               PROVE  pass'.said[u] = "merged"
    OBVIOUS
  <2>1. Whole(pass.work)
    BY <1>2 DEF UnitsInv, GraphInv, PassHolds
  <2>2. Covers(pass.work, u, index'[u])
    BY <1>2, <2>1, CompleteCovers
  <2> QED BY <1>2, <2>2, TakenIfCovered
<1>3. CASE FileShare <= 100 /\ IndexerIsThorough
  <2>1. UnitsInv /\ [Next]_vars
          => [\A u \in ToSet(Units) :
                 (/\ pass # NoPass /\ pass' # NoPass
                  /\ pass.said[u] = "none" /\ pass'.said[u] # "none"
                  /\ Complete(pass.work, u, index'[u]))
                 => pass'.said[u] = "merged"]_vars
    BY <1>2, <1>3
  <2> QED BY <1>1, <2>1, UnitsStep, PTL DEF Spec, CompleteIndexIsTaken
<1> QED BY <1>3
=============================================================================
