----------------------------- MODULE EngineProofs -----------------------------
(***************************************************************************)
(* What the answers owe to the store: for every store the passes may write *)
(* (GraphInv), and not only for the small ones.                            *)
(***************************************************************************)
EXTENDS Engine, GraphProofs, Induct

----------------------------------------------------------------------------
(* A call has an edge or a row.                                             *)

\* What the tags queries promise: of several patterns that match a call all name
\* it at the same identifier.
OneCallAtAByte ==
    \A p \in Path, v \in Version : \A r, q \in Text[p][v].refs :
        r.kind = "CALLS" /\ q.kind = "CALLS" /\ r.site = q.site => r = q

\* So it is of the facts.
LEMMA OneCallInFacts ==
    ASSUME OneCallAtAByte, NEW p \in Path, NEW v \in Version,
           ~Extract(Text[p][v]).error,
           NEW r \in Extract(Text[p][v]).refs, NEW q \in Extract(Text[p][v]).refs,
           r.kind = "CALLS", q.kind = "CALLS", r.site = q.site
    PROVE  r = q
<1> DEFINE text == Text[p][v]
           defs == Linked(text.defs)
           scope(x) == Enclosing(defs, x.site)
           of(x) == [kind |-> x.kind, name |-> x.name, site |-> x.site,
                     member |-> x.member, receiver |-> x.receiver, scope |-> scope(x),
                     self |-> x.receiver # "" /\ IsSelf(defs, scope(x), x.receiver)]
<1>1. Extract(text).refs = {of(x) : x \in text.refs}
  <2>1. text.parses
    <3>1. ~text.parses => Extract(text) = NoFacts
      BY DEF Extract
    <3> QED BY <3>1 DEF NoFacts
  <2> QED BY <2>1 DEF Extract
<1>2. \A x : of(x).kind = x.kind /\ of(x).site = x.site
  OBVIOUS
<1> HIDE DEF of, text
<1>3. PICK x \in text.refs : r = of(x)
  BY <1>1 DEF text
<1>4. PICK y \in text.refs : q = of(y)
  BY <1>1 DEF text
<1>5. x = y
  BY <1>2, <1>3, <1>4 DEF OneCallAtAByte, text
<1> QED BY <1>3, <1>4, <1>5

\* Where the tags queries name a call once, no answer counts one twice: a call
\* whose row is open has no edge, whatever the overlay took over and whatever
\* moved since (write_refs, reference_edges, derive, decided_by_scip).
THEOREM NothingCountsTwice == OneCallAtAByte => (Spec => []NoCallCountsTwice)
<1>1. ASSUME OneCallAtAByte, GraphInv
      PROVE  NoCallCountsTwice
  <2> SUFFICES ASSUME NEW r \in Open(store, store.refs), r.kind = "CALLS",
                      NEW e \in CallEdges(store, r.path, r.site)
               PROVE  FALSE
    BY DEF NoCallCountsTwice
  <2>1. /\ r \in store.refs /\ e \in store.edges /\ e.src.path = r.path /\ e.site = r.site
        /\ e.kind = "CALLS" /\ e.evidence # "scip"
    BY DEF Open, DecidedByScip, CallEdges
  <2>2. Whole(store) /\ Texts(store.files)
    BY <1>1, WholePaths DEF GraphInv
  <2>3. e \in EdgeRows(store.files) /\ r \in RefRows(store.files)
    BY <2>1, <2>2 DEF Whole, AsWritten, Signed
  <2> DEFINE facts == FactIn(store.files, r.path)
  <2>4. PICK q \in facts.refs : q.kind = "CALLS" /\ q.site = e.site /\ Decided(r.path, facts, q)
    BY <2>1, <2>2, <2>3, CallsDecided
  <2>5. PICK x \in facts.refs : ~Decided(r.path, facts, x) /\ x.kind = "CALLS" /\ x.site = r.site
    BY <2>1, <2>3, RowsUndecided
  <2>6. /\ r.path \in Path /\ store.files[r.path] \in Version
        /\ ~Extract(Text[r.path][store.files[r.path]]).error
        /\ facts = Extract(Text[r.path][store.files[r.path]])
    <3>1. r.path \in Parsed(store.files)
      BY <2>2, <2>3, RefsOfTexts
    <3>2. r.path \in Path /\ store.files[r.path] \in Version /\ ~facts.error
      BY <2>2, <3>1, ParsedText DEF Parsed
    <3> QED BY <3>2 DEF FactIn, FactsOf
  <2> HIDE DEF facts
  <2>7. q = x
    BY <1>1, <2>1, <2>4, <2>5, <2>6, OneCallInFacts
  <2> QED BY <2>4, <2>5, <2>7
<1>2. CASE OneCallAtAByte
  <2>1. GraphInv => NoCallCountsTwice
    BY <1>1, <1>2
  <2> QED BY <2>1, GraphInit, GraphStep, PTL DEF Spec
<1> QED BY <1>2

----------------------------------------------------------------------------
(* Callers and callees.                                                     *)

DefinitionsOf(s) == {Id(n) : n \in {m \in s.nodes : m.kind # "module"}}

\* One reference counted in an answer, and one of its candidates.
Hit(s, r, c, kinds, ambiguous) ==
    /\ r \in s.refs /\ r.kind \in kinds /\ ~DecidedByScip(s, r)
    /\ c \in ResolveRef(s, r).cands
    /\ Told(Cardinality(ResolveRef(s, r).cands), ambiguous)

\* The row it gives, at an end.
RowOf(s, id, r, c) == Row(id, r.kind, c.conf, Cardinality(ResolveRef(s, r).cands))

\* upstream_refs, row by row.
LEMMA Upstream ==
    ASSUME NEW s, NEW y, NEW kinds, NEW ambiguous, NEW row
    PROVE  row \in UpstreamRefs(s, y, kinds, ambiguous) <=>
              \E r \in s.refs : \E c \in ResolveRef(s, r).cands :
                 /\ Hit(s, r, c, kinds, ambiguous) /\ <<r.name>> = NodeOf(s, y).name
                 /\ c.key = y /\ row = RowOf(s, CallerNode(s, r), r, c)
                 /\ row.id \notin {NoNode, y}
<1> DEFINE hit(r) == [ref |-> r, cands |-> ResolveRef(s, r).cands]
           named == Open(s, RefsNaming(s, NodeOf(s, y).name, kinds))
           of(h) == {HitRow(CallerNode(s, h.ref), h, c) : c \in {d \in h.cands : d.key = y}}
<1>1. \A r : hit(r).ref = r /\ hit(r).cands = ResolveRef(s, r).cands
  OBVIOUS
<1>2. \A h : h \in HitsOf(s, named, ambiguous) <=>
                \E r \in named : /\ h = hit(r) /\ ResolveRef(s, r).cands # {}
                                 /\ Told(Cardinality(ResolveRef(s, r).cands), ambiguous)
  BY <1>1 DEF HitsOf
<1>3. \A r : r \in named <=> /\ r \in s.refs /\ r.kind \in kinds /\ ~DecidedByScip(s, r)
                             /\ <<r.name>> = NodeOf(s, y).name
  BY DEF Open, RefsNaming
<1>4. \A r, c : HitRow(CallerNode(s, r), hit(r), c) = RowOf(s, CallerNode(s, r), r, c)
  BY <1>1 DEF HitRow, RowOf
<1>5. row \in UpstreamRefs(s, y, kinds, ambiguous) <=>
         row.id \notin {NoNode, y} /\ \E h \in HitsOf(s, named, ambiguous) : row \in of(h)
  BY DEF UpstreamRefs
<1> HIDE DEF named
<1>6. \A r : row \in of(hit(r)) <=>
                \E c \in ResolveRef(s, r).cands : c.key = y /\ row = RowOf(s, CallerNode(s, r), r, c)
  BY <1>1, <1>4
<1> HIDE DEF of, hit
<1> QED BY <1>2, <1>3, <1>5, <1>6 DEF Hit

\* downstream_refs, row by row.
LEMMA Downstream ==
    ASSUME NEW s, NEW x, NEW kinds, NEW ambiguous, NEW row
    PROVE  row \in DownstreamRefs(s, x, kinds, ambiguous) <=>
              \E r \in s.refs : \E c \in ResolveRef(s, r).cands :
                 /\ Hit(s, r, c, kinds, ambiguous)
                 /\ r.path = x.path /\ EnclosingNode(s, x.path, r.site) = x
                 /\ row = RowOf(s, c.key, r, c) /\ row.id # x
<1> DEFINE hit(r) == [ref |-> r, cands |-> ResolveRef(s, r).cands]
           inside == Open(s, RefsInside(s, x, kinds))
           of(h) == {HitRow(c.key, h, c) : c \in h.cands}
<1>1. \A r : hit(r).ref = r /\ hit(r).cands = ResolveRef(s, r).cands
  OBVIOUS
<1>2. \A h : h \in HitsOf(s, inside, ambiguous) <=>
                \E r \in inside : /\ h = hit(r) /\ ResolveRef(s, r).cands # {}
                                  /\ Told(Cardinality(ResolveRef(s, r).cands), ambiguous)
  BY <1>1 DEF HitsOf
<1>3. \A r : r \in inside <=> /\ r \in s.refs /\ r.kind \in kinds /\ ~DecidedByScip(s, r)
                              /\ r.path = x.path /\ EnclosingNode(s, x.path, r.site) = x
  BY DEF Open, RefsInside
<1>4. \A r, c : HitRow(c.key, hit(r), c) = RowOf(s, c.key, r, c)
  BY <1>1 DEF HitRow, RowOf
<1>5. row \in DownstreamRefs(s, x, kinds, ambiguous) <=>
         row.id # x /\ \E h \in HitsOf(s, inside, ambiguous) : row \in of(h)
  BY DEF DownstreamRefs
<1> HIDE DEF inside
<1>6. \A r : row \in of(hit(r)) <=> \E c \in ResolveRef(s, r).cands : row = RowOf(s, c.key, r, c)
  BY <1>1, <1>4
<1> HIDE DEF of, hit
<1> QED BY <1>2, <1>3, <1>5, <1>6 DEF Hit

\* Every candidate is one of the pool, at its key.
LEMMA FromThePool ==
    ASSUME NEW in, NEW ref, NEW c \in Resolved(in, ref).cands
    PROVE  \E s \in in.pool : c.key = s.key
<1> DEFINE pool == Narrowed(in, ref)
           scoped == UNION {Tiers(in, ref, s) : s \in pool}
           share == GlobalUnique \div Cardinality(pool)
<1>1. \A s, conf, evidence : Scored(s, conf, evidence).key = s.key
  BY DEF Scored
<1>2. \A s \in pool : \A d \in Tiers(in, ref, s) : d.key = s.key
  BY <1>1 DEF Tiers
<1>3. pool \subseteq in.pool
  BY DEF Narrowed
<1>4. c \in scoped \/ \E s \in pool : c = Scored(s, share, "global")
  <2>1. Resolved(in, ref).cands = IF pool = {} THEN {}
                                  ELSE IF scoped # {} THEN Rank(scoped)
                                  ELSE IF share < Floor THEN {}
                                  ELSE {Scored(s, share, "global") : s \in pool}
    BY DEF Resolved
  <2> HIDE DEF pool, scoped, share
  <2> QED BY <2>1 DEF Rank
<1> HIDE DEF pool, share
<1> QED BY <1>1, <1>2, <1>3, <1>4

\* A candidate is the key of a node of the name referred to.
LEMMA CandidateStands ==
    ASSUME NEW s, NEW r, NEW c \in ResolveRef(s, r).cands
    PROVE  \E n \in s.nodes : n.name = <<r.name>> /\ c.key = Id(n)
<1>1. PICK d \in StoreInputs(s, r).pool : c.key = d.key
  BY FromThePool DEF ResolveRef
<1>2. PICK n \in Pool(s, r.name) : d.key = Id(n)
  BY <1>1 DEF StoreInputs
<1> QED BY <1>1, <1>2 DEF Pool

\* A node is found by its key.
LEMMA NodeByKey ==
    ASSUME NEW s, KeysApart(s.nodes), NEW n \in s.nodes
    PROVE  NodeOf(s, Id(n)) = n
BY DEF NodeOf, KeysApart

\* The caller of a reference is a definition exactly if the reference stands in
\* its body, and in that of no definition inside it.
LEMMA CallerEncloses ==
    ASSUME NEW s, Whole(s), NEW x \in DefinitionsOf(s), NEW r \in s.refs
    PROVE  /\ CallerNode(s, r) = x <=> r.path = x.path /\ EnclosingNode(s, x.path, r.site) = x
           /\ x # NoNode
<1>1. PICK n \in s.nodes : n.kind # "module" /\ x = Id(n)
  BY DEF DefinitionsOf
<1>2. x.path = n.path /\ x.path \in Path
  BY <1>1, IdTells, WholePaths
<1>3. x # NoNode
  BY <1>2, GraphAssumption DEF NoNode
<1>4. r.site \in Nat
  BY WholePaths, RefsOfTexts DEF Whole, AsWritten
<1>5. (\A m \in s.nodes : IsNode(m)) /\ KeysApart(s.nodes)
  BY DEF Whole, InOrder
<1>6. CallerNode(s, r) = IF EnclosingNode(s, r.path, r.site) # NoNode
                         THEN EnclosingNode(s, r.path, r.site) ELSE ModuleNode(s, r.path)
  BY DEF CallerNode
<1>7. ASSUME CallerNode(s, r) = x
      PROVE  r.path = x.path /\ EnclosingNode(s, x.path, r.site) = x
  <2>1. CASE EnclosingNode(s, r.path, r.site) # NoNode
    <3>1. PICK m \in s.nodes : m.path = r.path /\ EnclosingNode(s, r.path, r.site) = Id(m)
      BY <1>4, <1>5, <2>1, EnclosingStands
    <3> QED BY <1>6, <1>7, <2>1, <3>1, IdTells
  <2>2. CASE EnclosingNode(s, r.path, r.site) = NoNode
    <3> DEFINE modules == {Id(m) : m \in {k \in s.nodes : k.path = r.path /\ k.kind = "module"}}
    <3>1. ModuleNode(s, r.path) = x
      BY <1>6, <1>7, <2>2
    <3>2. ModuleNode(s, r.path) = IF modules = {} THEN NoNode
                                  ELSE IF ModuleId(r.path) \in modules THEN ModuleId(r.path)
                                  ELSE CHOOSE id \in modules : TRUE
      BY DEF ModuleNode
    <3>3. x \in modules
      <4> HIDE DEF modules
      <4> QED BY <1>3, <3>1, <3>2
    <3>4. PICK m \in s.nodes : m.kind = "module" /\ x = Id(m)
      BY <3>3
    <3> QED BY <1>1, <1>5, <3>4 DEF KeysApart
  <2> QED BY <2>1, <2>2
<1>8. ASSUME r.path = x.path, EnclosingNode(s, x.path, r.site) = x
      PROVE  CallerNode(s, r) = x
  BY <1>3, <1>6, <1>8
<1> QED BY <1>3, <1>7, <1>8

\* A reference answers both questions or neither: found by its name it has the
\* body it stands in as its caller, found in the body it has the name.
LEMMA RefsMirror ==
    ASSUME NEW s, Whole(s), NEW x \in DefinitionsOf(s), NEW y \in DefinitionsOf(s),
           NEW kinds, NEW ambiguous, NEW kind, NEW conf, NEW count
    PROVE  Row(x, kind, conf, count) \in UpstreamRefs(s, y, kinds, ambiguous) <=>
              Row(y, kind, conf, count) \in DownstreamRefs(s, x, kinds, ambiguous)
<1>1. \A id, k, f, n : LET row == Row(id, k, f, n)
                       IN  row.id = id /\ row.kind = k /\ row.conf = f /\ row.count = n
  BY DEF Row
<1>2. \A id, other, r, c :
         Row(id, kind, conf, count) = RowOf(s, other, r, c) <=>
            /\ id = other /\ kind = r.kind /\ conf = c.conf
            /\ count = Cardinality(ResolveRef(s, r).cands)
  BY DEF RowOf, Row
<1>3. KeysApart(s.nodes)
  BY DEF Whole, InOrder
<1>4. ASSUME Row(x, kind, conf, count) \in UpstreamRefs(s, y, kinds, ambiguous)
      PROVE  Row(y, kind, conf, count) \in DownstreamRefs(s, x, kinds, ambiguous)
  <2>1. PICK r \in s.refs :
           \E c \in ResolveRef(s, r).cands :
              /\ Hit(s, r, c, kinds, ambiguous) /\ c.key = y
              /\ Row(x, kind, conf, count) = RowOf(s, CallerNode(s, r), r, c)
              /\ x \notin {NoNode, y}
    BY <1>1, <1>4, Upstream
  <2>2. PICK c \in ResolveRef(s, r).cands :
           /\ Hit(s, r, c, kinds, ambiguous) /\ c.key = y
           /\ Row(x, kind, conf, count) = RowOf(s, CallerNode(s, r), r, c)
           /\ x \notin {NoNode, y}
    BY <2>1
  <2>3. CallerNode(s, r) = x
    BY <1>2, <2>2
  <2>4. r.path = x.path /\ EnclosingNode(s, x.path, r.site) = x
    BY <2>3, CallerEncloses
  <2>5. Row(y, kind, conf, count) = RowOf(s, c.key, r, c)
    BY <1>2, <2>2
  <2> QED BY <1>1, <2>2, <2>4, <2>5, Downstream
<1>5. ASSUME Row(y, kind, conf, count) \in DownstreamRefs(s, x, kinds, ambiguous)
      PROVE  Row(x, kind, conf, count) \in UpstreamRefs(s, y, kinds, ambiguous)
  <2>1. PICK r \in s.refs :
           \E c \in ResolveRef(s, r).cands :
              /\ Hit(s, r, c, kinds, ambiguous)
              /\ r.path = x.path /\ EnclosingNode(s, x.path, r.site) = x
              /\ Row(y, kind, conf, count) = RowOf(s, c.key, r, c) /\ y # x
    BY <1>1, <1>5, Downstream
  <2>2. PICK c \in ResolveRef(s, r).cands :
           /\ Hit(s, r, c, kinds, ambiguous)
           /\ r.path = x.path /\ EnclosingNode(s, x.path, r.site) = x
           /\ Row(y, kind, conf, count) = RowOf(s, c.key, r, c) /\ y # x
    BY <2>1
  <2>3. c.key = y
    BY <1>2, <2>2
  <2>4. PICK n \in s.nodes : n.name = <<r.name>> /\ c.key = Id(n)
    BY CandidateStands
  <2>5. <<r.name>> = NodeOf(s, y).name
    BY <1>3, <2>3, <2>4, NodeByKey
  <2>6. CallerNode(s, r) = x /\ x # NoNode
    BY <2>2, CallerEncloses
  <2>7. Row(x, kind, conf, count) = RowOf(s, CallerNode(s, r), r, c)
    BY <1>2, <2>2, <2>6
  <2> QED BY <1>1, <2>2, <2>3, <2>5, <2>6, <2>7, Upstream
<1> QED BY <1>4, <1>5

\* A stored edge answers both questions or neither.
LEMMA StoredMirror ==
    ASSUME NEW s, NEW x, NEW y, NEW kinds, NEW ambiguous, NEW kind, NEW conf, NEW count
    PROVE  Row(x, kind, conf, count) \in StoredHop(s, y, TRUE, kinds, ambiguous) <=>
              Row(y, kind, conf, count) \in StoredHop(s, x, FALSE, kinds, ambiguous)
<1> DEFINE between == {e \in s.edges : /\ e.src = x /\ e.dst = y /\ x # y /\ e.kind \in kinds
                                       /\ Told(e.count, ambiguous)
                                       /\ e.kind = kind /\ e.conf = conf /\ e.count = count}
<1>1. \A id, k, f, n, id2, k2, f2, n2 :
         Row(id, k, f, n) = Row(id2, k2, f2, n2) <=> id = id2 /\ k = k2 /\ f = f2 /\ n = n2
  BY DEF Row
<1>2. Row(x, kind, conf, count) \in StoredHop(s, y, TRUE, kinds, ambiguous) <=> between # {}
  BY <1>1 DEF StoredHop
<1>3. Row(y, kind, conf, count) \in StoredHop(s, x, FALSE, kinds, ambiguous) <=> between # {}
  BY <1>1 DEF StoredHop
<1> QED BY <1>2, <1>3

\* Every row of an answer is a row.
LEMMA AllRows ==
    ASSUME NEW s, NEW start, NEW up \in BOOLEAN, NEW kinds, NEW ambiguous,
           NEW row \in StoredHop(s, start, up, kinds, ambiguous)
                       \cup UpstreamRefs(s, start, kinds, ambiguous)
                       \cup DownstreamRefs(s, start, kinds, ambiguous)
    PROVE  row = Row(row.id, row.kind, row.conf, row.count)
<1>1. \A id, k, f, n : LET r == Row(id, k, f, n)
                       IN  r = Row(r.id, r.kind, r.conf, r.count)
  BY DEF Row
<1>2. \A id, r, c : LET q == RowOf(s, id, r, c) IN q = Row(q.id, q.kind, q.conf, q.count)
  BY <1>1 DEF RowOf
<1>3. CASE row \in StoredHop(s, start, up, kinds, ambiguous)
  <2>1. PICK e \in s.edges : row = Row(IF up THEN e.src ELSE e.dst, e.kind, e.conf, e.count)
    BY <1>3 DEF StoredHop
  <2> QED BY <1>1, <2>1
<1>4. CASE row \in UpstreamRefs(s, start, kinds, ambiguous)
  BY <1>2, <1>4, Upstream
<1>5. CASE row \in DownstreamRefs(s, start, kinds, ambiguous)
  BY <1>2, <1>5, Downstream
<1> QED BY <1>3, <1>4, <1>5

\* Of two answers that mirror each other the best rows do too.
LEMMA MergedMirror ==
    ASSUME NEW up, NEW down, NEW x, NEW y,
           \A row \in up \cup down : row = Row(row.id, row.kind, row.conf, row.count),
           \A kind, conf, count :
              Row(x, kind, conf, count) \in up <=> Row(y, kind, conf, count) \in down
    PROVE  Facing(Merged(up), x) = Facing(Merged(down), y)
<1>1. \A id, k, f, n : LET row == Row(id, k, f, n)
                       IN  row.id = id /\ row.kind = k /\ row.conf = f /\ row.count = n
  BY DEF Row
<1>2. ASSUME NEW from, NEW to, NEW id, NEW other,
             \A row \in from \cup to : row = Row(row.id, row.kind, row.conf, row.count),
             \A kind, conf, count :
                Row(id, kind, conf, count) \in from <=> Row(other, kind, conf, count) \in to,
             NEW row \in Merged(from), row.id = id
      PROVE  Row(other, row.kind, row.conf, row.count) \in Merged(to)
  <2>1. row \in from /\ row = Row(id, row.kind, row.conf, row.count)
    BY <1>2 DEF Merged
  <2>2. Row(other, row.kind, row.conf, row.count) \in to
    BY <1>2, <2>1
  <2>3. ASSUME NEW q \in to, q.id = other
        PROVE  q.conf <= row.conf
    <3>1. q = Row(other, q.kind, q.conf, q.count)
      BY <1>2, <2>3
    <3>2. Row(id, q.kind, q.conf, q.count) \in from
      BY <1>2, <3>1
    <3> QED BY <1>1, <1>2, <3>2 DEF Merged
  <2> QED BY <1>1, <2>2, <2>3 DEF Merged
<1>3. \A row \in Merged(up) : row.id = x => Row(y, row.kind, row.conf, row.count) \in Merged(down)
  BY <1>2
<1>4. \A row \in Merged(down) : row.id = y => Row(x, row.kind, row.conf, row.count) \in Merged(up)
  BY <1>2
<1> QED BY <1>1, <1>3, <1>4 DEF Facing

\* x is among the callers of y exactly if y is among the callees of x, over the
\* same edge at the same confidence, in every store the passes may leave: the two
\* readings of the references (RefsNaming, RefsInside) meet because a reference
\* has one innermost body, because a key has one node, and because a candidate is
\* a node of the name the reference has (query.neighbors, resolvedb.resolve_ref).
THEOREM AnswersMirror == Spec => []CallersMirrorCallees
<1>1. ASSUME GraphInv, NEW x \in Definitions, NEW y \in Definitions
      PROVE  Facing(Neighbors(store, y, "callers", TRUE), x) =
                Facing(Neighbors(store, x, "callees", TRUE), y)
  <2> DEFINE up == StoredHop(store, y, TRUE, {"CALLS"}, TRUE)
                   \cup UpstreamRefs(store, y, {"CALLS"}, TRUE)
             down == StoredHop(store, x, FALSE, {"CALLS"}, TRUE)
                     \cup DownstreamRefs(store, x, {"CALLS"}, TRUE)
  <2>1. /\ Question("callers").up = TRUE /\ Question("callers").kinds = {"CALLS"}
        /\ Question("callees").up = FALSE /\ Question("callees").kinds = {"CALLS"}
    BY DEF Question
  <2>2. {"CALLS"} # {"IMPORTS"}
    OBVIOUS
  <2>3. /\ Neighbors(store, y, "callers", TRUE) = Merged(up)
        /\ Neighbors(store, x, "callees", TRUE) = Merged(down)
    <3>1. /\ Hop(store, y, TRUE, {"CALLS"}, TRUE) = UpstreamRefs(store, y, {"CALLS"}, TRUE)
          /\ Hop(store, x, FALSE, {"CALLS"}, TRUE) = DownstreamRefs(store, x, {"CALLS"}, TRUE)
      BY <2>2 DEF Hop
    <3>2. \A start, question :
             Neighbors(store, start, question, TRUE) =
                Merged(StoredHop(store, start, Question(question).up, Question(question).kinds, TRUE)
                       \cup Hop(store, start, Question(question).up, Question(question).kinds, TRUE))
      BY DEF Neighbors
    <3> QED BY <2>1, <3>1, <3>2, Zenon
  <2>4. \A row \in up \cup down : row = Row(row.id, row.kind, row.conf, row.count)
    BY AllRows
  <2>5. Whole(store) /\ x \in DefinitionsOf(store) /\ y \in DefinitionsOf(store)
    BY <1>1 DEF GraphInv, Definitions, DefinitionsOf
  <2>6. ASSUME NEW kind, NEW conf, NEW count
        PROVE  Row(x, kind, conf, count) \in up <=> Row(y, kind, conf, count) \in down
    BY <2>5, StoredMirror, RefsMirror
  <2> HIDE DEF up, down
  <2>7. \A kind, conf, count : Row(x, kind, conf, count) \in up <=> Row(y, kind, conf, count) \in down
    BY <2>6
  <2>8. Facing(Merged(up), x) = Facing(Merged(down), y)
    BY <2>4, <2>7, MergedMirror
  <2> QED BY <2>3, <2>8
<1>2. GraphInv => CallersMirrorCallees
  BY <1>1 DEF CallersMirrorCallees
<1> QED BY <1>2, GraphInit, GraphStep, PTL DEF Spec

----------------------------------------------------------------------------
(* The blast radius                                                         *)

\* The nodes some chain of at most k steps reaches, and those no shorter one does.
Within(chains, k) == UNION {chains[j] : j \in 0 .. k}
FirstAt(chains, k) == chains[k] \ UNION {chains[j] : j \in 0 .. (k - 1)}

\* Each node within reach is reached first at one length.
LEMMA FirstReached ==
    ASSUME NEW chains, NEW k \in Nat, NEW id
    PROVE  id \in Within(chains, k) <=> \E j \in 0 .. k : id \in FirstAt(chains, j)
<1>1. ASSUME id \in Within(chains, k)
      PROVE  \E j \in 0 .. k : id \in FirstAt(chains, j)
  <2> DEFINE T == {j \in Nat : j <= k /\ id \in chains[j]}
  <2>1. T \in SUBSET Nat /\ T # {}
    BY <1>1 DEF Within
  <2>2. PICK j \in T : \A i \in T : j <= i
    <3> HIDE DEF T
    <3> QED BY <2>1, Least
  <2>3. ASSUME NEW i \in 0 .. (j - 1)
        PROVE  id \notin chains[i]
    <3>1. i \in Nat /\ i <= k /\ ~(j <= i)
      BY <2>2
    <3> QED BY <2>2, <3>1
  <2>4. j \in 0 .. k
    BY <2>2
  <2> QED BY <2>2, <2>3, <2>4 DEF FirstAt
<1>2. ASSUME NEW j \in 0 .. k, id \in FirstAt(chains, j)
      PROVE  id \in Within(chains, k)
  BY <1>2 DEF FirstAt, Within
<1> QED BY <1>1, <1>2

\* The levels so far, as a sequence: the last of them, and all of them together.
LEMMA LevelsSoFar ==
    ASSUME NEW S, NEW before \in Seq(S), NEW n \in Nat, Len(before) = n + 1, NEW chains,
           \A k \in 0 .. n : before[k + 1] = FirstAt(chains, k)
    PROVE  Last(before) = FirstAt(chains, n) /\ UNION ToSet(before) = Within(chains, n)
<1>1. Last(before) = before[n + 1] /\ n \in 0 .. n
  BY DEF Last
<1>2. \A k \in 0 .. n : before[k + 1] = FirstAt(chains, k)
  OBVIOUS
<1>3. ToSet(before) = {before[i] : i \in 1 .. n + 1}
  BY DEF ToSet
<1>4. ASSUME NEW id
      PROVE  id \in UNION ToSet(before) <=> \E k \in 0 .. n : id \in FirstAt(chains, k)
  <2>1. ASSUME NEW k \in 0 .. n, id \in FirstAt(chains, k)
        PROVE  id \in UNION ToSet(before)
    <3>1. k + 1 \in 1 .. n + 1 /\ id \in before[k + 1]
      BY <1>2, <2>1
    <3> QED BY <1>3, <3>1
  <2>2. ASSUME id \in UNION ToSet(before)
        PROVE  \E k \in 0 .. n : id \in FirstAt(chains, k)
    <3>1. PICK i \in 1 .. n + 1 : id \in before[i]
      BY <1>3, <2>2
    <3>2. i - 1 \in 0 .. n /\ (i - 1) + 1 = i
      OBVIOUS
    <3> QED BY <1>2, <3>1, <3>2
  <2> QED BY <2>1, <2>2
<1>5. \A id : id \in Within(chains, n) <=> \E k \in 0 .. n : id \in FirstAt(chains, k)
  BY FirstReached
<1> QED BY <1>1, <1>2, <1>4, <1>5

\* What one step from some nodes reaches.
Ahead(next, ids) == UNION {next[id] : id \in ids}

\* From the fresh nodes alone a level reaches all that is fresh one step on.
LEMMA FreshAhead ==
    ASSUME NEW next, NEW chains, NEW n \in Nat,
           \A k \in Nat : chains[k + 1] = Ahead(next, chains[k])
    PROVE  Ahead(next, FirstAt(chains, n)) \ Within(chains, n) = FirstAt(chains, n + 1)
<1>1. FirstAt(chains, n + 1) = chains[n + 1] \ Within(chains, n)
  BY DEF FirstAt, Within
<1>2. \A k \in Nat : chains[k + 1] = Ahead(next, chains[k])
  OBVIOUS
<1>3. ASSUME NEW id \in FirstAt(chains, n + 1)
      PROVE  id \in Ahead(next, FirstAt(chains, n))
  <2>1. PICK y \in chains[n] : id \in next[y]
    BY <1>1, <1>2 DEF Ahead
  <2>2. ASSUME NEW j \in 0 .. (n - 1), y \in chains[j]
        PROVE  FALSE
    <3>1. j \in Nat /\ j + 1 \in 0 .. n
      OBVIOUS
    <3>2. id \in chains[j + 1]
      BY <1>2, <2>1, <2>2, <3>1 DEF Ahead
    <3> QED BY <1>1, <3>1, <3>2 DEF Within
  <2>3. y \in FirstAt(chains, n)
    BY <2>1, <2>2 DEF FirstAt
  <2> QED BY <2>1, <2>3 DEF Ahead
<1>4. Ahead(next, FirstAt(chains, n)) \subseteq chains[n + 1]
  <2>1. FirstAt(chains, n) \subseteq chains[n]
    BY DEF FirstAt
  <2>2. chains[n + 1] = Ahead(next, chains[n])
    BY <1>2
  <2> QED BY <2>1, <2>2 DEF Ahead
<1> QED BY <1>1, <1>3, <1>4

\* The chains of each length, and the levels up to one, as they should be.
ChainsOf(next, start, chains) ==
    chains[0] = {start} /\ \A k \in Nat : chains[k + 1] = Ahead(next, chains[k])

FreshUpTo(levels, chains, n) ==
    Len(levels) = n + 1 /\ \A k \in 0 .. n : levels[k + 1] = FirstAt(chains, k)

NextLevel(next, levels) == Append(levels, Ahead(next, Last(levels)) \ UNION ToSet(levels))

\* So the next level holds what no shorter chain reaches, if those before it do.
LEMMA OneLevel ==
    ASSUME NEW S, NEW next, NEW start, NEW chains, ChainsOf(next, start, chains),
           NEW levels \in Seq(S), NEW n \in Nat, FreshUpTo(levels, chains, n)
    PROVE  FreshUpTo(NextLevel(next, levels), chains, n + 1)
<1>1. Last(levels) = FirstAt(chains, n) /\ UNION ToSet(levels) = Within(chains, n)
  BY LevelsSoFar DEF FreshUpTo
<1>2. Ahead(next, FirstAt(chains, n)) \ Within(chains, n) = FirstAt(chains, n + 1)
  <2>1. \A k \in Nat : chains[k + 1] = Ahead(next, chains[k])
    BY DEF ChainsOf
  <2> QED BY ONLY <2>1, n \in Nat, FreshAhead
<1> DEFINE after == Append(levels, FirstAt(chains, n + 1))
<1>3. NextLevel(next, levels) = after
  BY <1>1, <1>2 DEF NextLevel
<1>4. /\ Len(after) = (n + 1) + 1 /\ after[(n + 1) + 1] = FirstAt(chains, n + 1)
      /\ \A i \in 1 .. n + 1 : after[i] = levels[i]
  BY DEF FreshUpTo
<1> HIDE DEF after
<1>5. ASSUME NEW k \in 0 .. n + 1
      PROVE  after[k + 1] = FirstAt(chains, k)
  <2>1. CASE k = n + 1
    BY <1>4, <2>1
  <2>2. CASE k # n + 1
    <3>1. k \in 0 .. n /\ k + 1 \in 1 .. n + 1
      BY <2>2
    <3> QED BY <1>4, <3>1 DEF FreshUpTo
  <2> QED BY <2>1, <2>2
<1> QED BY <1>3, <1>4, <1>5 DEF FreshUpTo

\* Level by level from the fresh nodes alone, leaving out what an earlier level
\* has: what a level then holds is what no shorter chain reaches.
LEMMA BreadthFirst ==
    ASSUME NEW S, NEW next, NEW start, NEW chains, ChainsOf(next, start, chains),
           NEW levels \in [Nat -> Seq(S)], levels[0] = <<{start}>>,
           \A n \in Nat : levels[n + 1] = NextLevel(next, levels[n])
    PROVE  \A n \in Nat : FreshUpTo(levels[n], chains, n)
<1> DEFINE T == {n \in Nat : FreshUpTo(levels[n], chains, n)}
<1>1. FreshUpTo(levels[0], chains, 0)
  <2>1. FirstAt(chains, 0) = {start}
    BY DEF FirstAt, ChainsOf
  <2>2. \A k \in 0 .. 0 : k = 0
    OBVIOUS
  <2>3. Len(<<{start}>>) = 0 + 1 /\ <<{start}>>[0 + 1] = {start}
    OBVIOUS
  <2> QED BY <2>1, <2>2, <2>3, Zenon DEF FreshUpTo
<1>2. ASSUME NEW n \in Nat, FreshUpTo(levels[n], chains, n)
      PROVE  FreshUpTo(levels[n + 1], chains, n + 1)
  <2>1. levels[n] \in Seq(S) /\ levels[n + 1] = NextLevel(next, levels[n])
    OBVIOUS
  <2> QED BY <1>2, <2>1, OneLevel
<1>3. Nat \subseteq T
  <2>1. 0 \in T
    BY ONLY <1>1
  <2>2. ASSUME NEW n \in Nat, n \in T
        PROVE  n + 1 \in T
    BY ONLY <1>2, <2>2
  <2> HIDE DEF T
  <2> QED BY <2>1, <2>2, Inductive
<1> QED BY <1>3

\* A module node found stands.
LEMMA ModuleStands ==
    ASSUME NEW s, NEW p, ModuleNode(s, p) # NoNode
    PROVE  ModuleNode(s, p) \in IdsOf(s)
<1> DEFINE modules == {Id(n) : n \in {m \in s.nodes : m.path = p /\ m.kind = "module"}}
<1>1. ModuleNode(s, p) = IF modules = {} THEN NoNode
                         ELSE IF ModuleId(p) \in modules THEN ModuleId(p)
                         ELSE CHOOSE id \in modules : TRUE
  BY DEF ModuleNode
<1>2. modules \subseteq IdsOf(s)
  BY DEF IdsOf
<1> HIDE DEF modules
<1> QED BY <1>1, <1>2

\* And so does the caller of a reference, where it has one.
LEMMA AnyCallerStands ==
    ASSUME NEW s, Whole(s), NEW r \in s.refs, CallerNode(s, r) # NoNode
    PROVE  CallerNode(s, r) \in IdsOf(s)
<1>1. r.site \in Nat
  BY WholePaths, RefsOfTexts DEF Whole, AsWritten
<1>2. \A m \in s.nodes : IsNode(m)
  BY DEF Whole, InOrder
<1>3. CallerNode(s, r) = IF EnclosingNode(s, r.path, r.site) # NoNode
                         THEN EnclosingNode(s, r.path, r.site) ELSE ModuleNode(s, r.path)
  BY DEF CallerNode
<1>4. CASE EnclosingNode(s, r.path, r.site) # NoNode
  <2>1. PICK n \in s.nodes : n.path = r.path /\ EnclosingNode(s, r.path, r.site) = Id(n)
    BY <1>1, <1>2, <1>4, EnclosingStands
  <2> QED BY <1>3, <1>4, <2>1 DEF IdsOf
<1>5. CASE EnclosingNode(s, r.path, r.site) = NoNode
  BY <1>3, <1>5, ModuleStands
<1> QED BY <1>4, <1>5

\* What depends on a node are nodes.
LEMMA DependentsStand ==
    ASSUME NEW s, Whole(s), NEW id, NEW ambiguous
    PROVE  Dependents(s, id, ambiguous) \subseteq IdsOf(s)
<1>1. \A other, k, f, n : Row(other, k, f, n).id = other
  BY DEF Row
<1>2. ASSUME NEW row \in StoredHop(s, id, TRUE, RadiusKinds \cup {"IMPORTS"}, ambiguous)
      PROVE  row.id \in IdsOf(s)
  <2>1. PICK e \in s.edges : row.id = e.src
    BY <1>1 DEF StoredHop
  <2> QED BY <2>1 DEF Whole, EdgesHold, Ids, IdsOf
<1>3. ASSUME NEW row \in UpstreamRefs(s, id, RadiusKinds, ambiguous)
      PROVE  row.id \in IdsOf(s)
  <2>1. PICK r \in s.refs : /\ row.id \notin {NoNode, id}
                            /\ \E c \in ResolveRef(s, r).cands : row = RowOf(s, CallerNode(s, r), r, c)
    BY Upstream
  <2>2. row.id = CallerNode(s, r)
    BY <1>1, <2>1 DEF RowOf
  <2> QED BY <2>1, <2>2, AnyCallerStands
<1>4. ASSUME NEW row \in ImportHop(s, id, TRUE)
      PROVE  row.id \in IdsOf(s)
  <2>1. PICK q : row = Row(ModuleNode(s, q), "IMPORTS", 1000, 1) /\ ModuleNode(s, q) # NoNode
    BY DEF ImportHop
  <2> QED BY <1>1, <2>1, ModuleStands
<1>5. /\ Hop(s, id, TRUE, RadiusKinds, ambiguous) = UpstreamRefs(s, id, RadiusKinds, ambiguous)
      /\ Hop(s, id, TRUE, {"IMPORTS"}, ambiguous) = ImportHop(s, id, TRUE)
  <2>1. RadiusKinds # {"IMPORTS"}
    BY DEF RadiusKinds
  <2> QED BY <2>1 DEF Hop
<1>6. Dependents(s, id, ambiguous) =
         {row.id : row \in StoredHop(s, id, TRUE, RadiusKinds \cup {"IMPORTS"}, ambiguous)
                           \cup UNION {Hop(s, id, TRUE, kinds, ambiguous) :
                                       kinds \in {RadiusKinds, {"IMPORTS"}}}}
  BY DEF Dependents, Reaching
<1> QED BY <1>2, <1>3, <1>4, <1>5, <1>6

\* Levels, and the walk from a node that makes them.
LevelsOf(I) == {q \in Seq(SUBSET I) : Len(q) # 0}

Walks(next, start, g) == g[0] = <<{start}>> /\ \A n \in Nat : g[n + 1] = NextLevel(next, g[n])

\* A walk from a node, level by level, over nodes that lead to nodes.
LEMMA Walk ==
    ASSUME NEW I, NEW start \in I, NEW next \in [I -> SUBSET I]
    PROVE  \E g \in [Nat -> LevelsOf(I)] : Walks(next, start, g)
<1> DEFINE S == {q \in Seq(SUBSET I) : Len(q) # 0}
           base == <<{start}>>
           F == [n \in Nat |-> [q \in S |-> NextLevel(next, q)]]
<1>1. ASSUME NEW q \in S
      PROVE  NextLevel(next, q) \in S
  <2> DEFINE new == Ahead(next, Last(q)) \ UNION ToSet(q)
  <2>1. q \in Seq(SUBSET I) /\ Last(q) \subseteq I
    BY DEF Last
  <2>2. new \in SUBSET I
    BY <2>1 DEF Ahead
  <2> HIDE DEF new
  <2>3. Append(q, new) \in Seq(SUBSET I) /\ Len(Append(q, new)) = Len(q) + 1 /\ Len(q) \in Nat
    BY ONLY <2>1, <2>2
  <2>4. Append(q, new) \in S
    BY <2>3
  <2> QED BY <2>4 DEF NextLevel, new
<1>2. base \in S
  OBVIOUS
<1>3. F \in [Nat -> [S -> S]]
  <2> HIDE DEF S
  <2> QED BY <1>1
<1>4. PICK g \in [Nat -> S] : g[0] = base /\ \A n \in Nat : g[n + 1] = F[n + 1][g[n]]
  <2> HIDE DEF F, S, base
  <2> QED BY <1>2, <1>3, Recursion
<1>5. ASSUME NEW n \in Nat
      PROVE  g[n + 1] = NextLevel(next, g[n])
  <2>1. g[n] \in S /\ g[n + 1] = F[n + 1][g[n]] /\ n + 1 \in Nat
    <3> HIDE DEF F, S, base
    <3> QED BY <1>4
  <2>2. F[n + 1] = [q \in S |-> NextLevel(next, q)]
    BY <2>1
  <2> HIDE DEF F, S
  <2> QED BY <2>1, <2>2
<1> QED BY <1>4, <1>5 DEF Walks, LevelsOf

\* What depends on what.
DependsOn(s, ambiguous) == [id \in IdsOf(s) |-> Dependents(s, id, ambiguous)]

\* The answer that has each node of a level at its depth.
AtDepths(level, depth) == UNION {{[id |-> id, depth |-> k] : id \in level[k]} : k \in 1 .. depth}

\* An entry of the answer is a node of a level, at its depth.
LEMMA InDepths ==
    ASSUME NEW level, NEW depth, NEW x
    PROVE  x \in AtDepths(level, depth) <=>
              \E k \in 1 .. depth : \E id \in level[k] : x = [id |-> id, depth |-> k]
BY DEF AtDepths

\* The levels of radius are those of a walk over what depends on what.
LEMMA RadiusWalks ==
    ASSUME NEW s, NEW start \in IdsOf(s), NEW ambiguous, NEW depth \in Nat,
           NEW g \in [Nat -> LevelsOf(IdsOf(s))], Walks(DependsOn(s, ambiguous), start, g)
    PROVE  Radius(s, start, depth, ambiguous) = AtDepths([k \in Nat |-> g[k][k + 1]], depth)
<1> DEFINE I == IdsOf(s)
           next == DependsOn(s, ambiguous)
           base == <<{start}>>
           level(q) == Append(q, (UNION {Dependents(s, id, ambiguous) : id \in Last(q)})
                                 \ UNION ToSet(q))
<1>1. ASSUME NEW q \in Seq(SUBSET I), Len(q) # 0
      PROVE  level(q) = NextLevel(next, q)
  <2>1. Last(q) \subseteq I
    BY <1>1 DEF Last
  <2>2. UNION {Dependents(s, id, ambiguous) : id \in Last(q)} = Ahead(next, Last(q))
    BY <2>1 DEF Ahead, DependsOn
  <2> QED BY <2>2 DEF NextLevel
<1> HIDE DEF level, base, next
<1>2. ASSUME NEW n \in Nat
      PROVE  g[n + 1] = level(g[n])
  <2>1. g[n] \in Seq(SUBSET I) /\ Len(g[n]) # 0
    BY DEF LevelsOf
  <2> QED BY <1>1, <2>1 DEF Walks, next
<1>3. g[0] = base
  BY DEF base, Walks
<1> DEFINE after(n) == IF n = 0 THEN base ELSE level(g[n - 1])
<1>6. g = [n \in Nat |-> after(n)]
  <2>1. ASSUME NEW n \in Nat
        PROVE  g[n] = after(n)
    <3>1. CASE n = 0
      BY <1>3, <3>1
    <3>2. CASE n # 0
      <4>1. n - 1 \in Nat /\ (n - 1) + 1 = n
        BY <3>2
      <4> QED BY <1>2, <3>2, <4>1
    <3> QED BY <3>1, <3>2
  <2> HIDE DEF after
  <2> QED BY <2>1
<1> DEFINE h == CHOOSE u : u = [n \in Nat |-> IF n = 0 THEN base ELSE level(u[n - 1])]
<1>7. Radius(s, start, depth, ambiguous) =
         UNION {{[id |-> id, depth |-> k] : id \in h[k][k + 1]} : k \in 1 .. depth}
  BY DEF Radius, level, base
<1>8. h = [n \in Nat |-> IF n = 0 THEN base ELSE level(h[n - 1])]
  <2>1. \E u : u = [n \in Nat |-> IF n = 0 THEN base ELSE level(u[n - 1])]
    BY <1>6
  <2> QED BY <2>1
<1> HIDE DEF h
<1>9. ASSUME NEW n \in Nat
      PROVE  h[n] = g[n]
  <2> DEFINE T == {m \in Nat : h[m] = g[m]}
  <2>1. h[0] = base
    BY <1>8
  <2>2. 0 \in T
    BY <1>3, <2>1
  <2>3. ASSUME NEW m \in Nat, m \in T
        PROVE  m + 1 \in T
    <3>1. m + 1 \in Nat /\ m + 1 # 0 /\ (m + 1) - 1 = m
      OBVIOUS
    <3>2. h[m + 1] = level(h[m])
      BY <1>8, <3>1
    <3> QED BY <1>2, <2>3, <3>1, <3>2
  <2> HIDE DEF T
  <2>4. Nat \subseteq T
    BY <2>2, <2>3, Inductive
  <2> QED BY <2>4 DEF T
<1> DEFINE reached == [k \in Nat |-> g[k][k + 1]]
<1>10. \A k \in 1 .. depth : h[k][k + 1] = reached[k]
  BY <1>9
<1> HIDE DEF reached
<1>11. \A x : x \in Radius(s, start, depth, ambiguous) <=>
                 \E k \in 1 .. depth : \E id \in h[k][k + 1] : x = [id |-> id, depth |-> k]
  BY <1>7
<1>12. Radius(s, start, depth, ambiguous) = AtDepths(reached, depth)
  <2>1. \A x : x \in AtDepths(reached, depth) <=>
                  \E k \in 1 .. depth : \E id \in reached[k] : x = [id |-> id, depth |-> k]
    BY InDepths
  <2>2. \A x : x \in Radius(s, start, depth, ambiguous) <=> x \in AtDepths(reached, depth)
    BY ONLY <1>10, <1>11, <2>1
  <2> QED BY ONLY <2>2
<1> QED BY <1>12 DEF reached

\* The chains of a walk, as a function of their length.
Chains(next, start) ==
    LET chains[k \in Nat] == IF k = 0 THEN {start} ELSE UNION {next[id] : id \in chains[k - 1]}
    IN  chains

\* They are chains of the walk, and lead to nodes.
LEMMA ChainsWalk ==
    ASSUME NEW I, NEW start \in I, NEW next \in [I -> SUBSET I]
    PROVE  /\ ChainsOf(next, start, Chains(next, start))
           /\ \A k \in Nat : Chains(next, start)[k] \subseteq I
<1> DEFINE S == SUBSET I
           base == {start}
           step(ids) == UNION {next[id] : id \in ids}
           F == [n \in Nat |-> [q \in S |-> step(q)]]
<1>1. base \in S /\ \A q \in S : step(q) \in S
  OBVIOUS
<1> HIDE DEF step
<1>2. F \in [Nat -> [S -> S]]
  <2> HIDE DEF S
  <2> QED BY <1>1
<1>3. PICK g \in [Nat -> S] : g[0] = base /\ \A n \in Nat : g[n + 1] = F[n + 1][g[n]]
  <2> HIDE DEF F, S, base
  <2> QED BY <1>1, <1>2, Recursion
<1>4. ASSUME NEW n \in Nat
      PROVE  g[n + 1] = step(g[n])
  <2>1. g[n] \in S /\ g[n + 1] = F[n + 1][g[n]] /\ n + 1 \in Nat
    <3> HIDE DEF F, S, base
    <3> QED BY <1>3
  <2>2. F[n + 1] = [q \in S |-> step(q)]
    BY <2>1
  <2> HIDE DEF F, S
  <2> QED BY <2>1, <2>2
<1> HIDE DEF F, S, base
<1> DEFINE after(n) == IF n = 0 THEN base ELSE step(g[n - 1])
<1>5. g = [n \in Nat |-> after(n)]
  <2>1. ASSUME NEW n \in Nat
        PROVE  g[n] = after(n)
    <3>1. CASE n = 0
      BY <1>3, <3>1
    <3>2. CASE n # 0
      <4>1. n - 1 \in Nat /\ (n - 1) + 1 = n
        BY <3>2
      <4> QED BY <1>4, <3>2, <4>1
    <3> QED BY <3>1, <3>2
  <2> HIDE DEF after
  <2> QED BY <1>3, <2>1
<1> DEFINE h == CHOOSE u : u = [n \in Nat |-> IF n = 0 THEN base ELSE step(u[n - 1])]
<1>6. h = [n \in Nat |-> IF n = 0 THEN base ELSE step(h[n - 1])]
  <2>1. \E u : u = [n \in Nat |-> IF n = 0 THEN base ELSE step(u[n - 1])]
    BY <1>5
  <2> QED BY <2>1
<1> HIDE DEF h
<1>7. h[0] = base
  BY <1>6
<1>8. ASSUME NEW n \in Nat
      PROVE  h[n + 1] = step(h[n])
  <2>1. n + 1 \in Nat /\ n + 1 # 0 /\ (n + 1) - 1 = n
    OBVIOUS
  <2> QED BY <1>6, <2>1
<1>9. ChainsOf(next, start, h)
  BY <1>7, <1>8 DEF ChainsOf, Ahead, base, step
<1> DEFINE T == {n \in Nat : h[n] \in S}
<1>10. 0 \in T
  BY <1>1, <1>7
<1>11. ASSUME NEW n \in Nat, n \in T
       PROVE  n + 1 \in T
  BY <1>1, <1>8, <1>11
<1>12. Nat \subseteq T
  <2> HIDE DEF T
  <2> QED BY <1>10, <1>11, Inductive
<1>13. \A k \in Nat : h[k] \subseteq I
  BY <1>12 DEF S
<1>14. Chains(next, start) = h
  BY DEF Chains, h, base, step
<1> QED BY <1>9, <1>13, <1>14

\* At any depth the blast radius tells each node at the length of the shortest
\* chain of dependents that leads to it, and no node that none leads to.
LEMMA RadiusTells ==
    ASSUME NEW s, Whole(s), NEW start \in IdsOf(s), NEW ambiguous, NEW depth \in Nat, NEW chains,
           ChainsOf(DependsOn(s, ambiguous), start, chains)
    PROVE  Radius(s, start, depth, ambiguous) = AtDepths([k \in Nat |-> FirstAt(chains, k)], depth)
<1> DEFINE I == IdsOf(s)
           next == DependsOn(s, ambiguous)
<1>1. next \in [I -> SUBSET I]
  BY DependentsStand DEF DependsOn
<1> HIDE DEF next
<1>2. PICK g \in [Nat -> LevelsOf(I)] : Walks(next, start, g)
  BY <1>1, Walk
<1>3. Radius(s, start, depth, ambiguous) = AtDepths([k \in Nat |-> g[k][k + 1]], depth)
  BY <1>2, RadiusWalks DEF next
<1>4. ChainsOf(next, start, chains)
  BY DEF next
<1>5. g \in [Nat -> Seq(SUBSET I)]
  BY <1>2 DEF LevelsOf
<1>6. \A n \in Nat : FreshUpTo(g[n], chains, n)
  <2>1. g[0] = <<{start}>> /\ \A n \in Nat : g[n + 1] = NextLevel(next, g[n])
    BY <1>2 DEF Walks
  <2> QED BY <1>4, <1>5, <2>1, BreadthFirst
<1>7. \A k \in Nat : g[k][k + 1] = FirstAt(chains, k)
  <2>1. \A k \in Nat : k \in 0 .. k
    OBVIOUS
  <2> QED BY <1>6, <2>1 DEF FreshUpTo
<1>8. [k \in Nat |-> g[k][k + 1]] = [k \in Nat |-> FirstAt(chains, k)]
  BY <1>7
<1> QED BY <1>3, <1>8

\* blast_radius tells each dependent once, at the length of the shortest chain
\* that leads to it, round a cycle too, and never the node itself: in every store
\* the passes may leave, and by RadiusTells to any depth and with the ambiguous
\* edges too (traverse.radius, its seen set and its frontier).
THEOREM RadiusTellsShortest == Spec => []RadiusIsShortest
<1> DEFINE next == [id \in IdsOf(store) |-> Dependents(store, id, FALSE)]
           chains(start) == CHOOSE u : u = [k \in Nat |->
                               IF k = 0 THEN {start} ELSE UNION {next[id] : id \in u[k - 1]}]
           shortest(start, id, k) == /\ id \in chains(start)[k]
                                     /\ \A j \in 0 .. k - 1 : id \notin chains(start)[j]
           level(start, k) == {d \in IdsOf(store) : shortest(start, d, k)}
           Told3(start) == Radius(store, start, 3, FALSE) =
              UNION {{[id |-> id, depth |-> k] : id \in level(start, k)} : k \in 1 .. 3}
<1>1. ASSUME GraphInv, NEW start \in IdsOf(store)
      PROVE  Told3(start)
  <2>1. Whole(store)
    BY <1>1 DEF GraphInv
  <2>2. next \in [IdsOf(store) -> SUBSET IdsOf(store)] /\ next = DependsOn(store, FALSE)
    BY <2>1, DependentsStand DEF DependsOn
  <2>3. chains(start) = Chains(next, start)
    BY DEF Chains
  <2> HIDE DEF next, chains
  <2>4. /\ ChainsOf(next, start, Chains(next, start))
        /\ \A k \in Nat : Chains(next, start)[k] \subseteq IdsOf(store)
    BY <2>2, ChainsWalk
  <2>5. PICK f : f = chains(start)
    OBVIOUS
  <2>6. ChainsOf(DependsOn(store, FALSE), start, f) /\ \A k \in Nat : f[k] \subseteq IdsOf(store)
    BY <2>2, <2>3, <2>4, <2>5
  <2> DEFINE fresh == [k \in Nat |-> FirstAt(f, k)]
  <2>7. Radius(store, start, 3, FALSE) = AtDepths(fresh, 3)
    <3>1. 3 \in Nat
      OBVIOUS
    <3> QED BY <2>1, <2>6, <3>1, RadiusTells
  <2>8. ASSUME NEW k \in 1 .. 3
        PROVE  level(start, k) = fresh[k]
    <3>1. f[k] \subseteq IdsOf(store)
      BY <2>6
    <3> QED BY <2>5, <3>1 DEF FirstAt
  <2> HIDE DEF level, fresh
  <2>9. \A x : x \in UNION {{[id |-> id, depth |-> k] : id \in level(start, k)} : k \in 1 .. 3} <=>
                 \E k \in 1 .. 3 : \E id \in level(start, k) : x = [id |-> id, depth |-> k]
    OBVIOUS
  <2>10. AtDepths(fresh, 3) =
            UNION {{[id |-> id, depth |-> k] : id \in level(start, k)} : k \in 1 .. 3}
    BY <2>8, <2>9, InDepths
  <2> QED BY <2>7, <2>10
<1>2. (\A start \in IdsOf(store) : Told3(start)) => RadiusIsShortest
  BY DEF RadiusIsShortest
<1>3. GraphInv => RadiusIsShortest
  <2> HIDE DEF Told3
  <2> QED BY <1>1, <1>2
<1> QED BY <1>3, GraphInit, GraphStep, PTL DEF Spec

----------------------------------------------------------------------------
(* Resolving on read                                                        *)

\* Of the references of one kind and one name at a byte the facts have one.
LEMMA OneRefInFacts ==
    ASSUME NEW p \in Path, NEW v \in Version,
           ~Extract(Text[p][v]).error,
           NEW r \in Extract(Text[p][v]).refs, NEW q \in Extract(Text[p][v]).refs,
           r.kind = q.kind, r.name = q.name, r.site = q.site
    PROVE  r = q
<1> DEFINE text == Text[p][v]
           defs == Linked(text.defs)
           scope(x) == Enclosing(defs, x.site)
           of(x) == [kind |-> x.kind, name |-> x.name, site |-> x.site,
                     member |-> x.member, receiver |-> x.receiver, scope |-> scope(x),
                     self |-> x.receiver # "" /\ IsSelf(defs, scope(x), x.receiver)]
<1>1. Extract(text).refs = {of(x) : x \in text.refs}
  <2>1. text.parses
    <3>1. ~text.parses => Extract(text) = NoFacts
      BY DEF Extract
    <3> QED BY <3>1 DEF NoFacts
  <2> QED BY <2>1 DEF Extract
<1>2. \A x : of(x).kind = x.kind /\ of(x).site = x.site /\ of(x).name = x.name
  OBVIOUS
<1> HIDE DEF of, text
<1>3. PICK x \in text.refs : r = of(x)
  BY <1>1 DEF text
<1>4. PICK y \in text.refs : q = of(y)
  BY <1>1 DEF text
<1>5. \A a, b \in text.refs : a.kind = b.kind /\ a.name = b.name /\ a.site = b.site => a = b
  BY GraphAssumption DEF text
<1>6. x = y
  BY <1>2, <1>3, <1>4, <1>5
<1> QED BY <1>3, <1>4, <1>6

\* The receiver names the same modules whatever the pool.
LEMMA SameModules ==
    ASSUME NEW left, NEW right, NEW ref, NEW row, left.names = right.names,
           left.modules = right.modules, ref.receiver = row.receiver
    PROVE  ReceiverModules(left, ref) = ReceiverModules(right, row)
BY DEF ReceiverModules

\* A reference its file does not decide has no candidate of its own file.
LEMMA NoneOfItsOwn ==
    ASSUME NEW table, NEW p \in DOMAIN table, NEW ref, ~Decided(p, table[p], ref),
           NEW s \in Narrowed(TableInputs(table, p, ref), ref)
    PROVE  s.path # p
<1> DEFINE in == TableInputs(table, p, ref)
           own == LocalInputs(p, table[p], ref)
<1> SUFFICES ASSUME s.path = p
             PROVE  FALSE
  OBVIOUS
<1>1. /\ in.names = own.names /\ in.modules = own.modules
      /\ in.pool = TablePool(table, ref.name)
  BY DEF TableInputs, LocalInputs, FileInputs
<1>2. ReceiverModules(in, ref) = ReceiverModules(own, ref)
  <2> HIDE DEF in, own
  <2> QED BY <1>1, SameModules
<1> HIDE DEF in, own
<1>3. s \in in.pool /\ (Decides(ref) => ModuleName(s.path) \in ReceiverModules(in, ref))
  BY DEF Narrowed, in
<1>4. PICK q \in DOMAIN table : s \in LocalSymbols(q, table[q], ref.name)
  BY <1>1, <1>3 DEF TablePool
<1>5. s.path = q
  BY <1>4 DEF LocalSymbols
<1>6. LocalSymbols(p, table[p], ref.name) # {}
  BY <1>4, <1>5
<1> QED BY <1>2, <1>3, <1>6 DEF Decided, own

----------------------------------------------------------------------------
(* The same candidate under the key of its node.                            *)

\* A candidate of the tables, as one of the store.
Rekeyed(table, c) == [c EXCEPT !.key = NodeIdOf(table, c)]

\* A score keeps its confidence and its evidence under the new key.
LEMMA ScoredAgree ==
    ASSUME NEW table, NEW s, NEW t, t.path = s.path, t.key = NodeIdOf(table, s),
           NEW conf, NEW evidence
    PROVE  /\ Rekeyed(table, Scored(s, conf, evidence)) = Scored(t, conf, evidence)
           /\ Scored(s, conf, evidence).conf = conf
           /\ Scored(t, conf, evidence).conf = conf
BY DEF Rekeyed, Scored, NodeIdOf

\* A symbol of the tables as a query reads it from the store.
Twin(table, s) == [path |-> s.path, key |-> NodeIdOf(table, s),
                   parent |-> ParentNode(store, NodeIdOf(table, s))]

\* The files a symbol is asked for from, and what they import, are the same.
Elsewhere(left, right, ref, row, s) ==
    /\ right.path = left.path /\ right.names = left.names /\ right.modules = left.modules
    /\ row.name = ref.name /\ s.path # left.path

\* A candidate of another file earns its tier by its path alone.
LEMMA TiersAgree ==
    ASSUME NEW table, NEW left, NEW right, NEW ref, NEW row, NEW s,
           Elsewhere(left, right, ref, row, s), NEW x
    PROVE  x \in Tiers(right, row, Twin(table, s)) <=>
              \E c \in Tiers(left, ref, s) : x = Rekeyed(table, c)
<1> DEFINE module == ModuleName(s.path)
           bound == ref.name \in DOMAIN left.names /\ left.names[ref.name] = module
           t == Twin(table, s)
<1>1. Tiers(left, ref, s) =
         IF bound THEN {Scored(s, ImportedSymbol, "import")}
         ELSE IF module \in left.modules THEN {Scored(s, ImportedModule, "import")}
         ELSE IF s.path.dir = left.path.dir THEN {Scored(s, SamePackage, "package")}
         ELSE {}
  BY DEF Tiers, Elsewhere
<1>2. t.path = s.path /\ t.key = NodeIdOf(table, s)
  BY DEF Twin
<1> HIDE DEF t
<1>3. Tiers(right, row, t) =
         IF bound THEN {Scored(t, ImportedSymbol, "import")}
         ELSE IF module \in left.modules THEN {Scored(t, ImportedModule, "import")}
         ELSE IF s.path.dir = left.path.dir THEN {Scored(t, SamePackage, "package")}
         ELSE {}
  BY <1>2 DEF Tiers, Elsewhere
<1>4. \A conf, evidence : Rekeyed(table, Scored(s, conf, evidence)) = Scored(t, conf, evidence)
  BY <1>2, ScoredAgree
<1> HIDE DEF bound, module
<1>5. x \in Tiers(right, row, t) <=> \E c \in Tiers(left, ref, s) : x = Rekeyed(table, c)
  BY <1>1, <1>3, <1>4
<1> QED BY <1>5 DEF t

\* Ranking looks at the confidence only.
LEMMA RankAgrees ==
    ASSUME NEW table, NEW cands, \A c \in cands : Rekeyed(table, c).conf = c.conf
    PROVE  Rank({Rekeyed(table, c) : c \in cands}) = {Rekeyed(table, c) : c \in Rank(cands)}
BY DEF Rank

----------------------------------------------------------------------------
(* The definitions of a name, in the tables and in the store.               *)

\* A node has the key and the name of one of the rows written for its file.
LEMMA NodeNames ==
    ASSUME NEW q, NEW facts, NEW m \in NodesOf(q, facts)
    PROVE  \E l \in {0} \cup Kept(facts.defs) : /\ Id(m) = Id(NodeRow(q, facts, l))
                                                /\ m.name = NodeRow(q, facts, l).name
<1> DEFINE indices == {0} \cup Kept(facts.defs)
           row(i) == NodeRow(q, facts, i)
           Node(i, j) == [row(j) EXCEPT !.body = row(i).body]
<1>1. \E i \in indices, j \in indices : m = Node(i, j)
  BY DEF NodesOf
<1>2. \A j : DOMAIN row(j) = NodeFields
  BY DEF NodeRow, NodeFields
<1>3. \A i, j : /\ Node(i, j).path = row(j).path /\ Node(i, j).start = row(j).start
                /\ Node(i, j).stop = row(j).stop /\ Node(i, j).name = row(j).name
  <2> HIDE DEF row
  <2> QED BY <1>2 DEF NodeFields
<1> HIDE DEF row, Node
<1> QED BY <1>1, <1>3 DEF Id, row

\* The tables of a store are the facts of its texts.
LEMMA TableFacts ==
    ASSUME Whole(store)
    PROVE  /\ DOMAIN Table(store) = Parsed(store.files)
           /\ \A q \in DOMAIN Table(store) : /\ Table(store)[q] = FactIn(store.files, q)
                                             /\ Readable(Table(store)[q])
<1>1. Texts(store.files) /\ DOMAIN store.files = Path
  BY WholePaths
<1>2. DOMAIN Table(store) = Parsed(store.files)
  BY <1>1 DEF Table, Parsed, Stored, FactIn
<1>3. \A q \in DOMAIN Table(store) : Table(store)[q] = FactIn(store.files, q)
  BY DEF Table, FactIn
<1> QED BY <1>1, <1>2, <1>3, ParsedText

\* A symbol of the tables is a definition of its file.
LEMMA InPool ==
    ASSUME NEW table, NEW name, NEW s
    PROVE  s \in TablePool(table, name) <=>
              \E q \in DOMAIN table : \E i \in DOMAIN table[q].defs :
                 /\ table[q].defs[i].name = name
                 /\ s = [path |-> q, key |-> i, parent |-> table[q].defs[i].parent]
BY DEF TablePool, LocalSymbols

\* The key of a definition.
LEMMA KeyTells ==
    ASSUME NEW q, NEW facts, NEW i, i # Top
    PROVE  /\ KeyOf(q, facts, i).path = q
           /\ i # 0 => KeyOf(q, facts, i) = Id(NodeRow(q, facts, i))
BY DEF KeyOf, Id, NodeRow

\* A symbol tells its definition, and the id of its node the symbol.
LEMMA SymbolTells ==
    ASSUME Whole(store), NEW table, table = Table(store), NEW name, AllAreNodes(table, name),
           NEW s \in TablePool(table, name)
    PROVE  /\ s.path \in DOMAIN table /\ s.key \in DOMAIN table[s.path].defs
           /\ s.key \in Nat /\ s.key # 0 /\ s.key # Top
           /\ table[s.path].defs[s.key].name = name
           /\ s = [path |-> s.path, key |-> s.key, parent |-> table[s.path].defs[s.key].parent]
           /\ NodeIdOf(table, s).path = s.path
<1>1. PICK q \in DOMAIN table : \E i \in DOMAIN table[q].defs :
         /\ table[q].defs[i].name = name
         /\ s = [path |-> q, key |-> i, parent |-> table[q].defs[i].parent]
  BY InPool
<1>2. PICK i \in DOMAIN table[q].defs :
         /\ table[q].defs[i].name = name
         /\ s = [path |-> q, key |-> i, parent |-> table[q].defs[i].parent]
  BY <1>1
<1>3. i \in Nat /\ i # 0
  <2>1. DOMAIN table[q].defs = 1 .. Len(table[q].defs) /\ Len(table[q].defs) \in Nat
    BY TableFacts DEF Readable
  <2> QED BY <1>2, <2>1
<1>4. s.path = q /\ s.key = i /\ s.parent = table[q].defs[i].parent
  BY <1>2
<1>5. i # Top
  BY <1>3, GraphAssumption
<1> QED BY <1>1, <1>2, <1>3, <1>4, <1>5, KeyTells DEF NodeIdOf

\* No two symbols share a node.
LEMMA OneSymbol ==
    ASSUME Whole(store), NEW table, table = Table(store), NEW name, AllAreNodes(table, name),
           NEW s \in TablePool(table, name), NEW t \in TablePool(table, name),
           NodeIdOf(table, s) = NodeIdOf(table, t)
    PROVE  s = t
<1>1. s.path = t.path
  BY SymbolTells
<1>2. t.key \in Kept(table[t.path].defs)
  BY DEF AllAreNodes
<1>3. \A j \in Kept(table[s.path].defs) \cup {Top} :
         KeyOf(s.path, table[s.path], j) = NodeIdOf(table, s) => j = s.key
  BY DEF AllAreNodes
<1>4. s.key = t.key
  BY <1>1, <1>2, <1>3 DEF NodeIdOf
<1>5. /\ s = [path |-> s.path, key |-> s.key, parent |-> table[s.path].defs[s.key].parent]
      /\ t = [path |-> t.path, key |-> t.key, parent |-> table[t.path].defs[t.key].parent]
  BY SymbolTells
<1> QED BY <1>1, <1>4, <1>5

\* The node of a symbol is in the pool of the store.
LEMMA SymbolHasNode ==
    ASSUME Whole(store), NEW table, table = Table(store), NEW name, AllAreNodes(table, name),
           NEW s \in TablePool(table, name)
    PROVE  \E n \in Pool(store, name) : Id(n) = NodeIdOf(table, s)
<1> DEFINE q == s.path
           facts == table[s.path]
           id == NodeIdOf(table, s)
<1>1. /\ q \in Parsed(store.files) /\ facts = FactIn(store.files, q) /\ Readable(facts)
      /\ s.key \in Nat /\ s.key # 0 /\ s.key # Top /\ facts.defs[s.key].name = name
  BY SymbolTells, TableFacts
<1>2. s.key \in Kept(facts.defs)
  BY DEF AllAreNodes
<1>3. id \in Ids(NodesOf(q, facts)) /\ id = KeyOf(q, facts, s.key)
  BY <1>1, <1>2, NodesOfFile DEF NodeIdOf
<1>4. PICK x \in NodesOf(q, facts) : Id(x) = id
  BY <1>3 DEF Ids
<1>5. x \in NodeRows(store.files)
  BY <1>1, <1>4 DEF NodeRows
<1>6. PICK n \in store.nodes : Place(n) = Place(x)
  BY <1>5 DEF Whole, AsWritten, Places
<1>7. Id(n) = id /\ n.name = x.name
  BY <1>4, <1>6 DEF Place
<1>8. PICK l \in {0} \cup Kept(facts.defs) : /\ Id(x) = Id(NodeRow(q, facts, l))
                                             /\ x.name = NodeRow(q, facts, l).name
  BY NodeNames
<1>9. \A j \in Kept(facts.defs) \cup {Top} : KeyOf(q, facts, j) = id => j = s.key
  BY DEF AllAreNodes
<1>10. l # 0
  <2> SUFFICES ASSUME l = 0 PROVE FALSE
    OBVIOUS
  <2>1. id = ModuleId(q)
    BY <1>4, <1>8 DEF Id, NodeRow, ModuleId
  <2>2. KeyOf(q, facts, Top) = id
    BY <2>1 DEF KeyOf
  <2> QED BY <1>1, <1>9, <2>2
<1>11. l = s.key
  <2>1. l \in Kept(facts.defs) /\ l # Top
    <3>1. l \in Kept(facts.defs)
      BY <1>10
    <3>2. l \in Nat
      BY <1>1, <3>1, KeptIsOfDefs DEF Readable
    <3> QED BY <3>1, <3>2, GraphAssumption
  <2>2. KeyOf(q, facts, l) = id
    BY <1>4, <1>8, <1>10, <2>1, KeyTells
  <2> QED BY <1>9, <2>1, <2>2
<1>12. n.name = <<name>>
  <2>1. NodeRow(q, facts, s.key).name = <<facts.defs[s.key].name>>
    BY <1>1 DEF NodeRow
  <2> QED BY <1>1, <1>7, <1>8, <1>11, <2>1
<1>13. n.kind # "module"
  <2>1. NodeOf(store, id).kind # "module"
    BY DEF AllAreNodes
  <2>2. KeysApart(store.nodes)
    BY DEF Whole, InOrder
  <2> QED BY <1>6, <1>7, <2>1, <2>2, NodeByKey
<1> QED BY <1>6, <1>7, <1>12, <1>13 DEF Pool

\* A node in the pool of the store is that of a symbol.
LEMMA NodeHasSymbol ==
    ASSUME Whole(store), NEW table, table = Table(store), NEW name, AllAreNodes(table, name),
           NEW n \in Pool(store, name)
    PROVE  \E s \in TablePool(table, name) : Id(n) = NodeIdOf(table, s)
<1> DEFINE q == n.path
           facts == table[n.path]
<1>1. n \in store.nodes /\ n.name = <<name>> /\ Id(n) # ModuleId(n.path)
  BY DEF Pool, AllAreNodes
<1>2. q \in Parsed(store.files)
  BY <1>1, WholePaths
<1>3. q \in DOMAIN table /\ facts = FactIn(store.files, q) /\ Readable(facts)
  BY <1>2, TableFacts
<1>4. Place(n) \in Places(NodeRows(store.files))
  BY <1>1 DEF Whole, AsWritten, Places
<1>5. PICK x \in NodeRows(store.files) : Place(x) = Place(n)
  BY <1>4 DEF Places
<1>6. Id(x) = Id(n) /\ x.name = n.name
  BY <1>5 DEF Place
<1>7. x.path = q
  BY <1>6 DEF Id
<1>8. x \in NodesOf(q, facts)
  <2>1. PICK p \in Parsed(store.files) : x \in NodesOf(p, FactIn(store.files, p))
    BY <1>5 DEF NodeRows
  <2>2. p = q
    BY <1>7, <2>1, WholePaths, PathsOfFile
  <2> QED BY <1>3, <2>1, <2>2
<1>9. PICK l \in {0} \cup Kept(facts.defs) : /\ Id(x) = Id(NodeRow(q, facts, l))
                                             /\ x.name = NodeRow(q, facts, l).name
  BY <1>8, NodeNames
<1>10. l # 0
  BY <1>1, <1>6, <1>9 DEF Id, NodeRow, ModuleId
<1>11. l \in DOMAIN facts.defs /\ l # Top
  <2>1. l \in 1 .. Len(facts.defs)
    BY <1>3, <1>9, <1>10, KeptIsOfDefs DEF Readable
  <2> QED BY <1>3, <2>1, GraphAssumption DEF Readable
<1>12. facts.defs[l].name = name
  <2>1. NodeRow(q, facts, l).name = <<facts.defs[l].name>>
    BY <1>10 DEF NodeRow
  <2> QED BY <1>1, <1>6, <1>9, <2>1
<1> DEFINE s == [path |-> q, key |-> l, parent |-> facts.defs[l].parent]
<1>13. s \in TablePool(table, name)
  BY <1>3, <1>11, <1>12, InPool
<1>14. NodeIdOf(table, s) = Id(n)
  <2>1. s.path = q /\ s.key = l
    OBVIOUS
  <2> HIDE DEF s
  <2>2. NodeIdOf(table, s) = KeyOf(q, facts, l)
    BY <2>1 DEF NodeIdOf
  <2> QED BY <1>6, <1>9, <1>10, <1>11, <2>2, KeyTells
<1> QED BY <1>13, <1>14

\* The definitions of a name are finitely many.
LEMMA FinitelyMany ==
    ASSUME Whole(store), NEW table, table = Table(store), NEW name
    PROVE  IsFiniteSet(TablePool(table, name))
<1>1. IsFiniteSet(DOMAIN table)
  <2>1. DOMAIN table \in SUBSET Path
    BY TableFacts, WholePaths
  <2> QED BY <2>1, GraphAssumption, FS_Subset
<1>2. ASSUME NEW q \in DOMAIN table
      PROVE  IsFiniteSet(LocalSymbols(q, table[q], name))
  <2> DEFINE named == {i \in DOMAIN table[q].defs : table[q].defs[i].name = name}
             symbol == [i \in named |->
                           [path |-> q, key |-> i, parent |-> table[q].defs[i].parent]]
  <2>1. IsFiniteSet(named)
    <3>1. DOMAIN table[q].defs = 1 .. Len(table[q].defs) /\ Len(table[q].defs) \in Nat
      BY TableFacts DEF Readable
    <3>2. IsFiniteSet(1 .. Len(table[q].defs))
      BY <3>1, FS_Interval
    <3>3. named \in SUBSET (1 .. Len(table[q].defs))
      BY <3>1
    <3> QED BY <3>2, <3>3, FS_Subset
  <2>2. symbol \in Surjection(named, LocalSymbols(q, table[q], name))
    BY DEF Surjection, LocalSymbols
  <2> HIDE DEF named, symbol
  <2> QED BY <2>1, <2>2, FS_Surjection
<1> DEFINE symbols == {LocalSymbols(q, table[q], name) : q \in DOMAIN table}
           ofFile == [q \in DOMAIN table |-> LocalSymbols(q, table[q], name)]
<1>3. IsFiniteSet(symbols)
  <2>1. ofFile \in Surjection(DOMAIN table, symbols)
    BY DEF Surjection
  <2> HIDE DEF ofFile, symbols
  <2> QED BY <1>1, <2>1, FS_Surjection
<1>4. \A T \in symbols : IsFiniteSet(T)
  BY <1>2
<1>5. TablePool(table, name) = UNION symbols
  BY DEF TablePool
<1> HIDE DEF symbols
<1> QED BY <1>3, <1>4, <1>5, FS_UNION

----------------------------------------------------------------------------
(* The pools, and what the rule makes of them.                              *)

\* The pool of a stored reference holds the twins of the symbols of its name.
LEMMA PoolsMeet ==
    ASSUME Whole(store), NEW table, table = Table(store), NEW row, AllAreNodes(table, row.name)
    PROVE  StoreInputs(store, row).pool = {Twin(table, s) : s \in TablePool(table, row.name)}
<1> DEFINE Read(n) == [path |-> n.path, key |-> Id(n), parent |-> ParentNode(store, Id(n))]
<1>1. StoreInputs(store, row).pool = {Read(n) : n \in Pool(store, row.name)}
  BY DEF StoreInputs
<1>2. \A n, s : Id(n) = NodeIdOf(table, s) /\ s \in TablePool(table, row.name)
                   => Read(n) = Twin(table, s)
  BY SymbolTells, IdTells DEF Twin
<1> HIDE DEF Read
<1>3. \A s \in TablePool(table, row.name) :
         \E n \in Pool(store, row.name) : Id(n) = NodeIdOf(table, s)
  BY SymbolHasNode
<1>4. \A n \in Pool(store, row.name) :
         \E s \in TablePool(table, row.name) : Id(n) = NodeIdOf(table, s)
  BY NodeHasSymbol
<1> QED BY <1>1, <1>2, <1>3, <1>4

\* What a stored row keeps of its reference.
Recorded(ref, row) ==
    /\ row.name = ref.name /\ row.receiver = ref.receiver
    /\ row.member = ref.member /\ row.self = ref.self

\* The inputs differ in the keys of the pool only, and in the class around the
\* reference, which only a candidate of its own file would ask for.
Meeting(table, left, right) ==
    /\ right.path = left.path /\ right.names = left.names /\ right.modules = left.modules
    /\ right.pool = {Twin(table, s) : s \in left.pool}

\* The receiver leaves the same files of both pools.
LEMMA NarrowedMeet ==
    ASSUME NEW table, NEW left, NEW right, Meeting(table, left, right),
           NEW ref, NEW row, Recorded(ref, row)
    PROVE  Narrowed(right, row) = {Twin(table, s) : s \in Narrowed(left, ref)}
<1>1. Decides(row) <=> Decides(ref)
  BY ZenonT(30) DEF Decides, Recorded
<1>2. ReceiverModules(right, row) = ReceiverModules(left, ref)
  <2>1. /\ left.names = right.names /\ left.modules = right.modules
        /\ ref.receiver = row.receiver
    BY DEF Meeting, Recorded
  <2> QED BY <2>1, SameModules
<1> DEFINE named == ReceiverModules(left, ref)
<1>3. \A s : Twin(table, s).path = s.path
  BY DEF Twin
<1>4. right.pool = {Twin(table, s) : s \in left.pool}
  BY DEF Meeting
<1>5. CASE Decides(ref)
  <2>1. /\ Narrowed(right, row) = {t \in right.pool : ModuleName(t.path) \in named}
        /\ Narrowed(left, ref) = {s \in left.pool : ModuleName(s.path) \in named}
    BY <1>1, <1>2, <1>5 DEF Narrowed
  <2> HIDE DEF named
  <2> QED BY <1>3, <1>4, <2>1
<1>6. CASE ~Decides(ref)
  <2>1. Narrowed(right, row) = right.pool /\ Narrowed(left, ref) = left.pool
    BY <1>1, <1>6 DEF Narrowed
  <2> QED BY <1>4, <2>1
<1> QED BY <1>5, <1>6

\* Where no two symbols share a node there are as many nodes as symbols.
LEMMA AsMany ==
    ASSUME NEW table, NEW symbols, IsFiniteSet(symbols),
           \A s, t \in symbols : NodeIdOf(table, s) = NodeIdOf(table, t) => s = t
    PROVE  Cardinality({Twin(table, s) : s \in symbols}) = Cardinality(symbols)
<1> DEFINE twins == {Twin(table, s) : s \in symbols}
           twin == [s \in symbols |-> Twin(table, s)]
<1>1. \A s, t \in symbols : Twin(table, s) = Twin(table, t) => s = t
  <2>1. \A s : Twin(table, s).key = NodeIdOf(table, s)
    BY DEF Twin
  <2> QED BY <2>1
<1>2. twin \in Bijection(symbols, twins)
  BY <1>1 DEF Bijection, Injection, Surjection, IsInjective
<1>3. ExistsBijection(symbols, twins)
  BY <1>2 DEF ExistsBijection
<1> HIDE DEF twins, twin
<1> QED BY <1>3, FS_Bijection DEF twins

\* Every candidate of a tier is scored, and keeps its confidence under its new key.
LEMMA TiersScore ==
    ASSUME NEW table, NEW left, NEW ref, NEW s, s.path # left.path,
           NEW c \in Tiers(left, ref, s)
    PROVE  Rekeyed(table, c).conf = c.conf
<1> DEFINE module == ModuleName(s.path)
           bound == ref.name \in DOMAIN left.names /\ left.names[ref.name] = module
           From(conf, evidence) == Scored(s, conf, evidence)
<1>1. \E conf, evidence : c = From(conf, evidence)
  <2>1. Tiers(left, ref, s) =
           IF bound THEN {From(ImportedSymbol, "import")}
           ELSE IF module \in left.modules THEN {From(ImportedModule, "import")}
           ELSE IF s.path.dir = left.path.dir THEN {From(SamePackage, "package")}
           ELSE {}
    BY DEF Tiers
  <2> HIDE DEF bound, module, From
  <2>2. \/ c = From(ImportedSymbol, "import") \/ c = From(ImportedModule, "import")
        \/ c = From(SamePackage, "package")
    BY <2>1
  <2> QED BY <2>2
<1>2. PICK conf, evidence : c = Scored(s, conf, evidence)
  BY <1>1
<1> QED BY <1>2 DEF Rekeyed, Scored

\* An answer with other candidates.
LEMMA OtherCands ==
    ASSUME NEW r, NEW before, r = [external |-> FALSE, cands |-> before], NEW after
    PROVE  [r EXCEPT !.cands = after] = [external |-> FALSE, cands |-> after]
<1>1. ASSUME NEW e, NEW q, q = [external |-> e, cands |-> before]
      PROVE  [q EXCEPT !.cands = after] = [external |-> e, cands |-> after]
  BY ONLY <1>1
<1> QED BY <1>1

\* The rule gives the same candidates, each under the key of its node.
LEMMA ResolvedMeet ==
    ASSUME NEW table, NEW left, NEW right, Meeting(table, left, right),
           NEW ref, NEW row, Recorded(ref, row),
           IsFiniteSet(Narrowed(left, ref)),
           \A s \in Narrowed(left, ref) : s.path # left.path,
           \A s, t \in Narrowed(left, ref) : NodeIdOf(table, s) = NodeIdOf(table, t) => s = t
    PROVE  Resolved(right, row) =
              [Resolved(left, ref) EXCEPT !.cands = {Rekeyed(table, c) : c \in @}]
<1> DEFINE pool == Narrowed(left, ref)
           twins == Narrowed(right, row)
           scoped == UNION {Tiers(left, ref, s) : s \in pool}
           found == UNION {Tiers(right, row, t) : t \in twins}
           share == GlobalUnique \div Cardinality(pool)
           cands == IF scoped # {} THEN Rank(scoped)
                    ELSE IF share < Floor THEN {}
                    ELSE {Scored(s, share, "global") : s \in pool}
           same == IF found # {} THEN Rank(found)
                   ELSE IF share < Floor THEN {}
                   ELSE {Scored(t, share, "global") : t \in twins}
           Again(c) == Rekeyed(table, c)
<1>1. twins = {Twin(table, s) : s \in pool}
  BY NarrowedMeet
<1>2. Cardinality(twins) = Cardinality(pool)
  BY <1>1, AsMany
<1>3. Resolved(left, ref) = IF pool = {} THEN [cands |-> {}, external |-> TRUE]
                            ELSE [external |-> FALSE, cands |-> cands]
  BY DEF Resolved
<1>4. Resolved(right, row) = IF twins = {} THEN [cands |-> {}, external |-> TRUE]
                             ELSE [external |-> FALSE, cands |-> same]
  BY <1>2 DEF Resolved
<1>5. ASSUME NEW s \in pool, NEW x
      PROVE  x \in Tiers(right, row, Twin(table, s)) <=>
                \E c \in Tiers(left, ref, s) : x = Again(c)
  <2>1. Elsewhere(left, right, ref, row, s)
    BY DEF Meeting, Recorded, Elsewhere
  <2> QED BY <2>1, TiersAgree
<1>6. found = {Again(c) : c \in scoped}
  <2> HIDE DEF pool, twins, Again
  <2>1. \A c : c \in scoped <=> \E s \in pool : c \in Tiers(left, ref, s)
    OBVIOUS
  <2>2. \A x : x \in found <=> \E s \in pool : x \in Tiers(right, row, Twin(table, s))
    BY <1>1
  <2>3. \A x : x \in found <=> \E s \in pool : \E c \in Tiers(left, ref, s) : x = Again(c)
    BY <2>2, <1>5
  <2>4. \A x : x \in {Again(c) : c \in scoped} <=>
                  \E s \in pool : \E c \in Tiers(left, ref, s) : x = Again(c)
    <3> HIDE DEF scoped
    <3> QED BY <2>1
  <2> QED BY <2>3, <2>4
<1>7. Rank({Again(c) : c \in scoped}) = {Again(c) : c \in Rank(scoped)}
  <2>1. \A c \in scoped : Rekeyed(table, c).conf = c.conf
    BY TiersScore
  <2> HIDE DEF scoped
  <2> QED BY <2>1, RankAgrees
<1>8. {Scored(t, share, "global") : t \in twins} =
         {Again(c) : c \in {Scored(s, share, "global") : s \in pool}}
  <2>1. ASSUME NEW s \in pool
        PROVE  Again(Scored(s, share, "global")) = Scored(Twin(table, s), share, "global")
    <3> DEFINE t == Twin(table, s)
    <3>1. t.path = s.path /\ t.key = NodeIdOf(table, s)
      BY DEF Twin
    <3> HIDE DEF t
    <3> QED BY <3>1, ScoredAgree DEF t
  <2> HIDE DEF pool, twins, share, Again
  <2> QED BY <1>1, <2>1
<1>9. same = {Again(c) : c \in cands}
  <2> HIDE DEF pool, twins, scoped, found, share, Again
  <2> QED BY <1>6, <1>7, <1>8
<1> HIDE DEF pool, twins, cands, same
<1>10. CASE pool = {}
  <2>1. twins = {}
    BY <1>1, <1>10
  <2> QED BY <1>3, <1>4, <1>10, <2>1
<1>11. CASE pool # {}
  <2>1. twins # {}
    BY <1>1, <1>11
  <2>2. Resolved(left, ref) = [external |-> FALSE, cands |-> cands]
    BY <1>3, <1>11
  <2>3. Resolved(right, row) = [external |-> FALSE, cands |-> {Again(c) : c \in cands}]
    BY <1>4, <1>9, <2>1
  <2>4. ASSUME NEW r, r = [external |-> FALSE, cands |-> cands]
        PROVE  [r EXCEPT !.cands = {Again(c) : c \in @}] =
                  [external |-> FALSE, cands |-> {Again(c) : c \in cands}]
    <3> DEFINE again == {Again(c) : c \in cands}
    <3> HIDE DEF Again
    <3>1. r.cands = cands
      BY <2>4
    <3>2. [r EXCEPT !.cands = {Again(c) : c \in @}] = [r EXCEPT !.cands = again]
      BY <3>1
    <3> HIDE DEF again
    <3>3. [r EXCEPT !.cands = again] = [external |-> FALSE, cands |-> again]
      BY <2>4, OtherCands
    <3> QED BY <3>2, <3>3 DEF again
  <2> QED BY <2>2, <2>3, <2>4
<1> QED BY <1>10, <1>11

----------------------------------------------------------------------------
(* A stored reference, and the answer to it.                                *)

\* A stored row keeps what its reference asks for.
LEMMA RowRecords ==
    ASSUME Whole(store), NEW p \in Parsed(store.files),
           NEW ref \in FactIn(store.files, p).refs,
           NEW row \in store.refs, row.path = p, row.kind = ref.kind, row.name = ref.name,
           row.site = ref.site
    PROVE  Recorded(ref, row)
<1> DEFINE facts == FactIn(store.files, p)
<1>1. row \in RefRows(store.files)
  BY DEF Whole, AsWritten
<1>2. PICK q \in facts.refs :
         /\ row.kind = q.kind /\ row.name = q.name /\ row.site = q.site
         /\ row.member = q.member /\ row.receiver = q.receiver /\ row.self = q.self
  BY <1>1, RowsUndecided
<1>3. /\ store.files[p] \in Version /\ p \in Path
      /\ facts = Extract(Text[p][store.files[p]])
      /\ ~Extract(Text[p][store.files[p]]).error
  <2>1. p \in Path /\ store.files[p] \in Version /\ ~facts.error
    BY WholePaths, ParsedText DEF Parsed
  <2> QED BY <2>1 DEF FactIn, FactsOf
<1> HIDE DEF facts
<1>4. q.kind = ref.kind /\ q.name = ref.name /\ q.site = ref.site
  BY <1>2
<1>5. ref \in facts.refs
  BY DEF facts
<1>6. q = ref
  BY <1>3, <1>4, <1>5, OneRefInFacts
<1> QED BY <1>2, <1>6 DEF Recorded

\* The inputs of a reference, from the tables and from the store.
LEMMA InputsMeet ==
    ASSUME Whole(store), NEW table, table = Table(store), NEW p \in DOMAIN table,
           NEW ref, NEW row, row.path = p, row.name = ref.name, AllAreNodes(table, ref.name)
    PROVE  Meeting(table, TableInputs(table, p, ref), StoreInputs(store, row))
<1> DEFINE left == TableInputs(table, p, ref)
           right == StoreInputs(store, row)
<1>1. store.imports[p] = table[p].imports
  <2>1. /\ p \in Parsed(store.files) /\ p \in Path
        /\ table[p] = FactIn(store.files, p)
    BY TableFacts, WholePaths
  <2>2. store.imports = Imported(store.files)
    BY DEF Whole, AsWritten
  <2> QED BY <2>1, <2>2 DEF Imported
<1>2. /\ left.path = p /\ left.pool = TablePool(table, ref.name)
      /\ left.names = ImportedNames(p, table[p].imports)
      /\ left.modules = ImportedModules(p, table[p].imports)
  BY DEF TableInputs, FileInputs
<1>3. /\ right.path = p
      /\ right.names = ImportedNames(p, store.imports[p])
      /\ right.modules = ImportedModules(p, store.imports[p])
  BY DEF StoreInputs
<1>4. right.pool = {Twin(table, s) : s \in TablePool(table, row.name)}
  BY PoolsMeet
<1> HIDE DEF left, right
<1>5. Meeting(table, left, right)
  BY <1>1, <1>2, <1>3, <1>4 DEF Meeting
<1> QED BY <1>5 DEF left, right

\* Whatever the passes stored, and whatever the overlay renamed, a reference
\* resolved on read from the tables of the store (resolvedb, dbread) has the
\* candidates, the confidence and the verdict the rule gives it over the facts of
\* every file (resolve, symtab): in the names all of whose definitions are nodes.
THEOREM ReadsAgree == Spec => []AgreesOnRead
<1>1. ASSUME GraphInv
      PROVE  AgreesOnRead
  <2>1. Whole(store)
    BY <1>1 DEF GraphInv
  <2>2. ASSUME NEW table, table = Table(store), NEW p \in DOMAIN table,
               NEW ref \in table[p].refs, ~Decided(p, table[p], ref), AllAreNodes(table, ref.name),
               NEW row \in store.refs, row.path = p, row.kind = ref.kind, row.name = ref.name,
               row.site = ref.site
        PROVE  ResolveRef(store, row) = [ResolveReference(table, p, ref) EXCEPT
                                            !.cands = {Rekeyed(table, c) : c \in @}]
    <3> DEFINE left == TableInputs(table, p, ref)
               right == StoreInputs(store, row)
    <3>1. p \in Parsed(store.files) /\ table[p] = FactIn(store.files, p)
      BY <2>1, <2>2, TableFacts
    <3>2. Recorded(ref, row)
      BY <2>1, <2>2, <3>1, RowRecords
    <3>3. Meeting(table, left, right)
      BY <2>1, <2>2, InputsMeet
    <3>4. \A s \in Narrowed(left, ref) : s.path # left.path
      <4>1. left.path = p
        BY DEF TableInputs, FileInputs
      <4> QED BY <2>2, <4>1, NoneOfItsOwn
    <3>5. Narrowed(left, ref) \in SUBSET TablePool(table, ref.name)
      BY DEF Narrowed, TableInputs, FileInputs
    <3>6. IsFiniteSet(Narrowed(left, ref))
      <4>1. IsFiniteSet(TablePool(table, ref.name))
        BY <2>1, <2>2, FinitelyMany
      <4> QED BY <3>5, <4>1, FS_Subset
    <3>7. \A s, t \in Narrowed(left, ref) : NodeIdOf(table, s) = NodeIdOf(table, t) => s = t
      BY <2>1, <2>2, <3>5, OneSymbol
    <3> HIDE DEF left, right
    <3>8. Resolved(right, row) = [Resolved(left, ref) EXCEPT !.cands = {Rekeyed(table, c) : c \in @}]
      BY <3>2, <3>3, <3>4, <3>6, <3>7, ResolvedMeet
    <3> QED BY <3>8 DEF left, right, ResolveRef, ResolveReference
  <2> QED BY <2>2 DEF AgreesOnRead, Rekeyed
<1>2. GraphInv => AgreesOnRead
  BY <1>1
<1> QED BY <1>2, GraphInit, GraphStep, PTL DEF Spec

----------------------------------------------------------------------------
(* A loop over the projects, and the same loop by windows.                   *)

\* What the loop over the projects has found, and which it found gone.
FoundBy(hits) ==
    LET found[n \in 0 .. Len(hits)] ==
          IF n = 0 THEN <<>>
          ELSE found[n - 1] \o IF hits[n] = Gone THEN <<>> ELSE hits[n]
    IN  found
GoneBy(hits) ==
    LET gone[n \in 0 .. Len(hits)] ==
          IF n = 0 THEN <<>>
          ELSE gone[n - 1] \o IF hits[n] = Gone THEN <<n>> ELSE <<>>
    IN  gone

\* The answers of some projects: EngineAssumption.
Answered(hits) ==
    /\ Len(hits) \in Nat
    /\ \A i \in 1 .. Len(hits) : hits[i] # Gone => hits[i] \in Seq(ToSet(hits[i]))

\* A concatenation of parts, and the equation of one that is written with LET.
Parts(m, X) == [1 .. m -> Seq(X)]
Joining(m, parts, g) == g = [n \in 0 .. m |-> IF n = 0 THEN <<>> ELSE g[n - 1] \o parts[n]]

LEMMA Joins ==
    ASSUME NEW m \in Nat, NEW X, NEW parts \in Parts(m, X)
    PROVE  \E g \in [0 .. m -> Seq(X)] : Joining(m, parts, g)
<1> DEFINE S == Seq(X)
           base == <<>>
           F == [n \in 1 .. m |-> [q \in S |-> q \o parts[n]]]
<1>1. base \in S
  OBVIOUS
<1>2. F \in StepsUpTo(m, S)
  <2>1. \A n \in 1 .. m : \A q \in S : q \o parts[n] \in S
    BY DEF Parts
  <2> HIDE DEF S
  <2> QED BY <2>1 DEF StepsUpTo
<1>3. PICK g \in [0 .. m -> S] : SolvesUpTo(m, g, base, F)
  <2> HIDE DEF S, base, F
  <2> QED BY <1>1, <1>2, RecursionUpTo
<1>4. ASSUME NEW n \in 1 .. m
      PROVE  g[n] = g[n - 1] \o parts[n]
  <2>1. n - 1 \in 0 .. m
    OBVIOUS
  <2>2. g[n - 1] \in S /\ g[n] = F[n][g[n - 1]]
    <3> HIDE DEF S, F, base
    <3> QED BY <1>3, <2>1 DEF SolvesUpTo
  <2>3. F[n] = [q \in S |-> q \o parts[n]]
    OBVIOUS
  <2> HIDE DEF F, S
  <2> QED BY <2>2, <2>3
<1> HIDE DEF F
<1>5. Joining(m, parts, g)
  <2>1. \A n \in 0 .. m : n # 0 => n \in 1 .. m
    OBVIOUS
  <2>2. \A n \in 0 .. m : g[n] = IF n = 0 THEN <<>> ELSE g[n - 1] \o parts[n]
    BY <1>3, <1>4, <2>1 DEF SolvesUpTo
  <2> HIDE DEF S
  <2> QED BY <1>3, <2>2 DEF Joining
<1> QED BY <1>3, <1>5

\* What such an equation determines.
LEMMA JoiningTells ==
    ASSUME NEW m \in Nat, NEW X, NEW parts, NEW h, parts \in Parts(m, X), Joining(m, parts, h)
    PROVE  /\ h[0] = <<>>
           /\ \A n \in 1 .. m : h[n] = h[n - 1] \o parts[n]
           /\ \A n \in 0 .. m : h[n] \in Seq(X)
<1>1. 0 \in 0 .. m /\ \A n \in 1 .. m : n \in 0 .. m /\ n # 0
  OBVIOUS
<1>2. h[0] = <<>> /\ \A n \in 1 .. m : h[n] = h[n - 1] \o parts[n]
  BY <1>1 DEF Joining
<1> DEFINE T == {n \in 0 .. m : h[n] \in Seq(X)}
<1>3. 0 \in T
  <2>1. <<>> \in Seq(X)
    OBVIOUS
  <2> QED BY <1>1, <1>2, <2>1
<1>4. ASSUME NEW n \in 0 .. (m - 1), n \in T
      PROVE  n + 1 \in T
  <2>1. n + 1 \in 1 .. m /\ n + 1 \in 0 .. m /\ (n + 1) - 1 = n
    OBVIOUS
  <2>2. parts[n + 1] \in Seq(X)
    BY <2>1 DEF Parts
  <2>3. h[n + 1] = h[n] \o parts[n + 1]
    BY <1>2, <2>1
  <2>4. h[n] \o parts[n + 1] \in Seq(X)
    BY <1>4, <2>2
  <2> QED BY <2>1, <2>3, <2>4
<1>5. m \in Nat
  OBVIOUS
<1>6. 0 .. m \subseteq T
  <2> HIDE DEF T
  <2> QED BY ONLY <1>3, <1>4, <1>5, InductiveUpTo
<1> QED BY <1>2, <1>6

\* What the project n adds to either.
FoundIn(hits, n) == IF hits[n] = Gone THEN <<>> ELSE hits[n]
GoneIn(hits, n) == IF hits[n] = Gone THEN <<n>> ELSE <<>>

LEMMA FoundUnfolds ==
    ASSUME NEW hits, Answered(hits)
    PROVE  /\ FoundBy(hits)[0] = <<>>
           /\ \A n \in 1 .. Len(hits) : FoundBy(hits)[n] = FoundBy(hits)[n - 1] \o FoundIn(hits, n)
           /\ \E X : \A n \in 0 .. Len(hits) : FoundBy(hits)[n] \in Seq(X)
<1> DEFINE m == Len(hits)
           X == UNION {ToSet(hits[i]) : i \in {j \in 1 .. m : hits[j] # Gone}}
           parts == [n \in 1 .. m |-> FoundIn(hits, n)]
           h == CHOOSE u : u = [n \in 0 .. m |->
                    IF n = 0 THEN <<>> ELSE u[n - 1] \o IF hits[n] = Gone THEN <<>> ELSE hits[n]]
<1>1. m \in Nat
  BY DEF Answered
<1>2. parts \in Parts(m, X)
  <2>1. ASSUME NEW n \in 1 .. m
        PROVE  FoundIn(hits, n) \in Seq(X)
    <3>1. CASE hits[n] = Gone
      BY <3>1 DEF FoundIn
    <3>2. CASE hits[n] # Gone
      <4>1. ToSet(hits[n]) \subseteq X
        BY <3>2
      <4>2. hits[n] \in Seq(ToSet(hits[n]))
        BY <3>2 DEF Answered
      <4> HIDE DEF X
      <4>3. hits[n] \in Seq(X)
        BY <4>1, <4>2
      <4> QED BY <3>2, <4>3 DEF FoundIn
    <3> QED BY <3>1, <3>2
  <2> HIDE DEF X
  <2> QED BY <2>1 DEF Parts
<1> HIDE DEF X
<1>3. PICK g \in [0 .. m -> Seq(X)] : Joining(m, parts, g)
  <2> HIDE DEF parts, m
  <2> QED BY <1>1, <1>2, Joins
<1>4. \A n \in 0 .. m : n # 0 => n \in 1 .. m
  BY <1>1
<1>5. \A n \in 1 .. m : parts[n] = IF hits[n] = Gone THEN <<>> ELSE hits[n]
  BY DEF FoundIn
<1> HIDE DEF parts, m
<1>6. g = [n \in 0 .. m |->
              IF n = 0 THEN <<>> ELSE g[n - 1] \o IF hits[n] = Gone THEN <<>> ELSE hits[n]]
  BY <1>3, <1>4, <1>5 DEF Joining
<1>7. h = [n \in 0 .. m |->
              IF n = 0 THEN <<>> ELSE h[n - 1] \o IF hits[n] = Gone THEN <<>> ELSE hits[n]]
  <2>1. \E u : u = [n \in 0 .. m |->
              IF n = 0 THEN <<>> ELSE u[n - 1] \o IF hits[n] = Gone THEN <<>> ELSE hits[n]]
    BY <1>6
  <2> QED BY <2>1
<1>8. FoundBy(hits) = h
  BY DEF FoundBy, h, m
<1> HIDE DEF h
<1>9. Joining(m, parts, h)
  BY <1>4, <1>5, <1>7 DEF Joining
<1>10. /\ h[0] = <<>>
       /\ \A n \in 1 .. m : h[n] = h[n - 1] \o parts[n]
       /\ \A n \in 0 .. m : h[n] \in Seq(X)
  BY ONLY <1>1, <1>2, <1>9, JoiningTells
<1> QED BY <1>5, <1>8, <1>10 DEF m, FoundIn

LEMMA GoneUnfolds ==
    ASSUME NEW hits, Answered(hits)
    PROVE  /\ GoneBy(hits)[0] = <<>>
           /\ \A n \in 1 .. Len(hits) : GoneBy(hits)[n] = GoneBy(hits)[n - 1] \o GoneIn(hits, n)
           /\ \A n \in 0 .. Len(hits) : GoneBy(hits)[n] \in Seq(1 .. Len(hits))
<1> DEFINE m == Len(hits)
           X == 1 .. m
           parts == [n \in 1 .. m |-> GoneIn(hits, n)]
           h == CHOOSE u : u = [n \in 0 .. m |->
                    IF n = 0 THEN <<>> ELSE u[n - 1] \o IF hits[n] = Gone THEN <<n>> ELSE <<>>]
<1>1. m \in Nat
  BY DEF Answered
<1>2. parts \in Parts(m, X)
  <2>1. ASSUME NEW n \in 1 .. m
        PROVE  GoneIn(hits, n) \in Seq(X)
    <3>1. <<>> \in Seq(X) /\ <<n>> \in Seq(X)
      OBVIOUS
    <3> QED BY <3>1 DEF GoneIn
  <2> HIDE DEF X
  <2> QED BY <2>1 DEF Parts
<1> HIDE DEF X
<1>3. PICK g \in [0 .. m -> Seq(X)] : Joining(m, parts, g)
  <2> HIDE DEF parts, m
  <2> QED BY <1>1, <1>2, Joins
<1>4. \A n \in 0 .. m : n # 0 => n \in 1 .. m
  BY <1>1
<1>5. \A n \in 1 .. m : parts[n] = IF hits[n] = Gone THEN <<n>> ELSE <<>>
  BY DEF GoneIn
<1> HIDE DEF parts, m
<1>6. g = [n \in 0 .. m |->
              IF n = 0 THEN <<>> ELSE g[n - 1] \o IF hits[n] = Gone THEN <<n>> ELSE <<>>]
  BY <1>3, <1>4, <1>5 DEF Joining
<1>7. h = [n \in 0 .. m |->
              IF n = 0 THEN <<>> ELSE h[n - 1] \o IF hits[n] = Gone THEN <<n>> ELSE <<>>]
  <2>1. \E u : u = [n \in 0 .. m |->
              IF n = 0 THEN <<>> ELSE u[n - 1] \o IF hits[n] = Gone THEN <<n>> ELSE <<>>]
    BY <1>6
  <2> QED BY <2>1
<1>8. GoneBy(hits) = h
  BY DEF GoneBy, h, m
<1> HIDE DEF h
<1>9. Joining(m, parts, h)
  BY <1>4, <1>5, <1>7 DEF Joining
<1>10. /\ h[0] = <<>>
       /\ \A n \in 1 .. m : h[n] = h[n - 1] \o parts[n]
       /\ \A n \in 0 .. m : h[n] \in Seq(X)
  BY ONLY <1>1, <1>2, <1>9, JoiningTells
<1> QED BY <1>5, <1>8, <1>10 DEF m, X, GoneIn

\* The plain loop stops after the project m.
StopsAt(hits, limit, m) ==
    /\ m \in 0 .. Len(hits)
    /\ Len(FoundBy(hits)[m]) >= limit \/ m = Len(hits)
    /\ \A n \in 0 .. Len(hits) : n < m => Len(FoundBy(hits)[n]) < limit

\* What it holds of the first i projects, o stores having been opened.
HeldAfter(hits, m, i, o) ==
    LET k == IF i < m THEN i ELSE m
    IN  [results |-> FoundBy(hits)[k], unindexed |-> GoneBy(hits)[k], opened |-> o]

\* The loop takes the answer of the next project, or has stopped.
LEMMA TakesNext ==
    ASSUME NEW hits, Answered(hits), NEW limit \in Nat, NEW m, StopsAt(hits, limit, m),
           NEW i \in 1 .. Len(hits), NEW o
    PROVE  Take(HeldAfter(hits, m, i - 1, o), hits, i, limit) = HeldAfter(hits, m, i, o)
<1> DEFINE N == Len(hits)
           f == FoundBy(hits)
           u == GoneBy(hits)
<1>1. N \in Nat /\ m \in 0 .. N /\ i - 1 \in 0 .. N /\ i \in 0 .. N
  BY DEF Answered, StopsAt
<1>2. f[i] = f[i - 1] \o FoundIn(hits, i) /\ u[i] = u[i - 1] \o GoneIn(hits, i)
  BY FoundUnfolds, GoneUnfolds
<1>3. PICK X : \A n \in 0 .. N : f[n] \in Seq(X)
  BY FoundUnfolds
<1>4. \A n \in 0 .. N : u[n] \in Seq(1 .. N)
  BY GoneUnfolds
<1>5. /\ Len(f[m]) >= limit \/ m = N
      /\ \A n \in 0 .. N : n < m => Len(f[n]) < limit
  BY DEF StopsAt
<1>6. CASE i - 1 < m
  <2> DEFINE a == f[i - 1]
             b == u[i - 1]
             held == [results |-> a, unindexed |-> b, opened |-> o]
  <2>1. a \in Seq(X) /\ b \in Seq(1 .. N)
    BY <1>1, <1>3, <1>4
  <2>2. HeldAfter(hits, m, i - 1, o) = held
    BY <1>6 DEF HeldAfter
  <2>3. HeldAfter(hits, m, i, o) = [results |-> f[i], unindexed |-> u[i], opened |-> o]
    <3>1. i < m \/ i = m
      BY <1>1, <1>6
    <3> QED BY <3>1 DEF HeldAfter
  <2>4. ~(Len(a) >= limit)
    <3>1. Len(a) < limit /\ Len(a) \in Nat
      BY <1>1, <1>5, <1>6, <2>1
    <3> QED BY <3>1
  <2>5. held.results = a /\ held.unindexed = b
    OBVIOUS
  <2> HIDE DEF a, b, f, u
  <2>6. CASE hits[i] = Gone
    <3>1. Take(held, hits, i, limit) = [results |-> a, unindexed |-> Append(b, i), opened |-> o]
      BY <2>4, <2>5, <2>6 DEF Take
    <3>2. f[i] = a \o <<>> /\ u[i] = b \o <<i>>
      BY <1>2, <2>6 DEF FoundIn, GoneIn, a, b
    <3>3. a \o <<>> = a
      BY <2>1
    <3>4. b \o <<i>> = Append(b, i)
      BY <2>1
    <3> HIDE DEF held
    <3> QED BY <2>2, <2>3, <3>1, <3>2, <3>3, <3>4
  <2>7. CASE hits[i] # Gone
    <3>1. Take(held, hits, i, limit) = [results |-> a \o hits[i], unindexed |-> b, opened |-> o]
      BY <2>4, <2>5, <2>7 DEF Take
    <3>2. f[i] = a \o hits[i] /\ u[i] = b \o <<>>
      BY <1>2, <2>7 DEF FoundIn, GoneIn, a, b
    <3>3. b \o <<>> = b
      BY <2>1
    <3> HIDE DEF held
    <3> QED BY <2>2, <2>3, <3>1, <3>2, <3>3
  <2> QED BY <2>6, <2>7
<1>7. CASE ~(i - 1 < m)
  <2> DEFINE held == [results |-> f[m], unindexed |-> u[m], opened |-> o]
  <2>1. HeldAfter(hits, m, i - 1, o) = held
    BY <1>7 DEF HeldAfter
  <2>2. ~(i < m) /\ m # N
    BY <1>1, <1>7
  <2>3. HeldAfter(hits, m, i, o) = held
    BY <2>2 DEF HeldAfter
  <2>4. Len(held.results) >= limit
    BY <1>5, <2>2
  <2> HIDE DEF held
  <2>5. Take(held, hits, i, limit) = held
    BY <2>4 DEF Take
  <2> QED BY <2>1, <2>3, <2>5
<1> QED BY <1>6, <1>7

\* A window takes the answers of its projects, and then the loop stands behind it.
LEMMA WindowTakes ==
    ASSUME NEW hits, Answered(hits), NEW limit \in Nat, NEW m, StopsAt(hits, limit, m),
           NEW first \in 1 .. Len(hits), NEW size \in Nat, first + size - 1 \in 0 .. Len(hits), NEW o
    PROVE  Window(HeldAfter(hits, m, first - 1, o), hits, first, size, limit)
               = HeldAfter(hits, m, first + size - 1, o)
<1> DEFINE got == HeldAfter(hits, m, first - 1, o)
           at(k) == HeldAfter(hits, m, first + k - 1, o)
           g == [k \in 0 .. size |-> at(k)]
           h == CHOOSE t : t = [k \in 0 .. size |->
                    IF k = 0 THEN got ELSE Take(t[k - 1], hits, first + k - 1, limit)]
<1>1. at(0) = got
  <2>1. first + 0 - 1 = first - 1
    OBVIOUS
  <2> QED BY <2>1
<1>2. ASSUME NEW k \in 1 .. size
      PROVE  at(k) = Take(at(k - 1), hits, first + k - 1, limit)
  <2>1. first + k - 1 \in 1 .. Len(hits)
    BY DEF Answered
  <2>2. first + (k - 1) - 1 = (first + k - 1) - 1
    OBVIOUS
  <2> QED BY <2>1, <2>2, TakesNext
<1>3. 0 \in 0 .. size /\ \A k \in 0 .. size : k # 0 => k \in 1 .. size /\ k - 1 \in 0 .. size
  OBVIOUS
<1> HIDE DEF at, got
<1>4. g = [k \in 0 .. size |->
              IF k = 0 THEN got ELSE Take(g[k - 1], hits, first + k - 1, limit)]
  <2>1. ASSUME NEW k \in 0 .. size
        PROVE  g[k] = IF k = 0 THEN got ELSE Take(g[k - 1], hits, first + k - 1, limit)
    <3>1. CASE k = 0
      BY <1>1, <3>1
    <3>2. CASE k # 0
      <4>1. g[k] = at(k) /\ g[k - 1] = at(k - 1)
        BY <1>3, <3>2
      <4> HIDE DEF g
      <4> QED BY <1>2, <1>3, <3>2, <4>1
    <3> QED BY <3>1, <3>2
  <2>2. g = [k \in 0 .. size |-> g[k]]
    OBVIOUS
  <2> HIDE DEF g
  <2> QED BY <2>1, <2>2
<1>5. h = [k \in 0 .. size |->
              IF k = 0 THEN got ELSE Take(h[k - 1], hits, first + k - 1, limit)]
  <2>1. \E t : t = [k \in 0 .. size |->
              IF k = 0 THEN got ELSE Take(t[k - 1], hits, first + k - 1, limit)]
    BY <1>4
  <2> QED BY <2>1
<1>6. Window(got, hits, first, size, limit) = h[size]
  BY DEF Window, h
<1> HIDE DEF h, g
<1> DEFINE T == {k \in 0 .. size : h[k] = at(k)}
<1>7. 0 \in T
  BY <1>1, <1>3, <1>5
<1>8. ASSUME NEW k \in 0 .. (size - 1), k \in T
      PROVE  k + 1 \in T
  <2>1. k + 1 \in 1 .. size /\ k + 1 \in 0 .. size /\ k + 1 # 0 /\ (k + 1) - 1 = k
    OBVIOUS
  <2>2. h[k + 1] = Take(h[k], hits, first + (k + 1) - 1, limit)
    BY <1>5, <2>1
  <2>3. at(k + 1) = Take(at(k), hits, first + (k + 1) - 1, limit)
    BY <1>2, <2>1
  <2> QED BY <1>8, <2>1, <2>2, <2>3
<1>9. 0 .. size \subseteq T
  <2>1. size \in Nat
    OBVIOUS
  <2> HIDE DEF T
  <2> QED BY ONLY <1>7, <1>8, <2>1, InductiveUpTo
<1>10. h[size] = at(size)
  <2>1. size \in 0 .. size
    OBVIOUS
  <2> QED BY <1>9, <2>1
<1> QED BY <1>6, <1>10 DEF got, at

\* find_symbol, window by window.
NextWindow(hits, limit, size, before) ==
    LET start == before.opened + 1
        width == IF start + size - 1 > Len(hits) THEN Len(hits) - start + 1 ELSE size
    IN  IF start > Len(hits) \/ Len(before.results) >= limit THEN before
        ELSE [Window(before, hits, start, width, limit) EXCEPT !.opened = start + width - 1]

Walked(hits, limit, size) ==
    LET walk[w \in 0 .. Len(hits)] ==
          IF w = 0 THEN [results |-> <<>>, unindexed |-> <<>>, opened |-> 0]
          ELSE NextWindow(hits, limit, size, walk[w - 1])
    IN  walk

\* From behind the project o a window leads behind the project p.
Follows(hits, limit, size, m, o, p) ==
    /\ NextWindow(hits, limit, size, HeldAfter(hits, m, o, o)) = HeldAfter(hits, m, p, p)
    /\ o < m => o < p /\ p <= o + size
    /\ o >= m => p = o

\* A window is opened only before the loop has stopped, and only to the last.
LEMMA WindowsFollow ==
    ASSUME NEW hits, Answered(hits), NEW limit \in Nat, NEW m, StopsAt(hits, limit, m),
           NEW size \in Nat \ {0}, NEW o \in 0 .. Len(hits)
    PROVE  \E p \in 0 .. Len(hits) : Follows(hits, limit, size, m, o, p)
<1> DEFINE N == Len(hits)
           before == HeldAfter(hits, m, o, o)
           k == IF o < m THEN o ELSE m
           width == IF (o + 1) + size - 1 > N THEN N - (o + 1) + 1 ELSE size
           p == (o + 1) + width - 1
<1>1. N \in Nat /\ m \in 0 .. N
  BY DEF Answered, StopsAt
<1>2. before.opened = o /\ before.results = FoundBy(hits)[k]
  BY DEF HeldAfter
<1>3. /\ Len(FoundBy(hits)[m]) >= limit \/ m = N
      /\ \A n \in 0 .. N : n < m => Len(FoundBy(hits)[n]) < limit
  BY DEF StopsAt
<1>4. CASE o >= m
  <2>1. o + 1 > N \/ Len(before.results) >= limit
    BY <1>1, <1>2, <1>3, <1>4
  <2>2. NextWindow(hits, limit, size, before) = before
    <3> HIDE DEF before
    <3> QED BY <1>2, <2>1 DEF NextWindow
  <2>3. ~(o < m)
    BY <1>1, <1>4
  <2>4. Follows(hits, limit, size, m, o, o)
    BY <2>2, <2>3 DEF Follows
  <2> QED BY <2>4
<1>5. CASE o < m
  <2>1. o + 1 \in 1 .. N /\ (o + 1) - 1 = o /\ width \in Nat /\ p \in 0 .. N /\ o < p /\ p <= o + size
    <3>1. o \in Nat /\ o + 1 <= N /\ size \in Nat /\ size >= 1
      BY <1>1, <1>5
    <3>2. CASE (o + 1) + size - 1 > N
      <4>1. width = N - o /\ p = N
        BY <1>1, <3>1, <3>2
      <4> HIDE DEF width, p, before, N
      <4> QED BY <1>1, <3>1, <3>2, <4>1
    <3>3. CASE ~((o + 1) + size - 1 > N)
      <4>1. width = size /\ p = o + size
        BY <1>1, <3>1, <3>3
      <4> HIDE DEF width, p, before, N
      <4> QED BY <1>1, <3>1, <3>3, <4>1
    <3> QED BY <3>2, <3>3
  <2>2. ~(Len(before.results) >= limit)
    <3>1. PICK X : \A n \in 0 .. N : FoundBy(hits)[n] \in Seq(X)
      BY FoundUnfolds
    <3>2. Len(FoundBy(hits)[o]) < limit /\ Len(FoundBy(hits)[o]) \in Nat
      BY <1>1, <1>3, <1>5, <3>1
    <3>3. before.results = FoundBy(hits)[o]
      BY <1>2, <1>5
    <3> HIDE DEF before
    <3> QED BY <3>2, <3>3
  <2>3. ~(o + 1 > N)
    BY <2>1, <1>1
  <2> HIDE DEF width
  <2>4. Window(before, hits, o + 1, width, limit) = HeldAfter(hits, m, p, o)
    <3>1. before = HeldAfter(hits, m, (o + 1) - 1, o)
      BY <2>1
    <3>2. o + 1 \in 1 .. Len(hits) /\ width \in Nat /\ (o + 1) + width - 1 \in 0 .. Len(hits)
      BY <2>1
    <3>3. ASSUME NEW first, first = o + 1
          PROVE  Window(HeldAfter(hits, m, first - 1, o), hits, first, width, limit)
                     = HeldAfter(hits, m, first + width - 1, o)
      <4>1. first \in 1 .. Len(hits) /\ width \in Nat /\ first + width - 1 \in 0 .. Len(hits)
        BY <3>2, <3>3
      <4>2. Answered(hits) /\ limit \in Nat /\ StopsAt(hits, limit, m)
        OBVIOUS
      <4> QED BY ONLY <4>1, <4>2, WindowTakes
    <3>4. Window(HeldAfter(hits, m, (o + 1) - 1, o), hits, o + 1, width, limit)
              = HeldAfter(hits, m, (o + 1) + width - 1, o)
      <4> HIDE DEF before, k
      <4> QED BY <3>3
    <3> QED BY <3>1, <3>4
  <2>5. [HeldAfter(hits, m, p, o) EXCEPT !.opened = p] = HeldAfter(hits, m, p, p)
    BY DEF HeldAfter
  <2>6. NextWindow(hits, limit, size, before) = HeldAfter(hits, m, p, p)
    <3>1. NextWindow(hits, limit, size, before) =
              [Window(before, hits, o + 1, width, limit) EXCEPT !.opened = p]
      <4> HIDE DEF before
      <4> QED BY <1>2, <2>2, <2>3 DEF NextWindow, width
    <3> QED BY <2>4, <2>5, <3>1
  <2>7. ~(o >= m)
    BY <1>1, <1>5
  <2>8. Follows(hits, limit, size, m, o, p)
    <3> HIDE DEF p
    <3> QED BY <2>1, <2>6, <2>7 DEF Follows
  <2> HIDE DEF p, before
  <2> QED BY <2>1, <2>8
<1> QED BY <1>1, <1>4, <1>5

\* After as many windows as there are projects the loop has stopped.
LEMMA WalkStops ==
    ASSUME NEW hits, Answered(hits), NEW limit \in Nat, NEW m, StopsAt(hits, limit, m),
           NEW size \in Nat \ {0}
    PROVE  \E o \in m .. (m + size - 1) :
               Walked(hits, limit, size)[Len(hits)] = HeldAfter(hits, m, o, o)
<1> DEFINE N == Len(hits)
           held(o) == HeldAfter(hits, m, o, o)
           S == {held(o) : o \in 0 .. N}
           base == [results |-> <<>>, unindexed |-> <<>>, opened |-> 0]
           next(q) == NextWindow(hits, limit, size, q)
           F == [w \in 1 .. N |-> [q \in S |-> next(q)]]
           h == CHOOSE u : u = [w \in 0 .. N |-> IF w = 0 THEN base ELSE next(u[w - 1])]
<1>1. N \in Nat /\ m \in 0 .. N
  BY DEF Answered, StopsAt
<1>2. base = held(0)
  <2>1. FoundBy(hits)[0] = <<>> /\ GoneBy(hits)[0] = <<>>
    BY FoundUnfolds, GoneUnfolds
  <2>2. (IF 0 < m THEN 0 ELSE m) = 0
    BY <1>1
  <2> QED BY <2>1, <2>2 DEF HeldAfter
<1>3. ASSUME NEW o \in 0 .. N
      PROVE  \E p \in 0 .. N : Follows(hits, limit, size, m, o, p)
  <2>1. o \in 0 .. Len(hits) /\ size \in Nat \ {0} /\ limit \in Nat
    OBVIOUS
  <2>2. Answered(hits) /\ StopsAt(hits, limit, m)
    OBVIOUS
  <2> QED BY ONLY <2>1, <2>2, WindowsFollow DEF N
<1>3a. \A o, p : Follows(hits, limit, size, m, o, p) =>
           /\ next(held(o)) = held(p)
           /\ o < m => o < p /\ p <= o + size
           /\ o >= m => p = o
  BY DEF Follows
<1>4. Walked(hits, limit, size) = h
  BY DEF Walked, h
<1> HIDE DEF held, next, base, N
<1>5. base \in S
  BY <1>1, <1>2
<1>6. F \in StepsUpTo(N, S)
  <2>1. \A q \in S : next(q) \in S
    BY <1>3, <1>3a
  <2> HIDE DEF S
  <2> QED BY <2>1 DEF StepsUpTo
<1>7. PICK g \in [0 .. N -> S] : SolvesUpTo(N, g, base, F)
  <2> HIDE DEF S, F
  <2> QED BY <1>1, <1>5, <1>6, RecursionUpTo
<1>8. ASSUME NEW w \in 1 .. N
      PROVE  g[w] = next(g[w - 1])
  <2>1. w - 1 \in 0 .. N
    BY <1>1
  <2>2. g[w - 1] \in S /\ g[w] = F[w][g[w - 1]]
    <3> HIDE DEF S, F
    <3> QED BY <1>7, <2>1 DEF SolvesUpTo
  <2>3. F[w] = [q \in S |-> next(q)]
    OBVIOUS
  <2> HIDE DEF F, S
  <2> QED BY <2>2, <2>3
<1> HIDE DEF F, S
<1>9. 0 \in 0 .. N /\ \A w \in 0 .. N : w # 0 => w \in 1 .. N
  BY <1>1
<1>10. g = [w \in 0 .. N |-> IF w = 0 THEN base ELSE next(g[w - 1])]
  <2>1. \A w \in 0 .. N : g[w] = IF w = 0 THEN base ELSE next(g[w - 1])
    BY <1>7, <1>8, <1>9 DEF SolvesUpTo
  <2> QED BY <1>7, <2>1
<1>11. h = [w \in 0 .. N |-> IF w = 0 THEN base ELSE next(h[w - 1])]
  <2>1. \E u : u = [w \in 0 .. N |-> IF w = 0 THEN base ELSE next(u[w - 1])]
    BY <1>10
  <2> QED BY <2>1
<1> HIDE DEF h
<1> DEFINE Fits(w, o) == h[w] = held(o) /\ o <= m + size - 1 /\ (o >= w \/ o >= m)
           T == {w \in 0 .. N : \E o \in 0 .. N : Fits(w, o)}
<1>12. 0 \in T
  <2>1. h[0] = held(0)
    BY <1>2, <1>9, <1>11
  <2>2. Fits(0, 0)
    BY <1>1, <2>1
  <2> QED BY <1>9, <2>2
<1>13. ASSUME NEW w \in 0 .. (N - 1), w \in T
       PROVE  w + 1 \in T
  <2>1. w + 1 \in 0 .. N /\ w + 1 # 0 /\ (w + 1) - 1 = w
    BY <1>1
  <2>2. PICK o \in 0 .. N : Fits(w, o)
    BY <1>13
  <2>3. PICK p \in 0 .. N : Follows(hits, limit, size, m, o, p)
    BY <1>3
  <2>3a. next(held(o)) = held(p) /\ (o < m => o < p /\ p <= o + size) /\ (o >= m => p = o)
    BY <1>3a, <2>3
  <2>4. h[w + 1] = held(p)
    BY <1>11, <2>1, <2>2, <2>3a
  <2>5. p <= m + size - 1 /\ (p >= w + 1 \/ p >= m)
    BY <1>1, <2>2, <2>3a
  <2>6. Fits(w + 1, p)
    BY <2>4, <2>5
  <2> HIDE DEF Fits
  <2> QED BY <2>1, <2>6
<1>14. 0 .. N \subseteq T
  <2>1. N \in Nat
    BY <1>1
  <2> HIDE DEF T
  <2> QED BY ONLY <1>12, <1>13, <2>1, InductiveUpTo
<1>15. PICK o \in 0 .. N : Fits(N, o)
  <2>1. N \in 0 .. N
    BY <1>1
  <2> QED BY <1>14, <2>1
<1>16. o \in m .. (m + size - 1)
  BY <1>1, <1>15
<1> QED BY <1>4, <1>15, <1>16 DEF held, N

\* The plain loop stops after the least of the projects it may stop after.
PlainStop(hits, limit) ==
    LET enough == {n \in 0 .. Len(hits) : Len(FoundBy(hits)[n]) >= limit \/ n = Len(hits)}
    IN  CHOOSE n \in enough : \A m \in enough : n <= m

LEMMA LoopStops ==
    ASSUME NEW hits, Answered(hits), NEW limit \in Nat
    PROVE  StopsAt(hits, limit, PlainStop(hits, limit))
<1> DEFINE N == Len(hits)
           f == FoundBy(hits)
           enough == {n \in 0 .. N : Len(f[n]) >= limit \/ n = N}
           m == CHOOSE n \in enough : \A k \in enough : n <= k
<1>1. N \in Nat
  BY DEF Answered
<1>2. \A n \in 0 .. N : Len(f[n]) \in Nat
  <2>1. PICK X : \A n \in 0 .. N : f[n] \in Seq(X)
    BY FoundUnfolds
  <2> QED BY <2>1
<1>3. PlainStop(hits, limit) = m
  BY DEF PlainStop
<1> HIDE DEF f, N
<1>4. m \in enough /\ \A k \in enough : m <= k
  <2>1. N \in enough /\ enough \in SUBSET Nat
    BY <1>1
  <2>2. \E n \in enough : \A k \in enough : n <= k
    <3> HIDE DEF enough
    <3> QED BY <2>1, Least
  <2> HIDE DEF enough
  <2> QED BY <2>2
<1> HIDE DEF m
<1>5. ASSUME NEW n \in 0 .. N, n < m
      PROVE  Len(f[n]) < limit
  <2>1. n \notin enough
    BY <1>1, <1>4, <1>5
  <2> QED BY <1>1, <1>2, <2>1
<1> QED BY <1>3, <1>4, <1>5 DEF StopsAt, f, N

\* However many the projects, however wide the windows.
LEMMA WindowsAgree ==
    ASSUME NEW hits, Answered(hits), NEW limit \in Nat, NEW size \in Nat \ {0}
    PROVE  LET wide == FindSymbol(hits, limit, size)
               plain == Plain(hits, limit)
           IN  /\ wide.results = plain.results
               /\ wide.unindexed = plain.unindexed
               /\ wide.opened \in plain.opened .. plain.opened + size - 1
<1> DEFINE N == Len(hits)
           m == PlainStop(hits, limit)
           all == FoundBy(hits)[m]
           got == Walked(hits, limit, size)[N]
           cut(s) == SubSeq(s, 1, IF Len(s) < limit THEN Len(s) ELSE limit)
<1>1. StopsAt(hits, limit, m)
  BY LoopStops
<1>2. PICK o \in m .. (m + size - 1) : got = HeldAfter(hits, m, o, o)
  BY <1>1, WalkStops
<1>3. m \in Nat /\ ~(o < m)
  BY <1>1 DEF StopsAt, Answered
<1>4. Plain(hits, limit) = [results |-> cut(all), unindexed |-> GoneBy(hits)[m], opened |-> m]
  BY DEF Plain, PlainStop, FoundBy, GoneBy
<1>5. FindSymbol(hits, limit, size) = [got EXCEPT !.results = cut(@)]
  BY DEF FindSymbol, Walked, NextWindow
<1> HIDE DEF m, cut, got
<1>6. got = [results |-> all, unindexed |-> GoneBy(hits)[m], opened |-> o]
  BY <1>2, <1>3 DEF HeldAfter
<1> HIDE DEF all
<1>7. FindSymbol(hits, limit, size) = [results |-> cut(all), unindexed |-> GoneBy(hits)[m], opened |-> o]
  BY <1>5, <1>6
<1> QED BY <1>4, <1>7

\* find_symbol answers over windows of any width what the loop over one project
\* after another answers, and opens no more than the rest of the last window.
THEOREM WidthChangesNothing == Spec => []WindowChangesNothing
<1>1. ASSUME NEW hits \in SeqOf(SomeHits, 4)
      PROVE  Answered(hits)
  <2>1. PICK m \in 0 .. 4 : hits \in [1 .. m -> SomeHits]
    BY DEF SeqOf
  <2>2. hits \in Seq(SomeHits)
    BY <2>1
  <2> QED BY <2>2, EngineAssumption DEF Answered
<1>2. \A limit \in 1 .. 3, size \in 1 .. 3 : limit \in Nat /\ size \in Nat \ {0}
  OBVIOUS
<1>3. WindowChangesNothing
  BY <1>1, <1>2, WindowsAgree DEF WindowChangesNothing
<1> QED BY <1>3, PTL

----------------------------------------------------------------------------
(* What one check of the daemon leaves to the next.                          *)

\* The states of health.json while some checks are made.
Histories(bodies) ==
    LET was[n \in 0 .. Len(bodies)] == IF n = 0 THEN NoHistory ELSE Noted(was[n - 1], bodies[n])
    IN  was

\* What one of these checks can write down.
HistoriesOf(bodies) ==
    LET answered == {i \in 1 .. Len(bodies) : bodies[i] # NoReply}
    IN  [failing : SUBSET ({Worker, Stalled} \cup UNION {bodies[i].failing : i \in answered}),
         depth : {NoHistory.depth} \cup {bodies[i].depth : i \in answered}]

LEMMA NotedIsHistory ==
    ASSUME NEW bodies, NEW was \in HistoriesOf(bodies), NEW i \in 1 .. Len(bodies)
    PROVE  Noted(was, bodies[i]) \in HistoriesOf(bodies)
<1>1. CASE bodies[i] = NoReply
  BY <1>1 DEF Noted
<1>2. CASE bodies[i] # NoReply
  <2> DEFINE answered == {j \in 1 .. Len(bodies) : bodies[j] # NoReply}
             all == {Worker, Stalled} \cup UNION {bodies[j].failing : j \in answered}
             body == bodies[i]
  <2>1. i \in answered
    BY <1>2
  <2>2. Silent(was, body) \in SUBSET {Worker, Stalled}
    BY DEF Silent
  <2>3. body.failing \in SUBSET all
    BY <2>1
  <2>4. Failing(was, body) \in SUBSET all
    BY <2>2, <2>3 DEF Failing
  <2>5. body.depth \in {NoHistory.depth} \cup {bodies[j].depth : j \in answered}
    BY <2>1
  <2>6. Noted(was, body) = [failing |-> Failing(was, body), depth |-> body.depth]
    BY <1>2 DEF Noted
  <2>7. HistoriesOf(bodies) =
          [failing : SUBSET all, depth : {NoHistory.depth} \cup {bodies[j].depth : j \in answered}]
    BY DEF HistoriesOf
  <2> HIDE DEF all, answered, body
  <2>8. Noted(was, body) \in HistoriesOf(bodies)
    BY ONLY <2>4, <2>5, <2>6, <2>7
  <2> QED BY <2>8 DEF body
<1> QED BY <1>1, <1>2

LEMMA HistoriesUnfold ==
    ASSUME NEW bodies, Len(bodies) \in Nat
    PROVE  /\ Histories(bodies)[0] = NoHistory
           /\ \A n \in 1 .. Len(bodies) :
                 Histories(bodies)[n] = Noted(Histories(bodies)[n - 1], bodies[n])
<1> DEFINE m == Len(bodies)
           S == HistoriesOf(bodies)
           base == NoHistory
           F == [n \in 1 .. m |-> [q \in S |-> Noted(q, bodies[n])]]
<1>1. base \in S
  BY DEF HistoriesOf, NoHistory
<1>2. F \in StepsUpTo(m, S)
  BY NotedIsHistory DEF StepsUpTo
<1>3. PICK g \in [0 .. m -> S] : SolvesUpTo(m, g, base, F)
  <2> HIDE DEF S, base, F
  <2> QED BY <1>1, <1>2, RecursionUpTo
<1>4. g[0] = base /\ \A n \in 1 .. m : g[n] = Noted(g[n - 1], bodies[n])
  <2>1. ASSUME NEW n \in 1 .. m
        PROVE  g[n] = Noted(g[n - 1], bodies[n])
    <3>1. n - 1 \in 0 .. m
      OBVIOUS
    <3>2. g[n - 1] \in S /\ g[n] = F[n][g[n - 1]]
      <4> HIDE DEF S, F, base
      <4> QED BY <1>3, <3>1 DEF SolvesUpTo
    <3>3. F[n] = [q \in S |-> Noted(q, bodies[n])]
      OBVIOUS
    <3> HIDE DEF F, S
    <3> QED BY <3>2, <3>3
  <2> QED BY <1>3, <2>1 DEF SolvesUpTo
<1> HIDE DEF S, F
<1>5. g = [n \in 0 .. m |-> IF n = 0 THEN base ELSE Noted(g[n - 1], bodies[n])]
  <2>1. \A n \in 0 .. m : n # 0 => n \in 1 .. m
    OBVIOUS
  <2> HIDE DEF base, m
  <2>2. \A n \in 0 .. m : g[n] = IF n = 0 THEN base ELSE Noted(g[n - 1], bodies[n])
    BY <1>4, <2>1
  <2> QED BY <1>3, <2>2
<1> DEFINE h == CHOOSE u : u = [n \in 0 .. m |-> IF n = 0 THEN base ELSE Noted(u[n - 1], bodies[n])]
<1>6. h = [n \in 0 .. m |-> IF n = 0 THEN base ELSE Noted(h[n - 1], bodies[n])]
  <2>1. \E u : u = [n \in 0 .. m |-> IF n = 0 THEN base ELSE Noted(u[n - 1], bodies[n])]
    BY <1>5
  <2> QED BY <2>1
<1>7. Histories(bodies) = h
  BY DEF Histories, h, base
<1> HIDE DEF h
<1>8. 0 \in 0 .. m /\ \A n \in 1 .. m : n \in 0 .. m /\ n # 0
  OBVIOUS
<1>9. h[0] = base /\ \A n \in 1 .. m : h[n] = Noted(h[n - 1], bodies[n])
  <2> HIDE DEF base, m
  <2> QED BY <1>6, <1>8
<1> QED BY <1>7, <1>9

\* A reply says what it may: EngineAssumption.
Sayable(body) == body.depth \in Nat /\ Worker \notin body.failing /\ Stalled \notin body.failing

\* The check i of bodies was the last of n that was answered.
LastAnswered(bodies, n, i) ==
    /\ i \in 1 .. n /\ bodies[i] # NoReply
    /\ \A j \in 1 .. n : bodies[j] # NoReply => j <= i

\* A state holds what the last answered check failed with, and the queue's own
\* row besides or not.
Remembers(was, body) ==
    /\ was.depth = body.depth
    /\ \E stalled \in SUBSET {Stalled} :
          was.failing = body.failing \cup (IF body.alive THEN {} ELSE {Worker}) \cup stalled

LEMMA HistoryRemembers ==
    ASSUME NEW bodies, Len(bodies) \in Nat, NEW n \in 0 .. Len(bodies)
    PROVE  \/ /\ \A j \in 1 .. n : bodies[j] = NoReply
              /\ Histories(bodies)[n] = NoHistory
           \/ \E i \in 1 .. n : LastAnswered(bodies, n, i) /\ Remembers(Histories(bodies)[n], bodies[i])
<1> DEFINE m == Len(bodies)
           was == Histories(bodies)
           Quiet(k) == (\A j \in 1 .. k : bodies[j] = NoReply) /\ was[k] = NoHistory
           Heard(k) == \E i \in 1 .. k : LastAnswered(bodies, k, i) /\ Remembers(was[k], bodies[i])
           T == {k \in 0 .. m : Quiet(k) \/ Heard(k)}
<1>1. was[0] = NoHistory /\ \A k \in 1 .. m : was[k] = Noted(was[k - 1], bodies[k])
  BY HistoriesUnfold
<1> HIDE DEF was
<1>2. 0 \in T
  <2>1. Quiet(0)
    BY <1>1
  <2> QED BY <2>1
<1>3. ASSUME NEW k \in 0 .. (m - 1), k \in T
      PROVE  k + 1 \in T
  <2>0. k + 1 \in 1 .. m /\ k + 1 \in 0 .. m /\ (k + 1) - 1 = k
    OBVIOUS
  <2>00. \A j \in 1 .. (k + 1) : j = k + 1 \/ (j \in 1 .. k /\ j <= k)
    OBVIOUS
  <2>1. was[k + 1] = Noted(was[k], bodies[k + 1])
    BY <1>1, <2>0
  <2>2. CASE bodies[k + 1] = NoReply
    <3>1. was[k + 1] = was[k]
      BY <2>1, <2>2 DEF Noted
    <3>2. CASE Quiet(k)
      <4>1. Quiet(k + 1)
        BY <3>1, <3>2, <2>2, <2>00
      <4> QED BY <4>1, <2>0
    <3>3. CASE Heard(k)
      <4>1. PICK i \in 1 .. k : LastAnswered(bodies, k, i) /\ Remembers(was[k], bodies[i])
        BY <3>3
      <4>2. LastAnswered(bodies, k + 1, i) /\ i \in 1 .. (k + 1)
        BY <4>1, <2>00, <2>2 DEF LastAnswered
      <4>3. Heard(k + 1)
        BY <4>1, <4>2, <3>1
      <4> QED BY <4>3, <2>0
    <3> QED BY <1>3, <3>2, <3>3
  <2>3. CASE bodies[k + 1] # NoReply
    <3> DEFINE body == bodies[k + 1]
    <3>1. was[k + 1] = [failing |-> Failing(was[k], body), depth |-> body.depth]
      BY <2>1, <2>3 DEF Noted
    <3>2. PICK stalled \in SUBSET {Stalled} :
            Failing(was[k], body) = body.failing \cup (IF body.alive THEN {} ELSE {Worker}) \cup stalled
      <4> DEFINE x == IF QueueStalled(was[k], body) THEN {Stalled} ELSE {}
      <4>1. x \in SUBSET {Stalled}
        OBVIOUS
      <4>2. Failing(was[k], body) = body.failing \cup (IF body.alive THEN {} ELSE {Worker}) \cup x
        BY DEF Failing, Silent
      <4> HIDE DEF x
      <4> QED BY <4>1, <4>2
    <3>3. Remembers(was[k + 1], body)
      <4>1. was[k + 1].depth = body.depth /\ was[k + 1].failing = Failing(was[k], body)
        BY <3>1
      <4> HIDE DEF body, was
      <4> QED BY ONLY <3>2, <4>1 DEF Remembers
    <3>4. LastAnswered(bodies, k + 1, k + 1) /\ k + 1 \in 1 .. (k + 1)
      BY <2>3, <2>00, <2>0 DEF LastAnswered
    <3>5. Heard(k + 1)
      BY <3>3, <3>4
    <3> QED BY <3>5, <2>0
  <2> QED BY <2>2, <2>3
<1>4. 0 .. m \subseteq T
  <2> HIDE DEF T, m
  <2>1. m \in Nat
    BY DEF m
  <2> QED BY ONLY <1>2, <1>3, <2>1, InductiveUpTo
<1>5. n \in T
  BY <1>4
<1> QED BY <1>5 DEF was

\* For as many checks as there were: what one pages for, of the last that was
\* answered before it.
LEMMA PagesOf ==
    ASSUME NEW bodies, Len(bodies) \in Nat, DOMAIN bodies = 1 .. Len(bodies),
           \A i \in DOMAIN bodies : bodies[i] # NoReply => Sayable(bodies[i]),
           NEW body, Sayable(body)
    PROVE  LET answered == {i \in DOMAIN bodies : bodies[i] # NoReply}
               before == bodies[Max(answered)]
               both == (body.failing \cap before.failing)
                       \cup (IF body.alive \/ before.alive THEN {} ELSE {Worker})
                       \cup (IF body.depth >= Stuck /\ body.depth >= before.depth THEN {Stalled} ELSE {})
           IN  Pages(After(bodies), body) = IF answered = {} THEN {} ELSE both
<1> DEFINE m == Len(bodies)
           was == After(bodies)
           answered == {i \in DOMAIN bodies : bodies[i] # NoReply}
           before == bodies[Max(answered)]
           both == (body.failing \cap before.failing)
                   \cup (IF body.alive \/ before.alive THEN {} ELSE {Worker})
                   \cup (IF body.depth >= Stuck /\ body.depth >= before.depth THEN {Stalled} ELSE {})
<1>1. was = Histories(bodies)[m] /\ m \in 0 .. m
  BY DEF After, Histories
<1>2. NoHistory.depth = -1 /\ NoHistory.failing = {} /\ Worker # Stalled
  BY DEF NoHistory, Worker, Stalled
<1>3. ASSUME \A j \in 1 .. m : bodies[j] = NoReply, was = NoHistory
      PROVE  answered = {} /\ Pages(was, body) = {}
  <2>1. ~QueueStalled(was, body)
    BY <1>3 DEF QueueStalled
  <2>2. Stalled \notin Silent(was, body)
    BY <1>2, <2>1 DEF Silent
  <2>3. Pages(was, body) = {}
    BY <1>2, <1>3, <2>2 DEF Pages
  <2> QED BY <1>3, <2>3
<1>4. ASSUME NEW i \in 1 .. m, LastAnswered(bodies, m, i), Remembers(was, bodies[i])
      PROVE  answered # {} /\ Pages(was, body) = both
  <2>1. i \in answered /\ \A j \in answered : i >= j /\ j \in Int
    BY <1>4 DEF LastAnswered
  <2>2. before = bodies[i]
    <3>1. \A j \in answered : (\A k \in answered : j >= k) => j = i
      BY <2>1
    <3> HIDE DEF answered
    <3>2. Max(answered) = i
      BY <2>1, <3>1 DEF Max
    <3> QED BY <3>2
  <2>3. Sayable(before)
    BY <2>1, <2>2
  <2>4. Remembers(was, before)
    BY <1>4, <2>2
  <2> HIDE DEF before, was, answered
  <2>5. PICK stalled \in SUBSET {Stalled} :
          was.failing = before.failing \cup (IF before.alive THEN {} ELSE {Worker}) \cup stalled
    BY <2>4 DEF Remembers
  <2>6. QueueStalled(was, body) <=> body.depth >= Stuck /\ body.depth >= before.depth
    BY <1>2, <2>3, <2>4 DEF QueueStalled, Remembers, Sayable
  <2>7. ASSUME NEW f
        PROVE  f \in Pages(was, body) <=> f \in both
    <3>1. f \in Silent(was, body) <=> \/ f = Worker /\ ~body.alive
                                      \/ f = Stalled /\ QueueStalled(was, body)
      BY DEF Silent
    <3>2. f \in was.failing <=> f \in before.failing \/ (f = Worker /\ ~before.alive) \/ f \in stalled
      BY <2>5
    <3>3. f \in stalled => f = Stalled
      OBVIOUS
    <3>4. f \in both <=> \/ f \in body.failing /\ f \in before.failing
                         \/ f = Worker /\ ~body.alive /\ ~before.alive
                         \/ f = Stalled /\ QueueStalled(was, body)
      BY <2>6
    <3>5. f \in Pages(was, body) <=>
              /\ f \in body.failing \/ f \in Silent(was, body)
              /\ f \in was.failing \/ (f \in Silent(was, body) /\ f = Stalled)
      BY DEF Pages, Failing
    <3>6. /\ Worker \notin body.failing /\ Stalled \notin body.failing
          /\ Worker \notin before.failing /\ Stalled \notin before.failing
      BY <2>3 DEF Sayable
    <3> HIDE DEF both
    <3> QED BY ONLY <1>2, <3>1, <3>2, <3>3, <3>4, <3>5, <3>6
  <2>8. Pages(was, body) = both
    <3> HIDE DEF both
    <3> QED BY <2>7
  <2> QED BY <2>1, <2>8
<1>5. \/ /\ \A j \in 1 .. m : bodies[j] = NoReply
         /\ was = NoHistory
      \/ \E i \in 1 .. m : LastAnswered(bodies, m, i) /\ Remembers(was, bodies[i])
  BY <1>1, HistoryRemembers
<1> HIDE DEF both, was
<1>6. Pages(was, body) = IF answered = {} THEN {} ELSE both
  BY <1>3, <1>4, <1>5
<1> QED BY <1>6 DEF was, both

\* health.check pages for what failed at the last check that was answered and
\* fails now, whichever checks were not answered, however many there were.
THEOREM PagesLast == Spec => []PagesForWhatLasts
<1>1. ASSUME NEW bodies \in SeqOf(SomeBodies, 2)
      PROVE  /\ Len(bodies) \in Nat /\ DOMAIN bodies = 1 .. Len(bodies)
             /\ \A i \in DOMAIN bodies : bodies[i] # NoReply => Sayable(bodies[i])
  <2>1. PICK m \in 0 .. 2 : bodies \in [1 .. m -> SomeBodies]
    BY DEF SeqOf
  <2>2. bodies \in Seq(SomeBodies)
    BY <2>1
  <2> QED BY <2>2, EngineAssumption DEF Sayable
<1>2. ASSUME NEW body \in SomeBodies \ {NoReply}
      PROVE  Sayable(body)
  BY EngineAssumption DEF Sayable
<1>3. PagesForWhatLasts
  BY <1>1, <1>2, PagesOf DEF PagesForWhatLasts
<1> QED BY <1>3, PTL

----------------------------------------------------------------------------
(* A range reaches its bytes.                                               *)

\* The units a text takes up to each of its characters.
Running(width, chars) ==
    LET upTo[n \in 0 .. Len(chars)] == IF n = 0 THEN 0 ELSE upTo[n - 1] + width[chars[n]]
    IN  upTo

\* Every character has a width.
Widths(C) == [C -> Nat]

LEMMA RunningUnfolds ==
    ASSUME NEW C, NEW width \in Widths(C), NEW chars \in Seq(C)
    PROVE  /\ Running(width, chars)[0] = 0
           /\ \A n \in 1 .. Len(chars) :
                 Running(width, chars)[n] = Running(width, chars)[n - 1] + width[chars[n]]
           /\ \A n \in 0 .. Len(chars) : Running(width, chars)[n] \in Nat
<1> DEFINE m == Len(chars)
           parts == [n \in 1 .. m |-> width[chars[n]]]
           h == CHOOSE u : u = [n \in 0 .. m |-> IF n = 0 THEN 0 ELSE u[n - 1] + width[chars[n]]]
<1>1. m \in Nat
  OBVIOUS
<1>2. parts \in PartsIn(m)
  BY DEF PartsIn, Widths
<1>3. PICK g \in [0 .. m -> Nat] : Summing(m, parts, g)
  <2> HIDE DEF parts, m
  <2> QED BY <1>1, <1>2, Sums
<1>4. \A n \in 0 .. m : n # 0 => n \in 1 .. m
  OBVIOUS
<1>5. \A n \in 1 .. m : parts[n] = width[chars[n]]
  OBVIOUS
<1> HIDE DEF parts, m
<1>6. g = [n \in 0 .. m |-> IF n = 0 THEN 0 ELSE g[n - 1] + width[chars[n]]]
  BY <1>3, <1>4, <1>5 DEF Summing
<1>7. h = [n \in 0 .. m |-> IF n = 0 THEN 0 ELSE h[n - 1] + width[chars[n]]]
  <2>1. \E u : u = [n \in 0 .. m |-> IF n = 0 THEN 0 ELSE u[n - 1] + width[chars[n]]]
    BY <1>6
  <2> QED BY <2>1
<1>8. Running(width, chars) = h
  BY DEF Running, h, m
<1> HIDE DEF h
<1>9. Summing(m, parts, h)
  BY <1>4, <1>5, <1>7 DEF Summing
<1>10. /\ h[0] = 0
       /\ \A n \in 1 .. m : h[n] = h[n - 1] + parts[n]
       /\ \A n \in 0 .. m : h[n] \in Nat
  BY ONLY <1>1, <1>2, <1>9, SummingTells
<1> QED BY <1>5, <1>8, <1>10 DEF m

\* The total of no characters, and of one more.
LEMMA TotalSteps ==
    ASSUME NEW C, NEW width \in Widths(C)
    PROVE  /\ Total(width, <<>>) = 0
           /\ \A s \in Seq(C) : Total(width, s) \in Nat
           /\ \A s \in Seq(C), c \in C : Total(width, Append(s, c)) = Total(width, s) + width[c]
<1>1. ASSUME NEW s
      PROVE  Total(width, s) = Running(width, s)[Len(s)]
  BY DEF Total, Running
<1>2. Total(width, <<>>) = 0
  <2>1. <<>> \in Seq(C) /\ Len(<<>>) = 0
    OBVIOUS
  <2> QED BY <1>1, <2>1, RunningUnfolds
<1>3. ASSUME NEW s \in Seq(C)
      PROVE  Total(width, s) \in Nat
  <2>1. Len(s) \in 0 .. Len(s)
    OBVIOUS
  <2> QED BY <1>1, <2>1, RunningUnfolds
<1>4. ASSUME NEW s \in Seq(C), NEW c \in C
      PROVE  Total(width, Append(s, c)) = Total(width, s) + width[c]
  <2> DEFINE t == Append(s, c)
             m == Len(s)
             f == Running(width, s)
             g == Running(width, t)
             T == {n \in 0 .. m : f[n] = g[n]}
  <2>1. t \in Seq(C) /\ Len(t) = m + 1 /\ m \in Nat /\ t[m + 1] = c /\ \A n \in 1 .. m : t[n] = s[n]
    OBVIOUS
  <2>2. f[0] = 0 /\ \A n \in 1 .. m : f[n] = f[n - 1] + width[s[n]]
    BY RunningUnfolds
  <2> HIDE DEF t
  <2>3. g[0] = 0 /\ \A n \in 1 .. (m + 1) : g[n] = g[n - 1] + width[t[n]]
    BY <2>1, RunningUnfolds
  <2> HIDE DEF f, g, m
  <2>4. 0 \in T
    BY <2>1, <2>2, <2>3
  <2>5. ASSUME NEW n \in 0 .. (m - 1), n \in T
        PROVE  n + 1 \in T
    <3>1. n + 1 \in 1 .. m /\ n + 1 \in 1 .. (m + 1) /\ n + 1 \in 0 .. m /\ (n + 1) - 1 = n
      BY <2>1
    <3>2. f[n + 1] = f[n] + width[s[n + 1]] /\ g[n + 1] = g[n] + width[t[n + 1]]
      BY <2>2, <2>3, <3>1
    <3>3. t[n + 1] = s[n + 1]
      BY <2>1, <3>1
    <3> QED BY <2>5, <3>1, <3>2, <3>3
  <2>6. 0 .. m \subseteq T
    <3>1. m \in Nat
      BY <2>1
    <3> HIDE DEF T
    <3> QED BY ONLY <2>4, <2>5, <3>1, InductiveUpTo
  <2>7. f[m] = g[m]
    <3>1. m \in 0 .. m
      BY <2>1
    <3> QED BY <2>6, <3>1
  <2>8. g[m + 1] = g[m] + width[c]
    <3>1. m + 1 \in 1 .. (m + 1) /\ (m + 1) - 1 = m
      BY <2>1
    <3> QED BY <2>1, <2>3, <3>1
  <2> QED BY <1>1, <2>1, <2>7, <2>8 DEF f, g, m, t
<1> QED BY <1>2, <1>3, <1>4

\* A text is as wide as its two parts.
LEMMA TotalOfBoth ==
    ASSUME NEW C, NEW width \in Widths(C), NEW s \in Seq(C), NEW t \in Seq(C)
    PROVE  Total(width, s \o t) = Total(width, s) + Total(width, t)
<1> DEFINE m == Len(t)
           pre(n) == SubSeq(t, 1, n)
           T == {n \in 0 .. m : Total(width, s \o pre(n)) = Total(width, s) + Total(width, pre(n))}
<1>1. m \in Nat
  OBVIOUS
<1>2. pre(0) = <<>> /\ s \o <<>> = s /\ pre(m) = t
  BY SubSeqFull
<1>3. ASSUME NEW n \in 0 .. (m - 1)
      PROVE  /\ n + 1 \in 0 .. m /\ t[n + 1] \in C
             /\ pre(n) \in Seq(C) /\ s \o pre(n) \in Seq(C)
             /\ pre(n + 1) = Append(pre(n), t[n + 1])
             /\ s \o pre(n + 1) = Append(s \o pre(n), t[n + 1])
  OBVIOUS
<1>4. Total(width, <<>>) = 0 /\ Total(width, s) \in Nat
  BY TotalSteps
<1> HIDE DEF pre, m
<1>5. 0 \in T
  <2>1. 0 \in 0 .. m
    BY <1>1
  <2>2. s \o pre(0) = s
    BY <1>2
  <2>3. Total(width, pre(0)) = 0
    BY <1>2, <1>4
  <2>4. Total(width, s \o pre(0)) = Total(width, s)
    BY <2>2
  <2>5. Total(width, s) = Total(width, s) + Total(width, pre(0))
    BY <1>4, <2>3
  <2> QED BY <2>1, <2>4, <2>5
<1>6. ASSUME NEW n \in 0 .. (m - 1), n \in T
      PROVE  n + 1 \in T
  <2>1. /\ n + 1 \in 0 .. m /\ t[n + 1] \in C
        /\ pre(n) \in Seq(C) /\ s \o pre(n) \in Seq(C)
        /\ pre(n + 1) = Append(pre(n), t[n + 1])
        /\ s \o pre(n + 1) = Append(s \o pre(n), t[n + 1])
    BY <1>3
  <2>2. /\ Total(width, pre(n + 1)) = Total(width, pre(n)) + width[t[n + 1]]
        /\ Total(width, s \o pre(n + 1)) = Total(width, s \o pre(n)) + width[t[n + 1]]
        /\ Total(width, pre(n)) \in Nat
    BY <2>1, TotalSteps
  <2>3. width[t[n + 1]] \in Nat
    BY <2>1 DEF Widths
  <2> QED BY <1>4, <1>6, <2>1, <2>2, <2>3
<1>7. 0 .. m \subseteq T
  <2> HIDE DEF T
  <2> QED BY ONLY <1>1, <1>5, <1>6, InductiveUpTo
<1>8. m \in 0 .. m
  BY <1>1
<1> QED BY <1>2, <1>7, <1>8

\* Where no character is of no width, a text is at least as wide as it is long.
LEMMA TotalIsLong ==
    ASSUME NEW C, NEW width \in Widths(C), \A c \in C : width[c] >= 1, NEW t \in Seq(C)
    PROVE  Total(width, t) >= Len(t)
<1> DEFINE m == Len(t)
           pre(n) == SubSeq(t, 1, n)
           T == {n \in 0 .. m : Total(width, pre(n)) >= n}
<1>1. m \in Nat
  OBVIOUS
<1>2. pre(0) = <<>> /\ pre(m) = t
  BY SubSeqFull
<1>3. ASSUME NEW n \in 0 .. (m - 1)
      PROVE  /\ n + 1 \in 0 .. m /\ t[n + 1] \in C /\ pre(n) \in Seq(C)
             /\ pre(n + 1) = Append(pre(n), t[n + 1])
  OBVIOUS
<1>4. Total(width, <<>>) = 0
  BY TotalSteps
<1> HIDE DEF pre, m
<1>5. 0 \in T
  BY <1>1, <1>2, <1>4
<1>6. ASSUME NEW n \in 0 .. (m - 1), n \in T
      PROVE  n + 1 \in T
  <2>1. /\ n + 1 \in 0 .. m /\ t[n + 1] \in C /\ pre(n) \in Seq(C)
        /\ pre(n + 1) = Append(pre(n), t[n + 1])
    BY <1>3
  <2>2. Total(width, pre(n + 1)) = Total(width, pre(n)) + width[t[n + 1]] /\ Total(width, pre(n)) \in Nat
    BY <2>1, TotalSteps
  <2>3. width[t[n + 1]] \in Nat /\ width[t[n + 1]] >= 1
    BY <2>1 DEF Widths
  <2> QED BY <1>6, <2>1, <2>2, <2>3
<1>7. 0 .. m \subseteq T
  <2> HIDE DEF T
  <2> QED BY ONLY <1>1, <1>5, <1>6, InductiveUpTo
<1>8. m \in 0 .. m
  BY <1>1
<1> QED BY <1>2, <1>7, <1>8 DEF m

\* One character more on the last line, or a line more.
Extended(lines, c) ==
    IF c = "newline" THEN Append(lines, <<>>)
    ELSE [lines EXCEPT ![Len(lines)] = Append(@, c)]

\* Offsets.build, character by character, and its running offset.
Splitting(text) ==
    LET split[n \in 0 .. Len(text)] ==
          IF n = 0 THEN << <<>> >>
          ELSE Extended(split[n - 1], text[n])
    IN  split

Starting(lines) ==
    LET offset[k \in 0 .. Len(lines)] ==
          IF k = 0 THEN 0 ELSE offset[k - 1] + BytesIn(lines[k]) + 1
    IN  offset

\* There is always a line.
Lines == {q \in Seq(Seq(Char)) : q # <<>>}

LEMMA LinesExtend ==
    ASSUME NEW q \in Lines, NEW c \in Char
    PROVE  /\ Extended(q, c) \in Lines
           /\ c = "newline" => /\ Len(Extended(q, c)) = Len(q) + 1
                               /\ Extended(q, c)[Len(q) + 1] = <<>>
                               /\ \A k \in 1 .. Len(q) : Extended(q, c)[k] = q[k]
           /\ c # "newline" => /\ Len(Extended(q, c)) = Len(q)
                               /\ Extended(q, c)[Len(q)] = Append(q[Len(q)], c)
                               /\ \A k \in 1 .. Len(q) - 1 : Extended(q, c)[k] = q[k]
<1> DEFINE S == Seq(Char)
<1>1. q \in Seq(S) /\ Len(q) \in Nat /\ Len(q) >= 1
  BY DEF Lines
<1>2. CASE c = "newline"
  <2> DEFINE e == Append(q, <<>>)
  <2>1. <<>> \in S
    OBVIOUS
  <2> HIDE DEF S
  <2>2. /\ e \in Seq(S) /\ Len(e) = Len(q) + 1 /\ e[Len(q) + 1] = <<>>
        /\ \A k \in 1 .. Len(q) : e[k] = q[k]
    BY <1>1, <2>1
  <2>3. e # <<>>
    BY <1>1, <2>2
  <2>4. Extended(q, c) = e
    BY <1>2 DEF Extended
  <2> HIDE DEF e
  <2> QED BY <1>2, <2>2, <2>3, <2>4 DEF Lines, S
<1>3. CASE c # "newline"
  <2> DEFINE l == Append(q[Len(q)], c)
             e == [q EXCEPT ![Len(q)] = l]
  <2>1. q[Len(q)] \in S /\ Len(q) \in 1 .. Len(q)
    BY <1>1
  <2>2. l \in S
    BY <2>1
  <2> HIDE DEF S, l
  <2>3. /\ e \in Seq(S) /\ Len(e) = Len(q) /\ e[Len(q)] = l
        /\ \A k \in 1 .. Len(q) - 1 : e[k] = q[k]
    BY <1>1, <2>1, <2>2
  <2>4. e # <<>>
    <3>1. Len(e) >= 1 /\ Len(<<>>) = 0
      BY <1>1, <2>3
    <3> HIDE DEF e
    <3> QED BY <3>1
  <2>5. Extended(q, c) = e
    BY <1>3 DEF Extended, l
  <2> HIDE DEF e
  <2> QED BY <1>3, <2>3, <2>4, <2>5 DEF Lines, S, l
<1> QED BY <1>2, <1>3

LEMMA SplittingUnfolds ==
    ASSUME NEW text \in Seq(Char)
    PROVE  /\ Splitting(text)[0] = << <<>> >>
           /\ \A n \in 1 .. Len(text) : Splitting(text)[n] = Extended(Splitting(text)[n - 1], text[n])
           /\ \A n \in 0 .. Len(text) : Splitting(text)[n] \in Lines
<1> DEFINE m == Len(text)
           base == << <<>> >>
           F == [n \in 1 .. m |-> [q \in Lines |-> Extended(q, text[n])]]
           h == CHOOSE u : u = [n \in 0 .. m |-> IF n = 0 THEN base ELSE Extended(u[n - 1], text[n])]
<1>1. m \in Nat
  OBVIOUS
<1>2. base \in Lines
  <2>1. <<>> \in Seq(Char)
    OBVIOUS
  <2>2. base \in Seq(Seq(Char)) /\ Len(base) = 1
    <3> DEFINE S == Seq(Char)
    <3> HIDE DEF S
    <3> QED BY <2>1 DEF S
  <2> QED BY <2>2 DEF Lines
<1>3. F \in StepsUpTo(m, Lines)
  <2>1. \A n \in 1 .. m : \A q \in Lines : Extended(q, text[n]) \in Lines
    BY LinesExtend
  <2> QED BY <2>1 DEF StepsUpTo
<1>4. Splitting(text) = h
  BY DEF Splitting, h, m, base
<1> HIDE DEF base, m, F
<1>5. PICK g \in [0 .. m -> Lines] : SolvesUpTo(m, g, base, F)
  BY <1>1, <1>2, <1>3, RecursionUpTo
<1>6. ASSUME NEW n \in 1 .. m
      PROVE  g[n] = Extended(g[n - 1], text[n])
  <2>1. n - 1 \in 0 .. m
    BY <1>1
  <2>2. g[n - 1] \in Lines /\ g[n] = F[n][g[n - 1]]
    BY <1>5, <2>1 DEF SolvesUpTo
  <2>3. F[n] = [q \in Lines |-> Extended(q, text[n])]
    BY DEF F
  <2> QED BY <2>2, <2>3
<1>7. \A n \in 0 .. m : n # 0 => n \in 1 .. m
  BY <1>1
<1>8. g = [n \in 0 .. m |-> IF n = 0 THEN base ELSE Extended(g[n - 1], text[n])]
  <2>1. \A n \in 0 .. m : g[n] = IF n = 0 THEN base ELSE Extended(g[n - 1], text[n])
    BY <1>5, <1>6, <1>7 DEF SolvesUpTo
  <2> QED BY <1>5, <2>1
<1>9. h = [n \in 0 .. m |-> IF n = 0 THEN base ELSE Extended(h[n - 1], text[n])]
  <2>1. \E u : u = [n \in 0 .. m |-> IF n = 0 THEN base ELSE Extended(u[n - 1], text[n])]
    BY <1>8
  <2> QED BY <2>1
<1> HIDE DEF h
<1>10. 0 \in 0 .. m /\ \A n \in 1 .. m : n \in 0 .. m /\ n # 0
  BY <1>1
<1>11. h[0] = base /\ \A n \in 1 .. m : h[n] = Extended(h[n - 1], text[n])
  BY <1>9, <1>10
<1> DEFINE T == {n \in 0 .. m : h[n] \in Lines}
<1>12. 0 \in T
  BY <1>2, <1>10, <1>11
<1>13. ASSUME NEW n \in 0 .. (m - 1), n \in T
       PROVE  n + 1 \in T
  <2>1. n + 1 \in 1 .. m /\ n + 1 \in 0 .. m /\ (n + 1) - 1 = n
    BY <1>1
  <2>2. h[n + 1] = Extended(h[n], text[n + 1])
    BY <1>11, <2>1
  <2>3. text[n + 1] \in Char
    BY <2>1 DEF m
  <2> QED BY <1>13, <2>1, <2>2, <2>3, LinesExtend
<1>14. 0 .. m \subseteq T
  <2> HIDE DEF T
  <2> QED BY ONLY <1>1, <1>12, <1>13, InductiveUpTo
<1> QED BY <1>4, <1>11, <1>14 DEF m, base

\* Characters take at least a byte and a unit.
LEMMA CharWidths ==
    /\ Utf8 \in Widths(Char) /\ Utf16 \in Widths(Char)
    /\ \A c \in Char : Utf8[c] >= 1 /\ Utf16[c] >= 1
    /\ "newline" \in Char /\ Utf8["newline"] = 1
BY DEF Utf8, Utf16, Char, Widths

LEMMA StartingUnfolds ==
    ASSUME NEW lines \in Seq(Seq(Char))
    PROVE  /\ Starting(lines)[0] = 0
           /\ \A k \in 1 .. Len(lines) :
                 Starting(lines)[k] = Starting(lines)[k - 1] + BytesIn(lines[k]) + 1
           /\ \A k \in 0 .. Len(lines) : Starting(lines)[k] \in Nat
<1> DEFINE m == Len(lines)
           parts == [n \in 1 .. m |-> BytesIn(lines[n]) + 1]
           h == CHOOSE u : u = [n \in 0 .. m |-> IF n = 0 THEN 0 ELSE u[n - 1] + BytesIn(lines[n]) + 1]
<1>1. m \in Nat
  OBVIOUS
<1>2. \A n \in 1 .. m : BytesIn(lines[n]) \in Nat
  BY CharWidths, TotalSteps DEF BytesIn
<1>3. parts \in PartsIn(m)
  BY <1>2 DEF PartsIn
<1>4. PICK g \in [0 .. m -> Nat] : Summing(m, parts, g)
  <2> HIDE DEF parts, m
  <2> QED BY <1>1, <1>3, Sums
<1>5. \A n \in 0 .. m : n # 0 => n \in 1 .. m /\ n - 1 \in 0 .. m
  OBVIOUS
<1>6. \A n \in 1 .. m : parts[n] = BytesIn(lines[n]) + 1
  OBVIOUS
<1>7. Starting(lines) = h
  BY DEF Starting, h, m
<1> HIDE DEF parts, m
<1>8. g = [n \in 0 .. m |-> IF n = 0 THEN 0 ELSE g[n - 1] + BytesIn(lines[n]) + 1]
  <2>1. ASSUME NEW n \in 0 .. m
        PROVE  g[n] = IF n = 0 THEN 0 ELSE g[n - 1] + BytesIn(lines[n]) + 1
    <3>1. CASE n = 0
      BY <1>4, <3>1 DEF Summing
    <3>2. CASE n # 0
      <4>1. g[n] = g[n - 1] + parts[n]
        BY <1>4, <3>2 DEF Summing
      <4>2. parts[n] = BytesIn(lines[n]) + 1 /\ BytesIn(lines[n]) \in Nat /\ g[n - 1] \in Nat
        BY <1>2, <1>4, <1>5, <1>6, <3>2
      <4> QED BY <3>2, <4>1, <4>2
    <3> QED BY <3>1, <3>2
  <2> QED BY <1>4, <2>1
<1>9. h = [n \in 0 .. m |-> IF n = 0 THEN 0 ELSE h[n - 1] + BytesIn(lines[n]) + 1]
  <2>1. \E u : u = [n \in 0 .. m |-> IF n = 0 THEN 0 ELSE u[n - 1] + BytesIn(lines[n]) + 1]
    BY <1>8
  <2> QED BY <2>1
<1> HIDE DEF h
<1>10. 0 \in 0 .. m /\ \A n \in 1 .. m : n \in 0 .. m /\ n # 0 /\ (n - 1) + 1 = n
  BY <1>1
<1>11. h[0] = 0 /\ \A n \in 1 .. m : h[n] = h[n - 1] + BytesIn(lines[n]) + 1
  BY <1>9, <1>10
<1> DEFINE T == {n \in 0 .. m : h[n] \in Nat}
<1>12. 0 \in T
  BY <1>10, <1>11
<1>13. ASSUME NEW n \in 0 .. (m - 1), n \in T
       PROVE  n + 1 \in T
  <2>1. n + 1 \in 1 .. m /\ n + 1 \in 0 .. m /\ (n + 1) - 1 = n
    BY <1>1
  <2>2. h[n + 1] = h[n] + BytesIn(lines[n + 1]) + 1 /\ BytesIn(lines[n + 1]) \in Nat
    BY <1>2, <1>11, <2>1
  <2> QED BY <1>13, <2>1, <2>2
<1>14. 0 .. m \subseteq T
  <2> HIDE DEF T
  <2> QED BY ONLY <1>1, <1>12, <1>13, InductiveUpTo
<1> QED BY <1>7, <1>11, <1>14 DEF m

\* Where two files agree on their first lines, so do the starts of these.
LEMMA StartsAgree ==
    ASSUME NEW some \in Seq(Seq(Char)), NEW more \in Seq(Seq(Char)), NEW m \in Nat,
           m <= Len(some), m <= Len(more), \A k \in 1 .. m : some[k] = more[k]
    PROVE  \A k \in 0 .. m : Starting(some)[k] = Starting(more)[k]
<1> DEFINE f == Starting(some)
           g == Starting(more)
           T == {k \in 0 .. m : f[k] = g[k]}
<1>1. f[0] = 0 /\ \A k \in 1 .. Len(some) : f[k] = f[k - 1] + BytesIn(some[k]) + 1
  BY StartingUnfolds
<1>2. g[0] = 0 /\ \A k \in 1 .. Len(more) : g[k] = g[k - 1] + BytesIn(more[k]) + 1
  BY StartingUnfolds
<1> HIDE DEF f, g
<1>3. 0 \in T
  BY <1>1, <1>2
<1>4. ASSUME NEW k \in 0 .. (m - 1), k \in T
      PROVE  k + 1 \in T
  <2>1. k + 1 \in 1 .. m /\ k + 1 \in 0 .. m /\ (k + 1) - 1 = k /\ k + 1 \in 1 .. Len(some)
        /\ k + 1 \in 1 .. Len(more)
    OBVIOUS
  <2>2. f[k + 1] = f[k] + BytesIn(some[k + 1]) + 1 /\ g[k + 1] = g[k] + BytesIn(more[k + 1]) + 1
    BY <1>1, <1>2, <2>1
  <2>3. some[k + 1] = more[k + 1]
    BY <2>1
  <2> QED BY <1>4, <2>1, <2>2, <2>3
<1>5. m \in Nat
  OBVIOUS
<1>6. 0 .. m \subseteq T
  <2> HIDE DEF T
  <2> QED BY ONLY <1>3, <1>4, <1>5, InductiveUpTo
<1> QED BY <1>6 DEF f, g

\* Where the line of a place starts, and what stands before the place in it.
StartOf(text, n) == Max({0} \cup {i \in 1 .. n : text[i] = "newline"})
InLine(text, n) == SubSeq(text, StartOf(text, n) + 1, n)

LEMMA PlaceStands ==
    ASSUME NEW text \in Seq(Char), NEW n \in 0 .. Len(text)
    PROVE  /\ LineAt(text, n) \in Nat
           /\ StartOf(text, n) \in 0 .. n
           /\ \A k \in {0} \cup {i \in 1 .. n : text[i] = "newline"} : k <= StartOf(text, n)
           /\ StartOf(text, n) \in {0} \cup {i \in 1 .. n : text[i] = "newline"}
           /\ InLine(text, n) \in Seq(Char)
           /\ IsFiniteSet({i \in 1 .. n : text[i] = "newline"})
<1> DEFINE breaks == {i \in 1 .. n : text[i] = "newline"}
           all == {0} \cup breaks
<1>1. n \in Nat /\ breaks \in SUBSET (1 .. n) /\ all \in SUBSET (0 .. n) /\ all # {}
  OBVIOUS
<1>2. IsFiniteSet(breaks)
  <2>1. IsFiniteSet(1 .. n)
    <3>1. 1 \in Int /\ n \in Int
      BY <1>1
    <3> QED BY <3>1, FS_Interval
  <2>2. breaks \in SUBSET (1 .. n)
    BY <1>1
  <2> HIDE DEF breaks
  <2> QED BY <2>1, <2>2, FS_Subset
<1>3. LineAt(text, n) \in Nat
  BY <1>2, FS_CardinalityType DEF LineAt
<1>4. PICK x \in all : \A y \in all : y <= x
  <2> HIDE DEF all
  <2> QED BY <1>1, Greatest
<1>5. StartOf(text, n) \in all /\ \A y \in all : StartOf(text, n) >= y
  <2>1. \A y \in all : x >= y
    BY <1>1, <1>4
  <2>2. StartOf(text, n) = Max(all)
    BY DEF StartOf
  <2> HIDE DEF all
  <2> QED BY <2>1, <2>2 DEF Max
<1>6. StartOf(text, n) \in 0 .. n
  BY <1>1, <1>5
<1>7. InLine(text, n) \in Seq(Char)
  <2>1. StartOf(text, n) \in Int /\ n \in Int
    BY <1>6
  <2>2. \A i \in StartOf(text, n) + 1 .. n : text[i] \in Char
    BY <1>6
  <2> QED BY <2>1, <2>2 DEF InLine
<1>8. \A y \in all : y <= StartOf(text, n)
  BY <1>1, <1>5, <1>6
<1> QED BY <1>2, <1>3, <1>5, <1>6, <1>7, <1>8

LEMMA FirstPlace ==
    ASSUME NEW text \in Seq(Char)
    PROVE  LineAt(text, 0) = 0 /\ StartOf(text, 0) = 0 /\ InLine(text, 0) = <<>>
<1>1. {i \in 1 .. 0 : text[i] = "newline"} = {}
  OBVIOUS
<1>2. LineAt(text, 0) = 0
  BY <1>1, FS_EmptySet DEF LineAt
<1>3. StartOf(text, 0) = 0
  <2>1. 0 \in 0 .. Len(text) /\ \A k \in 0 .. 0 : k = 0
    OBVIOUS
  <2>2. StartOf(text, 0) \in 0 .. 0
    BY <2>1, PlaceStands
  <2> QED BY <2>1, <2>2
<1>4. InLine(text, 0) = <<>>
  <2>1. InLine(text, 0) = SubSeq(text, 1, 0)
    BY <1>3 DEF InLine
  <2> QED BY <2>1
<1> QED BY <1>2, <1>3, <1>4

\* From a place to the one behind the next character.
LEMMA NextPlace ==
    ASSUME NEW text \in Seq(Char), NEW n \in 0 .. (Len(text) - 1), NEW o, o = n + 1
    PROVE  /\ text[o] = "newline" => /\ LineAt(text, o) = LineAt(text, n) + 1
                                     /\ StartOf(text, o) = o
                                     /\ InLine(text, o) = <<>>
           /\ text[o] # "newline" => /\ LineAt(text, o) = LineAt(text, n)
                                     /\ StartOf(text, o) = StartOf(text, n)
                                     /\ InLine(text, o) = Append(InLine(text, n), text[o])
<1> DEFINE was == {i \in 1 .. n : text[i] = "newline"}
           now == {i \in 1 .. o : text[i] = "newline"}
<1>1. n \in 0 .. Len(text) /\ o \in 0 .. Len(text) /\ n \in Nat /\ o \in Nat /\ o \notin 1 .. n
      /\ o \in 1 .. o /\ \A i \in 1 .. o : i \in 1 .. n \/ i = o
  OBVIOUS
<1>2. IsFiniteSet(was) /\ StartOf(text, n) \in {0} \cup was /\ StartOf(text, n) \in 0 .. n
      /\ \A k \in {0} \cup was : k <= StartOf(text, n)
  BY <1>1, PlaceStands
<1>3. StartOf(text, o) \in {0} \cup now /\ StartOf(text, o) \in 0 .. o
      /\ \A k \in {0} \cup now : k <= StartOf(text, o)
  BY <1>1, PlaceStands
<1>4. CASE text[o] = "newline"
  <2>1. now = was \cup {o} /\ o \notin was
    BY <1>1, <1>4
  <2>2. LineAt(text, o) = LineAt(text, n) + 1
    <3> HIDE DEF now, was
    <3>1. LineAt(text, o) = Cardinality(now) /\ LineAt(text, n) = Cardinality(was)
      BY DEF LineAt, now, was
    <3> QED BY <1>2, <2>1, <3>1, FS_AddElement
  <2>3. StartOf(text, o) = o
    <3>1. o \in now
      BY <2>1
    <3>2. o <= StartOf(text, o)
      BY <1>3, <3>1
    <3> QED BY <1>1, <1>3, <3>2
  <2>4. InLine(text, o) = <<>>
    <3>1. InLine(text, o) = SubSeq(text, o + 1, o)
      BY <2>3 DEF InLine
    <3>2. o + 1 \in Int /\ o \in Int /\ o < o + 1
      BY <1>1
    <3> QED BY <3>1, <3>2, SubSeqEmpty
  <2> QED BY <1>4, <2>2, <2>3, <2>4
<1>5. CASE text[o] # "newline"
  <2>1. now = was
    BY <1>1, <1>5
  <2>2. LineAt(text, o) = LineAt(text, n)
    BY <2>1 DEF LineAt
  <2>3. StartOf(text, o) = StartOf(text, n)
    BY <2>1 DEF StartOf
  <2>4. InLine(text, o) = Append(InLine(text, n), text[o])
    <3> DEFINE a == StartOf(text, n) + 1
    <3>1. InLine(text, o) = SubSeq(text, a, o) /\ InLine(text, n) = SubSeq(text, a, n)
      BY <2>3 DEF InLine
    <3>2. a \in 1 .. o /\ o \in 1 .. Len(text)
      BY <1>1, <1>2
    <3> HIDE DEF a
    <3>3. SubSeq(text, a, o) = Append(SubSeq(text, a, n), text[o])
      <4>1. a \in 1 .. Len(text) /\ o \in a .. Len(text) /\ n = o - 1
        BY <3>2
      <4>2. SubSeq(text, a, o) = SubSeq(text, a, n) \o << text[o] >>
        BY <4>1, SubSeqRecursiveSecond
      <4>3. SubSeq(text, a, n) \in Seq(Char) /\ text[o] \in Char
        <5>1. \A i \in a .. n : text[i] \in Char
          BY <3>2
        <5>2. a \in Int /\ n \in Int
          BY <3>2
        <5> QED BY <3>2, <5>1, <5>2
      <4> DEFINE s == SubSeq(text, a, n)
                 e == text[o]
      <4>4. s \in Seq(Char) /\ e \in Char
        BY <4>3
      <4> HIDE DEF s, e
      <4>5. Append(s, e) = s \o <<e>>
        BY <4>4, AppendIsConcat
      <4> QED BY <4>2, <4>5 DEF s, e
    <3> QED BY <3>1, <3>3
  <2> QED BY <1>5, <2>2, <2>3, <2>4
<1> QED BY <1>4, <1>5

\* The lines lead to a place: they hold its line, which starts with what stands
\* before the place and starts at the byte it should.
Reaches(text, lines, i) ==
    /\ LineAt(text, i) <= Len(lines) - 1
    /\ \E rest \in Seq(Char) : lines[LineAt(text, i) + 1] = InLine(text, i) \o rest
    /\ Starting(lines)[LineAt(text, i)] = BytesIn(SubSeq(text, 1, StartOf(text, i)))

LEMMA ReachesStill ==
    ASSUME NEW text \in Seq(Char), NEW i \in 0 .. Len(text), NEW q \in Lines, NEW c \in Char,
           Reaches(text, q, i)
    PROVE  Reaches(text, Extended(q, c), i)
<1> DEFINE e == Extended(q, c)
           l == LineAt(text, i)
           a == InLine(text, i)
           m == Len(q) - 1
<1>1. /\ e \in Lines
      /\ c = "newline" => /\ Len(e) = Len(q) + 1 /\ e[Len(q) + 1] = <<>>
                          /\ \A k \in 1 .. Len(q) : e[k] = q[k]
      /\ c # "newline" => /\ Len(e) = Len(q) /\ e[Len(q)] = Append(q[Len(q)], c)
                          /\ \A k \in 1 .. Len(q) - 1 : e[k] = q[k]
  BY LinesExtend
<1>2. q \in Seq(Seq(Char)) /\ e \in Seq(Seq(Char)) /\ Len(q) \in Nat /\ Len(q) >= 1
  <2> DEFINE S == Seq(Char)
  <2> HIDE DEF e
  <2>1. q \in Seq(S) /\ e \in Seq(S) /\ q # <<>>
    BY <1>1 DEF Lines
  <2> HIDE DEF S
  <2>2. Len(q) \in Nat /\ Len(q) >= 1
    BY <2>1
  <2> QED BY <2>1, <2>2 DEF S
<1>3. l \in Nat /\ a \in Seq(Char)
  BY PlaceStands
<1> HIDE DEF e
<1>4. m \in Nat /\ m <= Len(q) /\ m <= Len(e) /\ \A k \in 1 .. m : q[k] = e[k]
  <2>1. CASE c = "newline"
    BY <1>1, <1>2, <2>1
  <2>2. CASE c # "newline"
    BY <1>1, <1>2, <2>2
  <2> QED BY <2>1, <2>2
<1>5. l <= m
  BY DEF Reaches
<1>6. Starting(q)[l] = Starting(e)[l]
  <2>1. \A k \in 0 .. m : Starting(q)[k] = Starting(e)[k]
    <3> HIDE DEF m
    <3> QED BY <1>2, <1>4, StartsAgree
  <2> QED BY <1>3, <1>5, <1>4, <2>1
<1>7. PICK rest \in Seq(Char) : q[l + 1] = a \o rest
  BY DEF Reaches
<1>8. \E more \in Seq(Char) : e[l + 1] = a \o more
  <2>1. CASE c = "newline" \/ l < m
    <3>1. e[l + 1] = q[l + 1]
      <4>1. CASE c = "newline"
        <5>1. l + 1 \in 1 .. Len(q)
          BY <1>2, <1>3, <1>5
        <5> QED BY <1>1, <4>1, <5>1
      <4>2. CASE l < m
        <5>1. l + 1 \in 1 .. m
          BY <1>2, <1>3, <4>2
        <5> QED BY <1>4, <5>1
      <4> QED BY <2>1, <4>1, <4>2
    <3> QED BY <1>7, <3>1
  <2>2. CASE c # "newline" /\ l = m
    <3>1. l + 1 = Len(q)
      BY <1>2, <2>2
    <3>2. e[l + 1] = Append(a \o rest, c)
      BY <1>1, <1>7, <2>2, <3>1
    <3> HIDE DEF a, l
    <3>3. Append(a \o rest, c) = a \o Append(rest, c) /\ Append(rest, c) \in Seq(Char)
      <4>1. rest \in Seq(Char) /\ a \in Seq(Char) /\ c \in Char
        BY <1>3
      <4>2. a \o rest \in Seq(Char) /\ Append(rest, c) \in Seq(Char) /\ <<c>> \in Seq(Char)
        BY <4>1
      <4>3. Append(a \o rest, c) = (a \o rest) \o <<c>> /\ Append(rest, c) = rest \o <<c>>
        BY <4>1, <4>2, AppendIsConcat
      <4>4. (a \o rest) \o <<c>> = a \o (rest \o <<c>>)
        BY <4>1, <4>2, ConcatAssociative
      <4> QED BY <4>2, <4>3, <4>4
    <3> QED BY <3>2, <3>3
  <2>3. l < m \/ l = m
    <3> HIDE DEF l, m
    <3> QED BY <1>3, <1>4, <1>5
  <2> HIDE DEF l, m
  <2> QED BY <2>1, <2>2, <2>3
<1>9. l <= Len(e) - 1
  BY <1>1, <1>2, <1>5, <1>3
<1> QED BY <1>6, <1>8, <1>9 DEF Reaches, e

\* After n characters the last line is the line of that place, and the lines
\* lead to every place so far.
Held(text, n) ==
    LET lines == Splitting(text)[n]
    IN  /\ Len(lines) = LineAt(text, n) + 1
        /\ lines[LineAt(text, n) + 1] = InLine(text, n)
        /\ \A i \in 0 .. n : Reaches(text, lines, i)

LEMMA HeldFirst ==
    ASSUME NEW text \in Seq(Char)
    PROVE  Held(text, 0)
<1> DEFINE lines == << <<>> >>
<1>1. Splitting(text)[0] = lines
  BY SplittingUnfolds
<1>2. LineAt(text, 0) = 0 /\ StartOf(text, 0) = 0 /\ InLine(text, 0) = <<>>
  BY FirstPlace
<1>3. Len(lines) = 1 /\ lines[1] = <<>> /\ lines \in Seq(Seq(Char))
  <2> DEFINE S == Seq(Char)
             none == <<>>
  <2>1. none \in S
    OBVIOUS
  <2> HIDE DEF S, none
  <2>2. Len(<<none>>) = 1 /\ <<none>>[1] = none /\ <<none>> \in Seq(S)
    BY <2>1
  <2> QED BY <2>2 DEF S, none
<1> HIDE DEF lines
<1>4. Starting(lines)[0] = 0
  BY <1>3, StartingUnfolds
<1>5. BytesIn(SubSeq(text, 1, 0)) = 0
  <2>1. SubSeq(text, 1, 0) = <<>>
    OBVIOUS
  <2> QED BY <2>1, CharWidths, TotalSteps DEF BytesIn
<1>6. Reaches(text, lines, 0)
  <2>1. <<>> = <<>> \o <<>> /\ <<>> \in Seq(Char)
    OBVIOUS
  <2>2. \E rest \in Seq(Char) : lines[LineAt(text, 0) + 1] = InLine(text, 0) \o rest
    BY <1>2, <1>3, <2>1
  <2>3. LineAt(text, 0) <= Len(lines) - 1
    BY <1>2, <1>3
  <2>4. Starting(lines)[LineAt(text, 0)] = BytesIn(SubSeq(text, 1, StartOf(text, 0)))
    BY <1>2, <1>4, <1>5
  <2> QED BY <2>2, <2>3, <2>4 DEF Reaches
<1>7. \A i \in 0 .. 0 : i = 0
  OBVIOUS
<1> QED BY <1>1, <1>2, <1>3, <1>6, <1>7 DEF Held

LEMMA HeldNext ==
    ASSUME NEW text \in Seq(Char), NEW n \in 0 .. (Len(text) - 1), Held(text, n), NEW o, o = n + 1
    PROVE  Held(text, o)
<1> DEFINE q == Splitting(text)[n]
           c == text[o]
           e == Extended(q, c)
           l == LineAt(text, n)
           a == InLine(text, n)
           start == StartOf(text, n)
<1>1. n \in Nat /\ n \in 0 .. Len(text) /\ o \in 1 .. Len(text) /\ o \in 0 .. Len(text) /\ n = o - 1 /\ c \in Char
  OBVIOUS
<1>2. q \in Lines /\ Splitting(text)[o] = e
  BY <1>1, SplittingUnfolds
<1>3. /\ e \in Lines
      /\ c = "newline" => /\ Len(e) = Len(q) + 1 /\ e[Len(q) + 1] = <<>>
                          /\ \A k \in 1 .. Len(q) : e[k] = q[k]
      /\ c # "newline" => /\ Len(e) = Len(q) /\ e[Len(q)] = Append(q[Len(q)], c)
                          /\ \A k \in 1 .. Len(q) - 1 : e[k] = q[k]
  <2> HIDE DEF q, c
  <2> QED BY <1>1, <1>2, LinesExtend
<1>4. Len(q) = l + 1 /\ q[l + 1] = a /\ \A i \in 0 .. n : Reaches(text, q, i)
  BY DEF Held
<1>5. /\ c = "newline" => LineAt(text, o) = l + 1 /\ StartOf(text, o) = o /\ InLine(text, o) = <<>>
      /\ c # "newline" => LineAt(text, o) = l /\ StartOf(text, o) = start /\ InLine(text, o) = Append(a, c)
  BY NextPlace
<1>6. l \in Nat /\ start \in 0 .. n /\ a \in Seq(Char) /\ InLine(text, o) \in Seq(Char)
      /\ LineAt(text, o) \in Nat
  BY <1>1, PlaceStands
<1>7. \A i \in 0 .. n : Reaches(text, e, i)
  <2>1. \A i \in 0 .. n : i \in 0 .. Len(text)
    BY <1>1
  <2> HIDE DEF q, c
  <2> QED BY <1>1, <1>2, <1>4, <2>1, ReachesStill
<1> HIDE DEF q, c, e, l, a, start
<1>8. Len(e) = LineAt(text, o) + 1 /\ e[LineAt(text, o) + 1] = InLine(text, o)
  <2>1. CASE c = "newline"
    BY <1>3, <1>4, <1>5, <1>6, <2>1
  <2>2. CASE c # "newline"
    BY <1>3, <1>4, <1>5, <1>6, <2>2
  <2> QED BY <2>1, <2>2
<1>9. e \in Seq(Seq(Char)) /\ q \in Seq(Seq(Char))
  BY <1>2, <1>3 DEF Lines
<1>10. Starting(e)[LineAt(text, o)] = BytesIn(SubSeq(text, 1, StartOf(text, o)))
  <2>0. Reaches(text, e, n)
    BY <1>1, <1>7
  <2>1. Starting(e)[l] = BytesIn(SubSeq(text, 1, start))
    BY <2>0 DEF Reaches, l, start
  <2>2. CASE c # "newline"
    BY <1>5, <2>1, <2>2
  <2>3. CASE c = "newline"
    <3>1. l + 1 \in 1 .. Len(e) /\ (l + 1) - 1 = l /\ e[l + 1] = a
      BY <1>3, <1>4, <1>6, <2>3
    <3>2. Starting(e)[l + 1] = Starting(e)[l] + BytesIn(a) + 1
      BY <1>9, <3>1, StartingUnfolds
    <3> DEFINE before == SubSeq(text, 1, start)
               up == SubSeq(text, 1, n)
    <3>3. before \in Seq(Char) /\ up \in Seq(Char) /\ before \o a = up
      <4>1. 1 \in 1 .. Len(text) + 1 /\ start \in 1 - 1 .. Len(text) /\ n \in start .. Len(text)
        BY <1>1, <1>6
      <4>2. SubSeq(text, 1, start) \o SubSeq(text, start + 1, n) = SubSeq(text, 1, n)
        BY <4>1, ConcatAdjacentSubSeq
      <4>3. a = SubSeq(text, start + 1, n)
        BY DEF a, start, InLine
      <4>4. before \in Seq(Char) /\ up \in Seq(Char)
        BY <1>1, <1>6
      <4> QED BY <4>2, <4>3, <4>4
    <3>4. SubSeq(text, 1, o) = Append(up, "newline")
      <4>1. text[o] = "newline"
        BY <2>3 DEF c
      <4>2. 1 \in 1 .. Len(text) /\ o \in 1 .. Len(text)
        BY <1>1
      <4>3. SubSeq(text, 1, o) = up \o << "newline" >>
        BY <1>1, <4>1, <4>2, SubSeqRecursiveSecond
      <4> QED BY <3>3, <4>3, CharWidths, AppendIsConcat
    <3> HIDE DEF before, up
    <3>5. BytesIn(up) = BytesIn(before) + BytesIn(a)
      BY <1>6, <3>3, CharWidths, TotalOfBoth DEF BytesIn
    <3>6. BytesIn(SubSeq(text, 1, o)) = BytesIn(up) + 1
      <4>1. Utf8 \in Widths(Char) /\ "newline" \in Char /\ Utf8["newline"] = 1
        BY CharWidths
      <4>2. Total(Utf8, Append(up, "newline")) = Total(Utf8, up) + Utf8["newline"]
        BY <3>3, <4>1, TotalSteps
      <4> QED BY <3>4, <4>1, <4>2 DEF BytesIn
    <3>7. BytesIn(before) \in Nat /\ BytesIn(a) \in Nat
      BY <1>6, <3>3, CharWidths, TotalSteps DEF BytesIn
    <3>8. Starting(e)[l] = BytesIn(before)
      BY <2>1 DEF before
    <3>9. Starting(e)[l + 1] = BytesIn(SubSeq(text, 1, o))
      BY <3>2, <3>5, <3>6, <3>7, <3>8
    <3> QED BY <1>5, <2>3, <3>9
  <2> QED BY <2>2, <2>3
<1>11. Reaches(text, e, o)
  <2>1. InLine(text, o) = InLine(text, o) \o <<>> /\ <<>> \in Seq(Char)
    BY <1>6, ConcatEmptySeq
  <2>2. \E rest \in Seq(Char) : e[LineAt(text, o) + 1] = InLine(text, o) \o rest
    BY <1>8, <2>1
  <2>3. LineAt(text, o) <= Len(e) - 1
    BY <1>6, <1>8
  <2> QED BY <1>10, <2>2, <2>3 DEF Reaches
<1>12. \A i \in 0 .. o : i \in 0 .. n \/ i = o
  BY <1>1
<1> QED BY <1>2, <1>7, <1>8, <1>11, <1>12 DEF Held

\* Build leads to every place of its text.
LEMMA BuildReaches ==
    ASSUME NEW text \in Seq(Char), NEW i \in 0 .. Len(text)
    PROVE  Reaches(text, Splitting(text)[Len(text)], i)
<1> DEFINE m == Len(text)
           T == {n \in 0 .. m : Held(text, n)}
<1>1. m \in Nat /\ 0 \in 0 .. m /\ m \in 0 .. m
  OBVIOUS
<1>2. 0 \in T
  BY <1>1, HeldFirst
<1>3. ASSUME NEW n \in 0 .. (m - 1), n \in T
      PROVE  n + 1 \in T
  <2>1. n + 1 \in 0 .. m /\ Held(text, n)
    BY <1>1, <1>3
  <2>2. Held(text, n + 1)
    BY <2>1, HeldNext
  <2> QED BY <2>1, <2>2
<1>4. 0 .. m \subseteq T
  <2> HIDE DEF T, m
  <2> QED BY ONLY <1>1, <1>2, <1>3, InductiveUpTo
<1>5. Held(text, m)
  BY <1>1, <1>4
<1> QED BY <1>5 DEF Held

\* The table is that of the two recursions.
LEMMA BuildTells ==
    ASSUME NEW text \in Seq(Char)
    PROVE  LET lines == Splitting(text)[Len(text)]
           IN  /\ lines \in Lines
               /\ Build(text).lines = lines
               /\ \A k \in 1 .. Len(lines) : Build(text).starts[k] = Starting(lines)[k - 1]
<1>1. Len(text) \in 0 .. Len(text)
  OBVIOUS
<1>2. Splitting(text)[Len(text)] \in Lines
  BY <1>1, SplittingUnfolds
<1>3. Build(text) = [lines |-> Splitting(text)[Len(text)],
                     starts |-> [k \in DOMAIN Splitting(text)[Len(text)] |->
                                    Starting(Splitting(text)[Len(text)])[k - 1]]]
  BY DEF Build, Splitting, Starting, Extended
<1> DEFINE lines == Splitting(text)[Len(text)]
<1>4. DOMAIN lines = 1 .. Len(lines)
  <2>1. lines \in Seq(Seq(Char))
    BY <1>2 DEF Lines
  <2> HIDE DEF lines
  <2> QED BY <2>1, LenProperties
<1> HIDE DEF lines
<1> QED BY <1>2, <1>3, <1>4 DEF lines

\* What stands before a column is read back from the line it starts.
LEMMA UntilHead ==
    ASSUME NEW a \in Seq(Char), NEW rest \in Seq(Char), NEW n \in 0 .. Len(a)
    PROVE  /\ Until(a \o rest, n) = SubSeq(a, 1, n)
           /\ n = Len(a) => Until(a \o rest, n) = a
<1> DEFINE line == a \o rest
<1>1. line \in Seq(Char) /\ Len(line) = Len(a) + Len(rest) /\ Len(a) \in Nat /\ Len(rest) \in Nat
  OBVIOUS
<1>2. \A i \in 1 .. Len(a) : line[i] = a[i]
  OBVIOUS
<1> HIDE DEF line
<1>3. Until(line, n) = SubSeq(line, 1, n)
  <2>1. n < Len(line) \/ n = Len(line)
    BY <1>1
  <2> QED BY <1>1, <2>1 DEF Until
<1>4. SubSeq(line, 1, n) = SubSeq(a, 1, n)
  BY <1>1, <1>2
<1>5. SubSeq(a, 1, Len(a)) = a
  BY SubSeqFull
<1> QED BY <1>3, <1>4, <1>5 DEF line

LEMMA ColumnReads ==
    ASSUME NEW a \in Seq(Char), NEW rest \in Seq(Char),
           NEW encoding \in {"utf8", "utf16", "utf32"}, NEW column,
           column = CASE encoding = "utf8" -> BytesIn(a)
                      [] encoding = "utf16" -> UnitsIn(a)
                      [] encoding = "utf32" -> Len(a)
    PROVE  ByteInLine(a \o rest, column, encoding) = BytesIn(a)
<1> DEFINE line == a \o rest
<1>1. line \in Seq(Char) /\ Len(line) = Len(a) + Len(rest) /\ Len(a) \in Nat /\ Len(rest) \in Nat
  OBVIOUS
<1>2. BytesIn(a) \in Nat /\ UnitsIn(a) \in Nat /\ BytesIn(a) >= Len(a) /\ UnitsIn(a) >= Len(a)
  BY CharWidths, TotalSteps, TotalIsLong DEF BytesIn, UnitsIn
<1>3. column \in Nat /\ column >= Len(a)
  BY <1>1, <1>2
<1>4. Until(line, Len(a)) = a /\ \A n \in 0 .. Len(a) : Until(line, n) = SubSeq(a, 1, n)
  <2>1. Len(a) \in 0 .. Len(a)
    BY <1>1
  <2> QED BY <2>1, UntilHead
<1>5. BytesIn(line) = BytesIn(a) + BytesIn(rest) /\ BytesIn(rest) \in Nat
  BY CharWidths, TotalSteps, TotalOfBoth DEF BytesIn
<1> HIDE DEF line
<1>6. CASE column <= 0
  <2>1. Len(a) = 0
    BY <1>1, <1>3, <1>6
  <2>2. a = <<>>
    BY <2>1
  <2>3. BytesIn(a) = 0
    BY <2>2, CharWidths, TotalSteps DEF BytesIn
  <2>4. ByteInLine(line, column, encoding) = 0
    <3>1. ~(column > 0)
      BY <1>3, <1>6
    <3> QED BY <1>6, <3>1, Zenon DEF ByteInLine
  <2> QED BY <2>3, <2>4 DEF line
<1>7. CASE column > 0 /\ encoding = "utf8"
  <2>1. column = BytesIn(a)
    BY <1>7
  <2>2. ByteInLine(line, column, encoding) = Min({column, BytesIn(line)})
    BY <1>3, <1>7 DEF ByteInLine
  <2> DEFINE b == BytesIn(line)
  <2>3. b \in Nat /\ column <= b
    BY <1>2, <1>5, <2>1
  <2> HIDE DEF b
  <2>4. Min({column, b}) = column
    BY <1>3, <2>3 DEF Min
  <2> QED BY <2>1, <2>2, <2>4 DEF b, line
<1>8. CASE column > 0 /\ encoding = "utf32"
  <2>1. column = Len(a)
    BY <1>8
  <2>2. ByteInLine(line, column, encoding) = BytesIn(Until(line, column))
    BY <1>3, <1>8 DEF ByteInLine
  <2> QED BY <1>4, <2>1, <2>2 DEF line
<1>9. CASE column > 0 /\ encoding = "utf16"
  <2> DEFINE P == {n \in 0 .. Len(line) : UnitsIn(Until(line, n)) >= column \/ n = Len(line)}
  <2>1. column = UnitsIn(a)
    BY <1>9
  <2>2. ByteInLine(line, column, encoding) = BytesIn(Until(line, Min(P)))
    BY <1>3, <1>9 DEF ByteInLine
  <2>3. Len(a) \in P
    BY <1>1, <1>2, <1>4, <2>1
  <2>4. ASSUME NEW n \in P
        PROVE  Len(a) <= n
    <3>1. n \in 0 .. Len(line) /\ (UnitsIn(Until(line, n)) >= column \/ n = Len(line))
      OBVIOUS
    <3> SUFFICES ASSUME n < Len(a) PROVE FALSE
      BY <1>1, <3>1
    <3>2. n \in 0 .. Len(a) /\ n # Len(line) /\ n \in Nat
      BY <1>1, <3>1
    <3> DEFINE b == SubSeq(a, 1, n)
               d == SubSeq(a, n + 1, Len(a))
    <3>3. b \in Seq(Char) /\ d \in Seq(Char) /\ Len(d) = Len(a) - n
      BY <1>1, <3>2
    <3>4. b \o d = a
      <4>1. 1 \in 1 .. Len(a) + 1 /\ n \in 1 - 1 .. Len(a) /\ Len(a) \in n .. Len(a)
        BY <1>1, <3>2
      <4>2. b \o d = SubSeq(a, 1, Len(a))
        BY <4>1, ConcatAdjacentSubSeq
      <4> QED BY <4>2, SubSeqFull
    <3>5. Until(line, n) = b
      BY <1>4, <3>2
    <3> HIDE DEF b, d
    <3>6. UnitsIn(a) = UnitsIn(b) + UnitsIn(d) /\ UnitsIn(b) \in Nat /\ UnitsIn(d) \in Nat
          /\ UnitsIn(d) >= Len(d)
      BY <3>3, <3>4, CharWidths, TotalSteps, TotalOfBoth, TotalIsLong DEF UnitsIn
    <3>7. UnitsIn(b) >= column
      BY <3>1, <3>2, <3>5
    <3> QED BY <1>1, <2>1, <3>2, <3>3, <3>6, <3>7
  <2>5. P \subseteq Nat
    OBVIOUS
  <2> HIDE DEF P
  <2>6. Min(P) = Len(a)
    BY <2>3, <2>4, <2>5 DEF Min
  <2> QED BY <1>4, <2>2, <2>6 DEF line
<1>10. column <= 0 \/ column > 0
  BY <1>3
<1> QED BY <1>6, <1>7, <1>8, <1>9, <1>10

\* The column of a place counts what stands before it in its line.
LEMMA ColumnCounts ==
    ASSUME NEW text \in Seq(Char), NEW i \in 0 .. Len(text), NEW encoding
    PROVE  ColumnAt(text, i, encoding) = CASE encoding = "utf8" -> BytesIn(InLine(text, i))
                                          [] encoding = "utf16" -> UnitsIn(InLine(text, i))
                                          [] encoding = "utf32" -> Len(InLine(text, i))
BY DEF ColumnAt, InLine, StartOf

\* Its line and its column lead to its byte.
LEMMA PlaceHasByte ==
    ASSUME NEW text \in Seq(Char), NEW i \in 0 .. Len(text),
           NEW encoding \in {"utf8", "utf16", "utf32"}
    PROVE  ByteOf(Build(text), LineAt(text, i), ColumnAt(text, i, encoding), encoding)
               = BytesIn(Until(text, i))
<1> DEFINE lines == Splitting(text)[Len(text)]
           l == LineAt(text, i)
           a == InLine(text, i)
           start == StartOf(text, i)
           column == ColumnAt(text, i, encoding)
           head == SubSeq(text, 1, start)
<1>1. /\ lines \in Lines /\ Build(text).lines = lines
      /\ \A k \in 1 .. Len(lines) : Build(text).starts[k] = Starting(lines)[k - 1]
  BY BuildTells
<1>2. Reaches(text, lines, i)
  BY BuildReaches
<1>3. /\ l <= Len(lines) - 1
      /\ Starting(lines)[l] = BytesIn(head)
      /\ \E rest \in Seq(Char) : lines[l + 1] = a \o rest
  BY <1>2 DEF Reaches
<1>4. PICK rest \in Seq(Char) : lines[l + 1] = a \o rest
  BY <1>3
<1>5. l \in Nat /\ a \in Seq(Char) /\ start \in 0 .. i
  BY PlaceStands
<1>6. head \in Seq(Char) /\ head \o a = Until(text, i)
  <2>1. 1 \in 1 .. Len(text) + 1 /\ start \in 1 - 1 .. Len(text) /\ i \in start .. Len(text)
    BY <1>5
  <2>2. SubSeq(text, 1, start) \o SubSeq(text, start + 1, i) = SubSeq(text, 1, i)
    BY <2>1, ConcatAdjacentSubSeq
  <2>3. head \in Seq(Char)
    BY <2>1
  <2>4. Until(text, i) = SubSeq(text, 1, i)
    <3>1. i < Len(text) \/ i = Len(text)
      OBVIOUS
    <3> QED BY <3>1 DEF Until
  <2> QED BY <2>2, <2>3, <2>4 DEF InLine
<1>7. column = CASE encoding = "utf8" -> BytesIn(a)
                 [] encoding = "utf16" -> UnitsIn(a)
                 [] encoding = "utf32" -> Len(a)
  BY ColumnCounts
<1> HIDE DEF lines, l, a, column, head
<1>8. ByteInLine(a \o rest, column, encoding) = BytesIn(a)
  BY <1>5, <1>7, ColumnReads
<1>9. Len(lines) \in Nat
  <2> DEFINE S == Seq(Char)
  <2>1. lines \in Seq(S)
    BY <1>1 DEF Lines
  <2> HIDE DEF S
  <2> QED BY <2>1
<1>10. l + 1 \in 1 .. Len(lines) /\ (l + 1) - 1 = l /\ ~(l < 0) /\ ~(l >= Len(lines))
  BY <1>3, <1>5, <1>9
<1>11. ByteOf(Build(text), l, column, encoding)
          = Build(text).starts[l + 1] + ByteInLine(Build(text).lines[l + 1], column, encoding)
  BY <1>1, <1>10 DEF ByteOf
<1>12. Build(text).starts[l + 1] = BytesIn(head)
  BY <1>1, <1>3, <1>10
<1>13. BytesIn(head \o a) = BytesIn(head) + BytesIn(a)
  BY <1>5, <1>6, CharWidths, TotalOfBoth DEF BytesIn
<1> QED BY <1>1, <1>4, <1>6, <1>8, <1>11, <1>12, <1>13 DEF l, column

LEMMA ColumnStands ==
    ASSUME NEW text \in Seq(Char), NEW i \in 0 .. Len(text),
           NEW encoding \in {"utf8", "utf16", "utf32"}
    PROVE  LineAt(text, i) \in Nat /\ ColumnAt(text, i, encoding) \in Nat
<1>1. LineAt(text, i) \in Nat /\ InLine(text, i) \in Seq(Char)
  BY PlaceStands
<1>2. /\ BytesIn(InLine(text, i)) \in Nat /\ UnitsIn(InLine(text, i)) \in Nat
      /\ Len(InLine(text, i)) \in Nat
  BY <1>1, CharWidths, TotalSteps DEF BytesIn, UnitsIn
<1> QED BY <1>1, <1>2, ColumnCounts

\* A zero that protobuf leaves out is read as the zero it was.
ReadsBack(a, b, c, d) ==
    /\ TypedRange(WithoutZeros(<<a, b, c, d>>), TRUE) = RangeAt(a, b, c, d)
    /\ TypedRange(WithoutZeros(<<a, b, d>>), FALSE) = RangeAt(a, b, a, d)

LEMMA ZerosReturn ==
    ASSUME NEW a \in Nat, NEW b \in Nat, NEW c \in Nat, NEW d \in Nat
    PROVE  ReadsBack(a, b, c, d)
<1> DEFINE long == <<a, b, c, d>>
           short == <<a, b, d>>
           one(v, n) == IF n \in DOMAIN WithoutZeros(v) THEN WithoutZeros(v)[n] ELSE 0
<1>1. DOMAIN long = 1 .. 4 /\ long[1] = a /\ long[2] = b /\ long[3] = c /\ long[4] = d
  OBVIOUS
<1>2. DOMAIN short = 1 .. 3 /\ short[1] = a /\ short[2] = b /\ short[3] = d
  OBVIOUS
<1>3. ASSUME NEW v, NEW n \in DOMAIN v
      PROVE  one(v, n) = v[n]
  BY DEF WithoutZeros
<1>4. /\ TypedRange(WithoutZeros(long), TRUE) = RangeAt(one(long, 1), one(long, 2), one(long, 3), one(long, 4))
      /\ TypedRange(WithoutZeros(short), FALSE) = RangeAt(one(short, 1), one(short, 2), one(short, 1), one(short, 3))
  BY DEF TypedRange
<1> HIDE DEF long, short, one
<1>5. one(long, 1) = a /\ one(long, 2) = b /\ one(long, 3) = c /\ one(long, 4) = d
  BY <1>1, <1>3
<1>6. one(short, 1) = a /\ one(short, 2) = b /\ one(short, 3) = d
  BY <1>2, <1>3
<1> QED BY <1>4, <1>5, <1>6 DEF long, short, ReadsBack

\* However an occurrence is written, it is read as its two places.
LEMMA ShapesAgree ==
    ASSUME NEW text \in Seq(Char), NEW i \in 0 .. Len(text), NEW j \in 0 .. Len(text),
           NEW encoding \in {"utf8", "utf16", "utf32"},
           NEW occurrence \in Occurrences(text, i, j, encoding)
    PROVE  RangeRead(occurrence) = RangeAt(LineAt(text, i), ColumnAt(text, i, encoding),
                                           LineAt(text, j), ColumnAt(text, j, encoding))
<1> DEFINE a == LineAt(text, i)
           b == ColumnAt(text, i, encoding)
           c == LineAt(text, j)
           d == ColumnAt(text, j, encoding)
           at == <<a, b, c, d>>
           short == <<a, b, d>>
           typed(v, multiline) == [fields |-> WithoutZeros(v), multiline |-> multiline]
<1>1. a \in Nat /\ b \in Nat /\ c \in Nat /\ d \in Nat
  BY ColumnStands
<1>2. \/ occurrence = [typed |-> NoRange, flat |-> at]
      \/ \E flat : occurrence = [typed |-> typed(at, TRUE), flat |-> flat]
      \/ a = c /\ occurrence = [typed |-> NoRange, flat |-> short]
      \/ a = c /\ \E flat : occurrence = [typed |-> typed(short, FALSE), flat |-> flat]
  <2>1. at[1] = a /\ at[3] = c /\ <<at[1], at[2], at[4]>> = short
    OBVIOUS
  <2>2. Occurrences(text, i, j, encoding)
           = {[typed |-> NoRange, flat |-> at], [typed |-> typed(at, TRUE), flat |-> <<>>],
              [typed |-> typed(at, TRUE), flat |-> <<0, 0, 0>>]}
             \cup IF a # c THEN {}
                  ELSE {[typed |-> NoRange, flat |-> short],
                        [typed |-> typed(short, FALSE), flat |-> at]}
    BY <2>1 DEF Occurrences
  <2> HIDE DEF a, b, c, d, at, short, typed
  <2> QED BY <2>2
<1>3. TypedRange(WithoutZeros(at), TRUE) = RangeAt(a, b, c, d)
      /\ TypedRange(WithoutZeros(short), FALSE) = RangeAt(a, b, a, d)
  <2> HIDE DEF a, b, c, d
  <2>1. ReadsBack(a, b, c, d)
    BY <1>1, ZerosReturn
  <2> QED BY <2>1, Zenon DEF ReadsBack
<1>4. DeprecatedRange(at) = RangeAt(a, b, c, d) /\ DeprecatedRange(short) = RangeAt(a, b, a, d)
  <2> HIDE DEF a, b, c, d
  <2>1. Len(at) = 4 /\ at[1] = a /\ at[2] = b /\ at[3] = c /\ at[4] = d
    OBVIOUS
  <2>2. Len(short) = 3 /\ short[1] = a /\ short[2] = b /\ short[3] = d
    OBVIOUS
  <2> HIDE DEF at, short
  <2> QED BY <2>1, <2>2 DEF DeprecatedRange
<1>5. ASSUME NEW v, NEW multiline
      PROVE  typed(v, multiline) # NoRange
  <2>1. DOMAIN typed(v, multiline) = {"fields", "multiline"} /\ DOMAIN NoRange = {}
    BY DEF NoRange
  <2> QED BY <2>1
<1>6. ASSUME NEW v, NEW multiline, NEW flat
      PROVE  /\ RangeRead([typed |-> typed(v, multiline), flat |-> flat])
                    = TypedRange(WithoutZeros(v), multiline)
             /\ RangeRead([typed |-> NoRange, flat |-> v]) = DeprecatedRange(v)
  <2>1. typed(v, multiline).fields = WithoutZeros(v) /\ typed(v, multiline).multiline = multiline
    OBVIOUS
  <2> DEFINE t == typed(v, multiline)
  <2>2. t # NoRange
    BY <1>5
  <2> HIDE DEF typed, t
  <2>3. RangeRead([typed |-> t, flat |-> flat]) = TypedRange(t.fields, t.multiline)
    BY <2>2 DEF RangeRead
  <2>4. RangeRead([typed |-> NoRange, flat |-> v]) = DeprecatedRange(v)
    BY DEF RangeRead
  <2> QED BY <2>1, <2>3, <2>4 DEF t
<1> HIDE DEF a, b, c, d, at, short, typed
<1> QED BY <1>2, <1>3, <1>4, <1>6 DEF a, b, c, d

\* What stands before a place takes no fewer bytes than what stands before one
\* ahead of it.
LEMMA BytesGrow ==
    ASSUME NEW text \in Seq(Char), NEW j \in 0 .. Len(text), NEW i \in 0 .. j
    PROVE  /\ BytesIn(Until(text, i)) \in Nat /\ BytesIn(Until(text, j)) \in Nat
           /\ BytesIn(Until(text, i)) <= BytesIn(Until(text, j))
<1>1. \A n \in 0 .. Len(text) : Until(text, n) = SubSeq(text, 1, n)
  <2>1. \A n \in 0 .. Len(text) : n < Len(text) \/ n = Len(text)
    OBVIOUS
  <2> QED BY <2>1 DEF Until
<1> DEFINE a == SubSeq(text, 1, i)
           b == SubSeq(text, i + 1, j)
           all == SubSeq(text, 1, j)
<1>2. a \in Seq(Char) /\ b \in Seq(Char) /\ all \in Seq(Char)
  OBVIOUS
<1>3. a \o b = all
  <2>1. 1 \in 1 .. Len(text) + 1 /\ i \in 1 - 1 .. Len(text) /\ j \in i .. Len(text)
    OBVIOUS
  <2> QED BY <2>1, ConcatAdjacentSubSeq
<1>4. Until(text, i) = a /\ Until(text, j) = all
  BY <1>1
<1> HIDE DEF a, b, all
<1>5. BytesIn(all) = BytesIn(a) + BytesIn(b) /\ BytesIn(a) \in Nat /\ BytesIn(b) \in Nat
  BY <1>2, <1>3, CharWidths, TotalSteps, TotalOfBoth DEF BytesIn
<1> QED BY <1>4, <1>5

\* What an indexer writes of an occurrence, in any of the shapes of _occurrence and
\* in any encoding, Offsets reads as the bytes before the one place and before the
\* other: of a text of any length, with any characters and lines.
THEOREM RangeReaches ==
    ASSUME NEW text \in Seq(Char), NEW encoding \in {"utf8", "utf16", "utf32"},
           NEW j \in 0 .. Len(text), NEW i \in 0 .. j,
           NEW occurrence \in Occurrences(text, i, j, encoding)
    PROVE  SpanOf(Build(text), RangeRead(occurrence), encoding)
               = <<BytesIn(Until(text, i)), BytesIn(Until(text, j))>>
<1> DEFINE range == RangeAt(LineAt(text, i), ColumnAt(text, i, encoding),
                            LineAt(text, j), ColumnAt(text, j, encoding))
           table == Build(text)
           x == BytesIn(Until(text, i))
           y == BytesIn(Until(text, j))
<1>1. i \in 0 .. Len(text)
  OBVIOUS
<1>2. RangeRead(occurrence) = range
  BY <1>1, ShapesAgree
<1>3. /\ range.start_line = LineAt(text, i) /\ range.start_char = ColumnAt(text, i, encoding)
      /\ range.end_line = LineAt(text, j) /\ range.end_char = ColumnAt(text, j, encoding)
  BY DEF RangeAt
<1>4. /\ ByteOf(table, LineAt(text, i), ColumnAt(text, i, encoding), encoding) = x
      /\ ByteOf(table, LineAt(text, j), ColumnAt(text, j, encoding), encoding) = y
  BY <1>1, PlaceHasByte
<1>5. x \in Nat /\ y \in Nat /\ x <= y
  BY BytesGrow
<1> HIDE DEF range, table, x, y
<1>6. SpanOf(table, range, encoding) = <<x, Max({x, y})>>
  BY <1>3, <1>4 DEF SpanOf
<1>7. Max({x, y}) = y
  BY <1>5 DEF Max
<1> QED BY <1>2, <1>6, <1>7 DEF table, x, y

\* RangesReachTheirBytes, the encoding declared or known by the tool.
THEOREM RangesMeetBytes == Spec => []RangesReachTheirBytes
<1>1. RangesReachTheirBytes
  <2> SUFFICES ASSUME NEW text \in SeqOf(Char, 3), NEW counted \in {"utf8", "utf16", "utf32"},
                      NEW meta \in [tool : {"scip-go", "scip-python"}, declared : {"unspecified", counted}],
                      meta.declared = counted \/ DefaultEncoding[meta.tool] = counted,
                      NEW j \in 0 .. Len(text), NEW i \in 0 .. j,
                      NEW occurrence \in Occurrences(text, i, j, counted)
               PROVE  SpanOf(Build(text), RangeRead(occurrence), EncodingFor(meta.tool, meta.declared))
                        = <<BytesIn(Until(text, i)), BytesIn(Until(text, j))>>
    BY DEF RangesReachTheirBytes
  <2>1. text \in Seq(Char)
    <3>1. PICK n \in 0 .. 3 : text \in [1 .. n -> Char]
      BY DEF SeqOf
    <3> QED BY <3>1, SeqDef
  <2>2. EncodingFor(meta.tool, meta.declared) = counted
    <3>1. CASE meta.declared = counted
      <4>1. counted # "unspecified"
        OBVIOUS
      <4> QED BY <3>1, <4>1 DEF EncodingFor
    <3>2. CASE meta.declared # counted
      <4>1. meta.declared = "unspecified" /\ meta.tool \in {"scip-go", "scip-python"}
        BY <3>2
      <4>2. meta.tool \in DOMAIN DefaultEncoding
        BY <4>1 DEF DefaultEncoding
      <4> QED BY <3>2, <4>1, <4>2 DEF EncodingFor
    <3> QED BY <3>1, <3>2
  <2> QED BY <2>1, <2>2, RangeReaches
<1> QED BY <1>1, PTL

----------------------------------------------------------------------------
(* An import meets its file.                                               *)

\* The directories two paths share.
LEMMA SharedHead ==
    ASSUME NEW S, NEW d \in Seq(S), NEW e \in Seq(S)
    PROVE  /\ Shared(d, e) \in Seq(S)
           /\ Len(Shared(d, e)) \in 0 .. Len(d) /\ Len(Shared(d, e)) \in 0 .. Len(e)
           /\ Shared(d, e) = SubSeq(d, 1, Len(Shared(d, e)))
           /\ Shared(d, e) = SubSeq(e, 1, Len(Shared(d, e)))
<1> DEFINE C == CommonPrefixes({d, e})
           T == {Len(x) : x \in C}
<1>1. C = {x \in Prefixes(d) \cup Prefixes(e) : IsPrefix(x, d) /\ IsPrefix(x, e)}
  BY DEF CommonPrefixes
<1>2. ASSUME NEW s \in Seq(S), NEW x \in Prefixes(s)
      PROVE  x \in Seq(S)
  <2>1. x = <<>> \/ \E l \in 1 .. Len(s) : x = SubSeq(s, 1, l)
    BY DEF Prefixes
  <2>2. <<>> \in Seq(S) /\ \A l \in 1 .. Len(s) : SubSeq(s, 1, l) \in Seq(S)
    OBVIOUS
  <2> QED BY <2>1, <2>2
<1>3. ASSUME NEW x \in C
      PROVE  /\ x \in Seq(S) /\ Len(x) \in 0 .. Len(d) /\ Len(x) \in 0 .. Len(e)
             /\ x = SubSeq(d, 1, Len(x)) /\ x = SubSeq(e, 1, Len(x))
  <2>1. x \in Seq(S) /\ IsPrefix(x, d) /\ IsPrefix(x, e)
    BY <1>1, <1>2
  <2>2. SubSeq(x, 1, Len(x)) = x
    BY <2>1, SubSeqFull
  <2>3. Len(x) \in Nat /\ Len(x) <= Len(d) /\ Len(x) <= Len(e)
    BY <2>1 DEF IsPrefix
  <2> QED BY <2>1, <2>2, <2>3 DEF IsPrefix
<1>4. <<>> \in C
  <2>1. Len(<<>>) = 0 /\ SubSeq(<<>>, 1, 0) = <<>> /\ SubSeq(d, 1, 0) = <<>> /\ SubSeq(e, 1, 0) = <<>>
    OBVIOUS
  <2>2. IsPrefix(<<>>, d) /\ IsPrefix(<<>>, e)
    BY <2>1 DEF IsPrefix
  <2>3. <<>> \in Prefixes(d)
    BY DEF Prefixes
  <2> QED BY <1>1, <2>2, <2>3
<1> HIDE DEF C
<1>5. T \in SUBSET (0 .. Len(d)) /\ T # {} /\ Len(d) \in Nat
  BY <1>3, <1>4
<1>6. PICK t \in T : \A y \in T : y <= t
  <2> HIDE DEF T
  <2> QED BY <1>5, Greatest
<1>7. \E longest \in C : \A other \in C : Len(other) <= Len(longest)
  BY <1>6
<1>8. Shared(d, e) \in C
  BY <1>7 DEF Shared, LongestCommonPrefix, C
<1> QED BY <1>3, <1>8

\* What build directories are called.
RootSegments == {"src", "main", "test", "app", "lib", "java", "kotlin", "scala", "resources"}

LEMMA Tuples ==
    ASSUME NEW S, NEW x \in S, NEW y \in S, NEW z \in S, NEW w \in S
    PROVE  /\ <<x>> \in Seq(S) /\ Len(<<x>>) = 1 /\ <<x>>[1] = x
           /\ <<x, y, z>> \in Seq(S) /\ Len(<<x, y, z>>) = 3 /\ <<x, y, z>>[3] = z
           /\ <<x, y, z, w>> \in Seq(S) /\ Len(<<x, y, z, w>>) = 4 /\ <<x, y, z, w>>[4] = w
OBVIOUS

LEMMA RootsStand ==
    \A r \in SourceRoots : /\ r \in Seq(RootSegments) /\ Len(r) \in Nat /\ Len(r) >= 1
                           /\ r[Len(r)] \notin PackageInit
<1> DEFINE good(r) == /\ r \in Seq(RootSegments) /\ Len(r) \in Nat /\ Len(r) >= 1
                      /\ r[Len(r)] \in RootSegments
<1>1. ASSUME NEW r \in SourceRoots
      PROVE  \/ \E l \in RootSegments : r = <<"src", "main", l>>
             \/ \E l \in RootSegments : r = <<"src", "test", l>>
             \/ \E l \in RootSegments : r = <<"app", "src", "main", l>>
             \/ r = <<"src">> \/ r = <<"lib">>
  BY DEF SourceRoots, RootSegments
<1>2. ASSUME NEW l \in RootSegments
      PROVE  /\ good(<<"src", "main", l>>) /\ good(<<"src", "test", l>>)
             /\ good(<<"app", "src", "main", l>>) /\ good(<<l>>)
  <2> DEFINE src == "src"
             main == "main"
             test == "test"
             app == "app"
  <2>1. src \in RootSegments /\ main \in RootSegments /\ test \in RootSegments /\ app \in RootSegments
    BY DEF RootSegments
  <2> HIDE DEF src, main, test, app
  <2>2. /\ <<l>> \in Seq(RootSegments) /\ Len(<<l>>) = 1 /\ <<l>>[1] = l
        /\ <<src, main, l>> \in Seq(RootSegments) /\ Len(<<src, main, l>>) = 3 /\ <<src, main, l>>[3] = l
    BY <2>1, Tuples
  <2>3. <<src, test, l>> \in Seq(RootSegments) /\ Len(<<src, test, l>>) = 3 /\ <<src, test, l>>[3] = l
    BY <2>1, Tuples
  <2>4. /\ <<app, src, main, l>> \in Seq(RootSegments) /\ Len(<<app, src, main, l>>) = 4
        /\ <<app, src, main, l>>[4] = l
    BY <2>1, Tuples
  <2>5. good(<<src, main, l>>) /\ good(<<src, test, l>>) /\ good(<<app, src, main, l>>) /\ good(<<l>>)
    BY <2>2, <2>3, <2>4
  <2> QED BY <2>5 DEF src, main, test, app
<1>3. "src" \in RootSegments /\ "lib" \in RootSegments /\ \A l \in RootSegments : l \notin PackageInit
  BY DEF PackageInit, RootSegments
<1> HIDE DEF good
<1>4. \A r \in SourceRoots : good(r)
  BY <1>1, <1>2, <1>3
<1> QED BY <1>3, <1>4 DEF good

\* The longest build directory that opens a path has s segments.
RootEnds(d, s) ==
    /\ s \in 0 .. Len(d)
    /\ s = 0 \/ \E r \in SourceRoots : IsPrefix(r, d) /\ Len(r) = s
    /\ \A r \in SourceRoots : IsPrefix(r, d) => Len(r) <= s

LEMMA RootIsThere ==
    ASSUME NEW S, NEW d \in Seq(S)
    PROVE  \E s \in 0 .. Len(d) : RootEnds(d, s)
<1> DEFINE T == {0} \cup {Len(r) : r \in {q \in SourceRoots : IsPrefix(q, d)}}
<1>1. Len(d) \in Nat
  OBVIOUS
<1>2. T \in SUBSET (0 .. Len(d)) /\ T # {}
  BY <1>1, RootsStand DEF IsPrefix
<1>3. PICK s \in T : \A y \in T : y <= s
  <2> HIDE DEF T
  <2> QED BY <1>1, <1>2, Greatest
<1>4. RootEnds(d, s)
  BY <1>2, <1>3 DEF RootEnds
<1> QED BY <1>2, <1>4

LEMMA RootIsStripped ==
    ASSUME NEW S, NEW d \in Seq(S), NEW s, RootEnds(d, s)
    PROVE  StripSourceRoot(d) = SubSeq(d, s + 1, Len(d))
<1> DEFINE held == {r \in SourceRoots : IsPrefix(r, d)}
<1>1. \A r \in held : Len(r) \in Nat /\ Len(r) >= 1 /\ Len(r) <= s
  BY RootsStand DEF RootEnds
<1>2. s \in Nat /\ (s = 0 \/ \E r \in held : Len(r) = s)
  BY DEF RootEnds
<1>3. CASE held = {}
  <2>1. s = 0
    BY <1>2, <1>3
  <2>2. StripSourceRoot(d) = d
    BY <1>3 DEF StripSourceRoot
  <2>3. SubSeq(d, 1, Len(d)) = d
    BY SubSeqFull
  <2> QED BY <2>1, <2>2, <2>3
<1>4. CASE held # {}
  <2> DEFINE root == CHOOSE r \in held : \A q \in held : Len(q) <= Len(r)
  <2>1. StripSourceRoot(d) = SubSeq(d, Len(root) + 1, Len(d))
    BY <1>4 DEF StripSourceRoot
  <2> HIDE DEF held
  <2>2. \E r \in held : Len(r) = s
    BY <1>1, <1>2, <1>4
  <2>3. \E r \in held : \A q \in held : Len(q) <= Len(r)
    BY <1>1, <2>2
  <2>4. root \in held /\ \A q \in held : Len(q) <= Len(root)
    BY <2>3
  <2> HIDE DEF root
  <2>5. Len(root) = s
    BY <1>1, <1>2, <2>2, <2>4
  <2> QED BY <2>1, <2>5
<1> QED BY <1>3, <1>4

\* What a compiler calls the package of a directory is what stripping leaves.
LEMMA PackageIsStripped ==
    ASSUME NEW S, NEW d \in Seq(S), NEW s, RootEnds(d, s)
    PROVE  /\ PackageOf(d) = SubSeq(d, s + 1, Len(d))
           /\ Len(PackageOf(d)) = Len(d) - s
<1> DEFINE from(r) == SubSeq(d, Len(r) + 1, Len(d))
           some == {q \in SourceRoots \cup {<<>>} : IsPrefix(q, d)}
           below == {from(r) : r \in some}
           best == SubSeq(d, s + 1, Len(d))
<1>1. Len(d) \in Nat /\ s \in 0 .. Len(d)
  BY DEF RootEnds
<1>2. \A r \in some : Len(r) \in 0 .. s /\ Len(from(r)) = Len(d) - Len(r)
  <2>1. ASSUME NEW r \in some
        PROVE  Len(r) \in 0 .. s
    <3>1. CASE r = <<>>
      BY <1>1, <3>1
    <3>2. CASE r \in SourceRoots
      BY <3>2, <1>1, RootsStand DEF RootEnds
    <3> QED BY <3>1, <3>2
  <2>2. \A n \in 0 .. s : Len(SubSeq(d, n + 1, Len(d))) = Len(d) - n
    BY <1>1
  <2> QED BY <2>1, <2>2
<1>3. \E r \in some : Len(r) = s
  <2>1. CASE s = 0
    <3>1. Len(<<>>) = 0 /\ SubSeq(<<>>, 1, 0) = <<>> /\ SubSeq(d, 1, 0) = <<>>
      OBVIOUS
    <3>2. IsPrefix(<<>>, d)
      BY <1>1, <3>1 DEF IsPrefix
    <3> QED BY <2>1, <3>1, <3>2
  <2>2. CASE s # 0
    BY <2>2 DEF RootEnds
  <2> QED BY <2>1, <2>2
<1>4. best \in below /\ Len(best) = Len(d) - s
  BY <1>1, <1>2, <1>3
<1>5. PackageOf(d) = CHOOSE u \in below : \A t \in below : Len(u) <= Len(t)
  BY DEF PackageOf
<1> HIDE DEF some
<1>6. \A t \in below : Len(best) <= Len(t)
  BY <1>1, <1>2, <1>4
<1>7. PackageOf(d) \in below /\ Len(PackageOf(d)) <= Len(best)
  <2> HIDE DEF below, best
  <2> QED BY <1>4, <1>5, <1>6
<1>8. PICK r \in some : PackageOf(d) = from(r)
  BY <1>7
<1>9. Len(r) = s
  <2> HIDE DEF best, from
  <2>1. Len(PackageOf(d)) = Len(d) - Len(r) /\ Len(r) \in 0 .. s
    BY <1>2, <1>8
  <2> QED BY <1>1, <1>4, <1>7, <2>1
<1> QED BY <1>4, <1>8, <1>9

\* A build directory within what two paths share opens both.
LEMMA RootsCarry ==
    ASSUME NEW S, NEW d \in Seq(S), NEW e \in Seq(S), NEW s, NEW r, NEW c \in Nat,
           c <= Len(d), c <= Len(e), SubSeq(d, 1, c) = SubSeq(e, 1, c),
           RootEnds(d, s), RootEnds(e, r), s <= c
    PROVE  s <= r
<1>1. s \in Nat /\ r \in Nat /\ Len(d) \in Nat /\ Len(e) \in Nat
  BY DEF RootEnds
<1>2. CASE s = 0
  BY <1>1, <1>2
<1>3. CASE s # 0
  <2>1. PICK root \in SourceRoots : IsPrefix(root, d) /\ Len(root) = s
    BY <1>3 DEF RootEnds
  <2>2. SubSeq(d, 1, s) = SubSeq(e, 1, s)
    <3>1. \A i \in 1 .. c : SubSeq(d, 1, c)[i] = d[i] /\ SubSeq(e, 1, c)[i] = e[i]
      OBVIOUS
    <3>2. \A i \in 1 .. s : d[i] = e[i]
      BY <1>1, <3>1
    <3>3. s <= Len(d) /\ s <= Len(e)
      BY <1>1
    <3> QED BY <1>1, <3>2, <3>3
  <2>3. IsPrefix(root, e)
    BY <1>1, <2>1, <2>2 DEF IsPrefix
  <2> QED BY <2>1, <2>3 DEF RootEnds
<1> QED BY <1>2, <1>3

\* A climb to what two directories share and down again names the second one.
Climbs(d, e, r, s, c, up, kept) ==
    /\ RootEnds(d, r) /\ RootEnds(e, s) /\ c = Len(Shared(d, e))
    /\ s <= c /\ (r <= c \/ s = c) /\ up = Len(d) - c
    /\ kept = IF up > Len(StripSourceRoot(d)) THEN 0 ELSE Len(StripSourceRoot(d)) - up
Reached(d, e, s, kept) ==
    SubSeq(StripSourceRoot(d), 1, kept) \o Beyond(d, e) = SubSeq(e, s + 1, Len(e))

LEMMA ClimbsBack ==
    ASSUME NEW S, NEW d \in Seq(S), NEW e \in Seq(S), NEW r, NEW s, NEW c, NEW up, NEW kept,
           Climbs(d, e, r, s, c, up, kept)
    PROVE  Reached(d, e, s, kept)
<1> USE DEF Climbs, Reached
<1> DEFINE parts == SubSeq(d, r + 1, Len(d))
<1>1. /\ c \in 0 .. Len(d) /\ c \in 0 .. Len(e)
      /\ Shared(d, e) = SubSeq(d, 1, c) /\ Shared(d, e) = SubSeq(e, 1, c)
  BY SharedHead
<1>2. r \in 0 .. Len(d) /\ s \in 0 .. Len(e) /\ Len(d) \in Nat /\ Len(e) \in Nat
  BY DEF RootEnds
<1>3. StripSourceRoot(d) = parts
  BY RootIsStripped
<1>4. parts \in Seq(S) /\ Len(parts) = Len(d) - r
  BY <1>2
<1>5. Beyond(d, e) = SubSeq(e, c + 1, Len(e))
  BY DEF Beyond
<1> DEFINE m == Len(d)
<1>8. kept = IF m - c > m - r THEN 0 ELSE (m - r) - (m - c)
  BY <1>3, <1>4
<1> HIDE DEF m
<1>9. m \in Nat /\ c \in 0 .. m /\ r \in 0 .. m
  BY <1>1, <1>2 DEF m
<1>6. CASE r <= c
  <2>1. r = s
    <3>1. c \in Nat /\ c <= Len(d) /\ c <= Len(e) /\ SubSeq(d, 1, c) = SubSeq(e, 1, c)
      BY <1>1, <1>2
    <3>2. s <= r
      BY <3>1, RootsCarry
    <3>3. r <= s
      BY <1>6, <3>1, RootsCarry
    <3> QED BY <1>2, <3>2, <3>3
  <2>2. kept = c - r
    BY ONLY <1>6, <1>8, <1>9
  <2>3. SubSeq(parts, 1, kept) = SubSeq(e, s + 1, c)
    <3>1. \A i \in 1 .. c : SubSeq(d, 1, c)[i] = d[i] /\ SubSeq(e, 1, c)[i] = e[i]
      BY <1>1
    <3>2. \A i \in 1 .. c : d[i] = e[i]
      BY <1>1, <3>1
    <3>3. SubSeq(parts, 1, kept) = SubSeq(d, r + 1, c)
      BY <1>1, <1>2, <1>6, <2>2
    <3>4. SubSeq(d, r + 1, c) = SubSeq(e, r + 1, c)
      BY <1>1, <1>2, <1>6, <3>2
    <3> QED BY <2>1, <3>3, <3>4
  <2>4. SubSeq(e, s + 1, c) \o SubSeq(e, c + 1, Len(e)) = SubSeq(e, s + 1, Len(e))
    <3>1. s + 1 \in 1 .. Len(e) + 1 /\ c \in (s + 1) - 1 .. Len(e) /\ Len(e) \in c .. Len(e)
      BY <1>1, <1>2
    <3> QED BY <3>1, ConcatAdjacentSubSeq
  <2> QED BY <1>3, <1>5, <2>3, <2>4
<1>7. CASE ~(r <= c)
  <2>1. kept = 0
    BY ONLY <1>7, <1>8, <1>9
  <2>5. s = c
    BY <1>7
  <2>2. SubSeq(parts, 1, 0) = <<>>
    OBVIOUS
  <2>3. SubSeq(e, c + 1, Len(e)) \in Seq(S)
    BY <1>1, <1>2
  <2>4. <<>> \o SubSeq(e, c + 1, Len(e)) = SubSeq(e, c + 1, Len(e))
    BY <2>3, ConcatEmptySeq
  <2> QED BY <1>3, <1>5, <2>1, <2>2, <2>4, <2>5
<1> QED BY <1>6, <1>7

\* What a path is called: its stem below its directory's build directory.
Below(parts) == IF StripSourceRoot(parts) = <<>> THEN parts ELSE StripSourceRoot(parts)

LEMMA NamedBelow ==
    ASSUME NEW S, NEW d \in Seq(S), NEW x \in S, NEW s, RootEnds(d, s),
           Append(d, x) \in SourceRoots => d = <<>>
    PROVE  Below(Append(d, x)) = Append(SubSeq(d, s + 1, Len(d)), x)
<1> DEFINE parts == Append(d, x)
           m == Len(d)
<1>1. /\ parts \in Seq(S) /\ Len(parts) = m + 1 /\ m \in Nat /\ parts[m + 1] = x
      /\ \A i \in 1 .. m : parts[i] = d[i]
  OBVIOUS
<1>2. s \in 0 .. m
  BY DEF RootEnds
<1> HIDE DEF parts, m
<1>3. CASE parts \in SourceRoots
  <2>1. m = 0 /\ d = <<>>
    BY <1>3 DEF parts, m
  <2>2. IsPrefix(parts, parts) /\ Len(parts) = 1
    BY <1>1, <2>1 DEF IsPrefix
  <2>3. \A r \in SourceRoots : IsPrefix(r, parts) => Len(r) <= 1
    BY <2>2 DEF IsPrefix
  <2>4. RootEnds(parts, 1)
    BY <1>3, <2>2, <2>3 DEF RootEnds
  <2>5. StripSourceRoot(parts) = SubSeq(parts, 1 + 1, Len(parts))
    BY <1>1, <2>4, RootIsStripped
  <2>6. StripSourceRoot(parts) = <<>>
    BY <2>2, <2>5, SubSeqEmpty
  <2>7. s = 0 /\ SubSeq(d, 0 + 1, m) = d
    <3>1. SubSeq(d, 1, Len(d)) = d
      BY SubSeqFull
    <3> QED BY <1>2, <2>1, <3>1 DEF m
  <2> QED BY <2>6, <2>7 DEF Below, parts, m
<1>4. CASE parts \notin SourceRoots
  <2>1. \A n \in 0 .. m : SubSeq(parts, 1, n) = SubSeq(d, 1, n)
    BY <1>1 DEF m
  <2>2. ASSUME NEW r \in SourceRoots, IsPrefix(r, parts)
        PROVE  IsPrefix(r, d)
    <3>1. r \in Seq(RootSegments) /\ Len(r) \in Nat
      BY RootsStand
    <3>2. Len(r) <= m + 1 /\ SubSeq(r, 1, Len(r)) = SubSeq(parts, 1, Len(r))
      BY <1>1, <2>2 DEF IsPrefix
    <3>3. Len(r) # m + 1
      <4> SUFFICES ASSUME Len(r) = Len(parts) PROVE FALSE
        BY <1>1
      <4>1. r = parts
        BY <1>1, <3>1, <3>2, SubSeqFull
      <4> QED BY <1>4, <4>1
    <3>4. Len(r) \in 0 .. m
      BY <1>1, <3>1, <3>2, <3>3
    <3> QED BY <2>1, <3>2, <3>4 DEF IsPrefix, m
  <2>3. \A r \in SourceRoots : IsPrefix(r, d) => IsPrefix(r, parts)
    <3> SUFFICES ASSUME NEW r \in SourceRoots, IsPrefix(r, d)
                 PROVE  IsPrefix(r, parts)
      OBVIOUS
    <3>1. Len(r) \in Nat /\ Len(r) <= m /\ SubSeq(r, 1, Len(r)) = SubSeq(d, 1, Len(r))
      BY RootsStand DEF IsPrefix, m
    <3>2. Len(r) \in 0 .. m
      BY <1>1, <3>1
    <3> QED BY <1>1, <2>1, <3>1, <3>2 DEF IsPrefix
  <2>4. RootEnds(parts, s)
    <3>1. s \in 0 .. Len(parts)
      BY <1>1, <1>2
    <3>2. s = 0 \/ \E r \in SourceRoots : IsPrefix(r, parts) /\ Len(r) = s
      BY <2>3 DEF RootEnds
    <3>3. \A r \in SourceRoots : IsPrefix(r, parts) => Len(r) <= s
      BY <2>2 DEF RootEnds
    <3> QED BY <3>1, <3>2, <3>3 DEF RootEnds
  <2>5. StripSourceRoot(parts) = SubSeq(parts, s + 1, m + 1)
    BY <1>1, <2>4, RootIsStripped
  <2>6. SubSeq(parts, s + 1, m + 1) = Append(SubSeq(d, s + 1, m), x)
    <3>1. s + 1 \in 1 .. Len(parts) /\ m + 1 \in s + 1 .. Len(parts) /\ (m + 1) - 1 = m
      BY <1>1, <1>2
    <3>2. SubSeq(parts, s + 1, m + 1) = SubSeq(parts, s + 1, (m + 1) - 1) \o <<parts[m + 1]>>
      BY <1>1, <3>1, SubSeqRecursiveSecond
    <3>3. SubSeq(parts, s + 1, m) = SubSeq(d, s + 1, m)
      BY <1>1, <1>2 DEF m
    <3>4. SubSeq(d, s + 1, m) \in Seq(S)
      BY <1>1, <1>2 DEF m
    <3>5. Append(SubSeq(d, s + 1, m), x) = SubSeq(d, s + 1, m) \o <<x>>
      BY <3>4, AppendIsConcat
    <3> QED BY <1>1, <3>1, <3>2, <3>3, <3>5
  <2>7. StripSourceRoot(parts) # <<>>
    <3>1. SubSeq(d, s + 1, m) \in Seq(S)
      BY <1>1, <1>2 DEF m
    <3> DEFINE u == SubSeq(d, s + 1, m)
    <3> HIDE DEF u
    <3>2. Append(u, x) # <<>>
      BY <3>1, AppendProperties DEF u
    <3> QED BY <2>5, <2>6, <3>2 DEF u
  <2> QED BY <2>5, <2>6, <2>7 DEF Below, parts, m
<1> QED BY <1>3, <1>4

LEMMA LastAppended ==
    ASSUME NEW S, NEW u \in Seq(S), NEW x \in S
    PROVE  Last(Append(u, x)) = x /\ Front(Append(u, x)) = u /\ Append(u, x) # <<>>
<1> DEFINE v == Append(u, x)
<1>1. v \in Seq(S) /\ Len(v) = Len(u) + 1 /\ Len(u) \in Nat /\ v[Len(u) + 1] = x
      /\ \A i \in 1 .. Len(u) : v[i] = u[i]
  OBVIOUS
<1> HIDE DEF v
<1>2. Last(v) = x /\ Front(v) = SubSeq(v, 1, Len(u))
  BY <1>1 DEF Last, Front
<1>3. SubSeq(v, 1, Len(u)) = u
  <2>1. SubSeq(v, 1, Len(u)) = SubSeq(u, 1, Len(u))
    BY <1>1
  <2> QED BY <2>1, SubSeqFull
<1>4. v # <<>>
  <2>1. Len(v) # 0
    BY <1>1
  <2> QED BY <2>1
<1> QED BY <1>2, <1>3, <1>4 DEF v

\* Python's rule: from the importer's directory, and from the root of its packages.
LEMMA DottedMeets ==
    ASSUME NEW S, NEW p, NEW q, p.dir \in Seq(S), q.dir \in Seq(S), q.stem \in S,
           Spelling(p) = "dotted", Spelling(q) = "dotted", Importable(p, q), NEW row \in Spelt(p, q)
    PROVE  ResolveModule(p, row) = ModuleName(q)
<1> DEFINE d == p.dir
           e == q.dir
           x == q.stem
           c == Len(Shared(d, e))
           tail == IF x = "__init__" THEN <<>> ELSE <<x>>
           up == Len(d) - c
<1>0. d \in Seq(S) /\ e \in Seq(S) /\ x \in S
  OBVIOUS
<1>1. PICK r \in 0 .. Len(d) : RootEnds(d, r)
  BY <1>0, RootIsThere
<1>2. PICK s \in 0 .. Len(e) : RootEnds(e, s)
  BY <1>0, RootIsThere
<1> DEFINE u == SubSeq(e, s + 1, Len(e))
           n == Append(u, x)
<1>3. Len(PackageOf(d)) = Len(d) - r /\ PackageOf(e) = u /\ Len(PackageOf(e)) = Len(e) - s
  BY <1>0, <1>1, <1>2, PackageIsStripped
<1>4. /\ x \notin {"index", "mod"} /\ (Append(e, x) \in SourceRoots => e = <<>>)
      /\ s <= c /\ (r <= c \/ s = c)
  <2>1. /\ x \notin {"index", "mod"} /\ (Append(e, x) \in SourceRoots => e = <<>>)
        /\ Len(e) - Len(PackageOf(e)) <= c
        /\ (Len(d) - Len(PackageOf(d)) <= c \/ Len(e) - Len(PackageOf(e)) = c)
    BY DEF Importable
  <2>2. Len(e) \in Nat /\ Len(d) \in Nat
    BY <1>0
  <2>3. Len(e) - Len(PackageOf(e)) = s /\ Len(d) - Len(PackageOf(d)) = r
    <3> DEFINE k == Len(e)
               l == Len(d)
    <3>1. k \in Nat /\ l \in Nat /\ Len(PackageOf(d)) = l - r /\ Len(PackageOf(e)) = k - s
      BY <1>3, <2>2
    <3> HIDE DEF k, l
    <3>2. k - (k - s) = s /\ l - (l - r) = r
      BY <3>1, <1>1, <1>2
    <3> QED BY <3>1, <3>2 DEF k, l
  <2> HIDE DEF c
  <2> QED BY <2>1, <2>3
<1>5. u \in Seq(S)
  BY <1>0, <1>2
<1>6. Last(n) = x /\ Front(n) = u /\ n = u \o <<x>>
  <2> HIDE DEF u
  <2> QED BY <1>5, LastAppended, AppendIsConcat
<1>7. Below(Append(e, x)) = n
  BY <1>0, <1>2, <1>4, NamedBelow
<1>8. ModuleName(q) = [tag |-> "", body |-> u \o tail]
  <2>1. ModuleName(q) = [tag |-> "", body |-> IF Last(n) \in PackageInit THEN Front(n) ELSE n]
    <3> HIDE DEF n
    <3> QED BY <1>7 DEF ModuleName, Below
  <2>2. CASE x = "__init__"
    <3>1. x \in PackageInit
      BY <2>2 DEF PackageInit
    <3>2. tail = <<>> /\ u \o <<>> = u
      BY <1>5, <2>2, ConcatEmptySeq
    <3> HIDE DEF n, tail
    <3> QED BY <1>6, <2>1, <3>1, <3>2
  <2>3. CASE x # "__init__"
    <3>1. x \notin PackageInit
      BY <1>4, <2>3 DEF PackageInit
    <3>2. tail = <<x>>
      BY <2>3
    <3> HIDE DEF n, tail
    <3> QED BY <1>6, <2>1, <3>1, <3>2
  <2> QED BY <2>2, <2>3
<1>9. ResolveModule(p, row) = [tag |-> "", body |-> DottedImport(p, row)]
  BY DEF ResolveModule
<1>10. \/ row.dots = up + 1 /\ row.segs = Beyond(d, e) \o tail
       \/ row.dots = 0 /\ row.segs = PackageOf(e) \o tail
  <2>1. Spelt(p, q) = {[dots |-> up + 1, segs |-> Beyond(d, e) \o tail, symbol |-> "", alias |-> ""],
                       [dots |-> 0, segs |-> PackageOf(e) \o tail, symbol |-> "", alias |-> ""]}
    BY DEF Spelt
  <2> DEFINE far == Beyond(d, e) \o tail
             near == PackageOf(e) \o tail
  <2>2. \/ row = [dots |-> up + 1, segs |-> far, symbol |-> "", alias |-> ""]
        \/ row = [dots |-> 0, segs |-> near, symbol |-> "", alias |-> ""]
    BY <2>1
  <2> HIDE DEF up, far, near
  <2>3. (row.dots = up + 1 /\ row.segs = far) \/ (row.dots = 0 /\ row.segs = near)
    <3>1. CASE row = [dots |-> up + 1, segs |-> far, symbol |-> "", alias |-> ""]
      BY ONLY <3>1
    <3>2. CASE row = [dots |-> 0, segs |-> near, symbol |-> "", alias |-> ""]
      BY ONLY <3>2
    <3> QED BY <2>2, <3>1, <3>2
  <2> QED BY <2>3 DEF far, near
<1>11. CASE row.dots = 0 /\ row.segs = PackageOf(e) \o tail
  BY <1>3, <1>8, <1>9, <1>11 DEF DottedImport
<1>12. CASE row.dots = up + 1 /\ row.segs = Beyond(d, e) \o tail
  <2> DEFINE parts == StripSourceRoot(d)
             kept == IF up > Len(parts) THEN 0 ELSE Len(parts) - up
  <2>1. c \in 0 .. Len(d) /\ c \in 0 .. Len(e) /\ Len(d) \in Nat /\ Len(e) \in Nat
    BY <1>0, SharedHead
  <2>2. up \in Nat
    BY <2>1
  <2>3. parts \in Seq(S) /\ Len(parts) = Len(d) - r
    <3>1. parts = SubSeq(d, r + 1, Len(d))
      BY <1>0, <1>1, RootIsStripped
    <3> QED BY <1>0, <1>1, <3>1
  <2>4. SubSeq(parts, 1, kept) \o Beyond(d, e) = u
    <3>1. c = Len(Shared(d, e)) /\ up = Len(d) - c
      OBVIOUS
    <3>2. kept = IF up > Len(StripSourceRoot(d)) THEN 0 ELSE Len(StripSourceRoot(d)) - up
      OBVIOUS
    <3> HIDE DEF d, e, c, up, kept, parts, u
    <3>3. SubSeq(StripSourceRoot(d), 1, kept) \o Beyond(d, e) = SubSeq(e, s + 1, Len(e))
      <4>1. /\ d \in Seq(S) /\ e \in Seq(S) /\ RootEnds(d, r) /\ RootEnds(e, s)
            /\ s <= c /\ (r <= c \/ s = c)
        BY <1>0, <1>1, <1>2, <1>4
      <4>2. Climbs(d, e, r, s, c, up, kept)
        BY ONLY <4>1, <3>1, <3>2 DEF Climbs
      <4>3. Reached(d, e, s, kept)
        BY ONLY <4>1, <4>2, ClimbsBack
      <4> QED BY <4>3 DEF Reached
    <3> QED BY <3>3 DEF parts, u
  <2>5. DottedImport(p, row) = SubSeq(parts, 1, kept) \o (Beyond(d, e) \o tail)
    <3> DEFINE k == IF row.dots - 1 > Len(parts) THEN 0 ELSE Len(parts) - row.dots + 1
    <3>1. row.dots # 0
      <4> HIDE DEF up
      <4> QED BY <1>12, <2>2
    <3>2. DottedImport(p, row) = SubSeq(parts, 1, k) \o row.segs
      BY <3>1 DEF DottedImport
    <3>3. k = kept
      <4> DEFINE l == Len(parts)
      <4>1. l \in Nat
        BY <2>3
      <4> HIDE DEF l, up
      <4>2. row.dots - 1 = up /\ l - row.dots + 1 = l - up
        BY <1>12, <2>2, <4>1
      <4> QED BY <4>2 DEF l
    <3> HIDE DEF k, kept, parts
    <3> QED BY <1>12, <3>2, <3>3
  <2>6. SubSeq(parts, 1, kept) \in Seq(S) /\ Beyond(d, e) \in Seq(S) /\ tail \in Seq(S)
    <3>1. tail \in Seq(S)
      BY <1>0
    <3>2. Beyond(d, e) \in Seq(S)
      <4>1. Beyond(d, e) = SubSeq(e, c + 1, Len(e))
        BY DEF Beyond
      <4> HIDE DEF c
      <4> QED BY <1>0, <2>1, <4>1
    <3>3. kept \in Int /\ kept <= Len(parts)
      <4> HIDE DEF parts, up
      <4> QED BY <2>2, <2>3
    <3> HIDE DEF kept, parts
    <3> QED BY <2>3, <3>1, <3>2, <3>3
  <2> HIDE DEF kept, parts, tail, u, d, e
  <2>7. SubSeq(parts, 1, kept) \o (Beyond(d, e) \o tail) = u \o tail
    <3> DEFINE a == SubSeq(parts, 1, kept)
               b == Beyond(d, e)
    <3>1. a \in Seq(S) /\ b \in Seq(S) /\ tail \in Seq(S) /\ a \o b = u
      BY <2>4, <2>6
    <3> HIDE DEF a, b
    <3>2. (a \o b) \o tail = a \o (b \o tail)
      <4>1. \A f, g, h \in Seq(S) : (f \o g) \o h = f \o (g \o h)
        BY ONLY ConcatAssociative, SMTT(60)
      <4> QED BY ONLY <3>1, <4>1
    <3>3. u \o tail = a \o (b \o tail)
      BY <3>1, <3>2
    <3> QED BY <3>3 DEF a, b
  <2> QED BY <1>8, <1>9, <2>5, <2>7
<1> QED BY <1>10, <1>11, <1>12

\* PSR-4: both sides in lower case.
LEMMA NamespaceMeets ==
    ASSUME NEW p, NEW q, Spelling(p) = "namespace", Spelling(q) = "namespace",
           NEW row \in Spelt(p, q)
    PROVE  ResolveModule(p, row) = ModuleName(q)
<1> DEFINE parts == Append(q.dir, q.stem)
<1>1. ASSUME NEW segs
      PROVE  Folded(Folded(segs)) = Folded(segs)
  BY NamesAssumption DEF Folded
<1>2. ModuleName(q) = [tag |-> "namespace", body |-> Folded(parts)]
  BY DEF ModuleName
<1>3. ResolveModule(p, row) = [tag |-> "namespace", body |-> Folded(row.segs)]
  BY DEF ResolveModule
<1>4. row.segs = parts \/ row.segs = Folded(parts)
  <2> DEFINE low == Folded(parts)
  <2>1. Spelt(p, q) = {[dots |-> 0, segs |-> parts, symbol |-> "", alias |-> ""],
                       [dots |-> 0, segs |-> low, symbol |-> "", alias |-> ""]}
    BY DEF Spelt
  <2> HIDE DEF parts, low
  <2>2. \/ row = [dots |-> 0, segs |-> parts, symbol |-> "", alias |-> ""]
        \/ row = [dots |-> 0, segs |-> low, symbol |-> "", alias |-> ""]
    BY <2>1
  <2>3. row.segs = parts \/ row.segs = low
    <3>1. CASE row = [dots |-> 0, segs |-> parts, symbol |-> "", alias |-> ""]
      BY ONLY <3>1
    <3>2. CASE row = [dots |-> 0, segs |-> low, symbol |-> "", alias |-> ""]
      BY ONLY <3>2
    <3> QED BY <2>2, <3>1, <3>2
  <2> QED BY <2>3 DEF low
<1> HIDE DEF parts
<1> QED BY <1>1, <1>2, <1>3, <1>4

\* A Go import path, without host, organisation and repository.
LEMMA PackageMeets ==
    ASSUME NEW S, NEW p, NEW q, q.dir \in Seq(S), Spelling(p) = "package", Spelling(q) = "package",
           Importable(p, q), NEW row \in Spelt(p, q)
    PROVE  ResolveModule(p, row) = ModuleName(q)
<1> DEFINE e == q.dir
           host == "host.org"
           org == "org"
           repo == "repo"
           U == S \cup {host, org, repo}
           head == <<host, org, repo>>
           segs == head \o e
<1>1. ModuleName(q) = [tag |-> "package", body |-> e]
  BY DEF ModuleName
<1>2. ResolveModule(p, row) = [tag |-> "package", body |-> PackageImport(row.segs)]
  BY DEF ResolveModule
<1>3. row.segs = segs
  <2>1. Spelt(p, q) = {[dots |-> 0, segs |-> segs, symbol |-> "", alias |-> ""]}
    BY DEF Spelt
  <2> HIDE DEF segs
  <2>2. row = [dots |-> 0, segs |-> segs, symbol |-> "", alias |-> ""]
    BY <2>1
  <2> QED BY ONLY <2>2
<1>4. e # <<>>
  BY DEF Importable
<1>5. host \in Hosts
  BY NamesAssumption
<1>6. e \in Seq(U)
  <2>1. S \subseteq U /\ e \in Seq(S)
    OBVIOUS
  <2> HIDE DEF U, e
  <2> QED BY <2>1, SeqMonotonic
<1>7. host \in U /\ org \in U /\ repo \in U
  OBVIOUS
<1> HIDE DEF e, host, org, repo, U
<1>8. head \in Seq(U) /\ Len(head) = 3 /\ head[1] = host
  BY <1>7
<1>9. Len(e) \in Nat /\ Len(e) >= 1
  BY <1>4, <1>6
<1> HIDE DEF head
<1>10. Len(segs) = 3 + Len(e) /\ segs[1] = host
  <2>1. /\ Len(head \o e) = Len(head) + Len(e)
        /\ \A i \in 1 .. Len(head) + Len(e) :
              (head \o e)[i] = IF i <= Len(head) THEN head[i] ELSE e[i - Len(head)]
    BY <1>6, <1>8, ConcatProperties
  <2>2. 1 \in 1 .. Len(head) + Len(e)
    BY <1>8, <1>9
  <2> QED BY <1>8, <2>1, <2>2
<1>11. SubSeq(segs, 4, Len(segs)) = e
  <2>1. 4 \in Len(head) + 1 .. Len(head) + Len(e) /\ Len(segs) \in Len(head) + 1 .. Len(head) + Len(e)
    BY <1>8, <1>9, <1>10
  <2>2. SubSeq(segs, 4, Len(segs)) = SubSeq(e, 4 - Len(head), Len(segs) - Len(head))
    BY <1>6, <1>8, <2>1, SubSeqOfConcat2
  <2>3. 4 - Len(head) = 1 /\ Len(segs) - Len(head) = Len(e)
    BY <1>8, <1>9, <1>10
  <2>4. SubSeq(e, 1, Len(e)) = e
    BY <1>6, SubSeqFull
  <2> QED BY <2>2, <2>3, <2>4
<1> HIDE DEF segs
<1>12. PackageImport(segs) = e
  <2>1. Len(segs) > 3 /\ Head(segs) \in Hosts
    BY <1>5, <1>9, <1>10
  <2> QED BY <1>11, <2>1 DEF PackageImport
<1> QED BY <1>1, <1>2, <1>3, <1>12

\* `./` and `../`: over the directory they share, and down to the file.
LEMMA RelativeMeets ==
    ASSUME NEW S, NEW p, NEW q, p.dir \in Seq(S), q.dir \in Seq(S), q.stem \in S,
           Spelling(p) = "relative", Spelling(q) = "relative", Importable(p, q),
           NEW row \in Spelt(p, q)
    PROVE  ResolveModule(p, row) = ModuleName(q)
<1> DEFINE d == p.dir
           e == q.dir
           x == q.stem
           shared == Shared(d, e)
           c == Len(shared)
           after == Beyond(d, e)
           up == Len(d) - c
           parts == Append(e, x)
<1>0. d \in Seq(S) /\ e \in Seq(S) /\ x \in S
  OBVIOUS
<1>1. ModuleName(q) = [tag |-> "relative", body |-> DropIndex(parts)]
  BY DEF ModuleName
<1>2. ResolveModule(p, row) = [tag |-> "relative", body |-> RelativeImport(p, row)]
  BY DEF ResolveModule
<1>3. \/ row.dots = up + 1 /\ row.segs = Append(after, x)
      \/ row.dots = up + 1 /\ row.segs = after /\ x = "index"
  <2> DEFINE far == Append(after, x)
             dots == up + 1
  <2>1. Spelt(p, q) = {[dots |-> dots, segs |-> far, symbol |-> "", alias |-> ""]}
                      \cup IF x = "index" THEN {[dots |-> dots, segs |-> after, symbol |-> "", alias |-> ""]}
                                          ELSE {}
    BY DEF Spelt
  <2> HIDE DEF far, dots, x, after
  <2>2. \/ row = [dots |-> dots, segs |-> far, symbol |-> "", alias |-> ""]
        \/ row = [dots |-> dots, segs |-> after, symbol |-> "", alias |-> ""] /\ x = "index"
    BY <2>1
  <2>3. CASE row = [dots |-> dots, segs |-> far, symbol |-> "", alias |-> ""]
    <3>1. row.dots = dots /\ row.segs = far
      BY ONLY <2>3
    <3> QED BY <3>1 DEF far, dots
  <2>4. CASE row = [dots |-> dots, segs |-> after, symbol |-> "", alias |-> ""] /\ x = "index"
    <3>1. row.dots = dots /\ row.segs = after
      BY ONLY <2>4
    <3> QED BY <2>4, <3>1 DEF dots
  <2> QED BY <2>2, <2>3, <2>4
<1>4. /\ c \in 0 .. Len(d) /\ c \in 0 .. Len(e) /\ Len(d) \in Nat /\ Len(e) \in Nat
      /\ shared \in Seq(S) /\ shared = SubSeq(d, 1, c) /\ shared = SubSeq(e, 1, c)
  BY <1>0, SharedHead
<1>5. after = SubSeq(e, c + 1, Len(e)) /\ after \in Seq(S)
  <2>1. after = SubSeq(e, c + 1, Len(e))
    BY DEF Beyond
  <2> HIDE DEF after, c
  <2> QED BY <1>0, <1>4, <2>1
<1>6. shared \o after = e
  <2>1. 1 \in 1 .. Len(e) + 1 /\ c \in 1 - 1 .. Len(e) /\ Len(e) \in c .. Len(e)
    BY <1>4
  <2> HIDE DEF e, c, shared, after
  <2>2. SubSeq(e, 1, c) \o SubSeq(e, c + 1, Len(e)) = SubSeq(e, 1, Len(e))
    BY <1>0, <2>1, ConcatAdjacentSubSeq
  <2> QED BY <1>0, <1>4, <1>5, <2>2, SubSeqFull
<1>7. RelativeImport(p, row) = DropIndex(shared \o row.segs)
  <2>1. row.dots = up + 1 /\ up \in Nat /\ up <= Len(d) /\ Len(d) - up = c
    <3> DEFINE m == Len(d)
    <3>1. m \in Nat /\ c \in 0 .. m /\ up = m - c
      BY <1>4
    <3> HIDE DEF m, c, up
    <3>2. up \in Nat /\ up <= m /\ m - up = c
      BY ONLY <3>1
    <3>3. row.dots = up + 1
      BY <1>3
    <3> QED BY <3>2, <3>3 DEF m
  <2>2. row.dots # 0 /\ row.dots - 1 = up
    <3> HIDE DEF up
    <3> QED BY <2>1
  <2> HIDE DEF shared, c, up
  <2>3. RelativeImport(p, row) = DropIndex(Climbed(d, up) \o row.segs)
    BY <2>2 DEF RelativeImport
  <2>4. Climbed(d, up) = SubSeq(d, 1, c)
    BY <2>1 DEF Climbed
  <2> QED BY <1>4, <2>3, <2>4
<1> HIDE DEF shared, c, up, after
<1>8. CASE row.segs = Append(after, x)
  <2>1. shared \o Append(after, x) = Append(shared \o after, x)
    <3> HIDE DEF e, x
    <3>1. Append(after, x) = after \o <<x>> /\ <<x>> \in Seq(S)
      <4>1. \A f \in Seq(S), y \in S : Append(f, y) = f \o <<y>> /\ <<y>> \in Seq(S)
        BY AppendIsConcat
      <4>2. after \in Seq(S) /\ x \in S
        BY <1>0, <1>5
      <4> QED BY ONLY <4>1, <4>2
    <3>2. shared \o after \in Seq(S)
      BY <1>0, <1>6
    <3>3. Append(shared \o after, x) = (shared \o after) \o <<x>>
      BY <1>0, <3>2, AppendIsConcat
    <3>4. (shared \o after) \o <<x>> = shared \o (after \o <<x>>)
      <4>1. \A f, g, h \in Seq(S) : (f \o g) \o h = f \o (g \o h)
        BY ONLY ConcatAssociative, SMTT(60)
      <4>2. shared \in Seq(S) /\ after \in Seq(S)
        BY <1>4, <1>5
      <4> QED BY ONLY <3>1, <4>1, <4>2
    <3> QED BY <3>1, <3>3, <3>4
  <2> QED BY <1>1, <1>2, <1>6, <1>7, <1>8, <2>1
<1>9. CASE row.segs = after /\ x = "index"
  <2>1. DropIndex(e) = e
    BY DEF Importable
  <2>2. Last(parts) = x /\ Front(parts) = e /\ parts # <<>>
    <3> HIDE DEF e, x
    <3> QED BY <1>0, LastAppended
  <2>3. DropIndex(parts) = e
    <3> HIDE DEF parts, e, x
    <3> QED BY <1>9, <2>2 DEF DropIndex
  <2> QED BY <1>1, <1>2, <1>6, <1>7, <1>9, <2>1, <2>3
<1> QED BY <1>3, <1>8, <1>9

\* The two rules of symtab meet: the module an import names, resolve_module from
\* the importer, is the module_name of the file it was written for.
THEOREM ImportMeets ==
    ASSUME NEW p, NEW q, p.dir \in Seq(ToSet(p.dir)), q.dir \in Seq(ToSet(q.dir)),
           Importable(p, q), NEW row \in Spelt(p, q)
    PROVE  ResolveModule(p, row) = ModuleName(q)
<1> DEFINE S == ToSet(p.dir) \cup ToSet(q.dir) \cup {q.stem}
<1>1. p.dir \in Seq(S) /\ q.dir \in Seq(S) /\ q.stem \in S
  <2>1. ToSet(p.dir) \subseteq S /\ ToSet(q.dir) \subseteq S /\ q.stem \in S
    OBVIOUS
  <2> HIDE DEF S
  <2> QED BY <2>1, SeqMonotonic
<1> HIDE DEF S
<1>2. Spelling(p) = Spelling(q)
  BY DEF Importable, Spelling
<1>3. Spelling(q) \in {"package", "namespace", "relative", "dotted"}
  BY DEF Spelling
<1>4. CASE Spelling(q) = "dotted"
  BY <1>1, <1>2, <1>4, DottedMeets
<1>5. CASE Spelling(q) = "namespace"
  BY <1>2, <1>5, NamespaceMeets
<1>6. CASE Spelling(q) = "package"
  BY <1>1, <1>2, <1>6, PackageMeets
<1>7. CASE Spelling(q) = "relative"
  BY <1>1, <1>2, <1>7, RelativeMeets
<1> QED BY <1>3, <1>4, <1>5, <1>6, <1>7

\* ImportMeetsItsFile.
THEOREM ImportsMeet == Spec => []ImportMeetsItsFile
<1>1. ImportMeetsItsFile
  <2> SUFFICES ASSUME NEW p \in SomeFiles, NEW q \in SomeFiles, Importable(p, q),
                      NEW row \in Spelt(p, q)
               PROVE  ResolveModule(p, row) = ModuleName(q)
    BY DEF ImportMeetsItsFile
  <2>1. p.dir \in Seq(ToSet(p.dir)) /\ q.dir \in Seq(ToSet(q.dir))
    BY EngineAssumption
  <2> QED BY <2>1, ImportMeets
<1> QED BY <1>1, PTL
=============================================================================
