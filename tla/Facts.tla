-------------------------------- MODULE Facts --------------------------------
(***************************************************************************)
(* graphrag.extract: what one file says, from the captures tree-sitter     *)
(* makes of its text.  Scope and method-ness are decided by byte           *)
(* containment alone.                                                      *)
(*                                                                         *)
(* A text is external: whether it parses, and its captures in the order of *)
(* the matches.  A definition capture is the identifier range start..stop, *)
(* the end of the body, a kind, a name, and the name a Go method binds its *)
(* receiver to ("" elsewhere).                                             *)
(***************************************************************************)
EXTENDS Names

CONSTANT
    Top     \* no definition: the scope of a call at top level

Capture ==
    [kind : STRING, name : STRING, start : Nat, stop : Nat, body : Nat, binds : STRING]

Span(d) == d.body - d.start

\* The innermost of the definitions `among` whose body holds the byte.  Of two
\* bodies of one size the earlier wins.
Innermost(defs, among, byte) ==
    LET holding == {i \in among : defs[i].start <= byte /\ byte < defs[i].body}
        narrowest == {i \in holding : \A j \in holding : Span(defs[i]) <= Span(defs[j])}
    IN  IF holding = {} THEN Top ELSE CHOOSE i \in narrowest : \A j \in narrowest : i <= j

Enclosing(defs, byte) == Innermost(defs, DOMAIN defs, byte)

\* i and the definitions around it, innermost first, each once: two captures of
\* one identifier are inside each other, and every walk up stops at a repeat.
Chain(parent, i) ==
    LET up[n \in Nat] ==
          IF n = 0 THEN IF i = Top THEN <<>> ELSE <<i>>
          ELSE LET w == up[n - 1]
               IN  IF w = <<>> \/ Len(w) < n THEN w
                   ELSE IF parent[Last(w)] \in {Top} \cup ToSet(w) THEN w
                   ELSE Append(w, parent[Last(w)])
    IN  up[Len(parent)]

\* The first of the definitions `among` up the chain from i, or Top.
FirstUp(parent, i, among) ==
    LET chain == Chain(parent, i)
        at == SelectInSeq(chain, LAMBDA k : k \in among)
    IN  IF at = 0 THEN Top ELSE chain[at]

\* _link: the parent of each definition, the method a class makes of a function,
\* and the name qualified by what it stands in, outermost first.  The definition
\* itself is no step of the walk: of two inside each other, each is named twice.
Linked(defs) ==
    LET parent == [i \in DOMAIN defs |->
                      Innermost(defs, DOMAIN defs \ {i}, defs[i].start)]
        names(i) == LET chain == Append(Reverse(Chain(parent, parent[i])), i)
                    IN  [k \in DOMAIN chain |-> defs[chain[k]].name]
    IN  [i \in DOMAIN defs |->
            [name |-> defs[i].name, start |-> defs[i].start, stop |-> defs[i].stop,
             body |-> defs[i].body, binds |-> defs[i].binds, parent |-> parent[i],
             kind |-> IF /\ defs[i].kind = "function" /\ parent[i] # Top
                         /\ defs[parent[i]].kind = "class"
                      THEN "method" ELSE defs[i].kind,
             qname |-> names(i)]]

Parents(defs) == [i \in DOMAIN defs |-> defs[i].parent]

\* is_self: the nearest definition up the chain that binds a receiver, if any,
\* binds this one.
IsSelf(defs, scope, receiver) ==
    LET holder == FirstUp(Parents(defs), scope, {i \in DOMAIN defs : defs[i].binds # ""})
    IN  holder # Top /\ defs[holder].binds = receiver

EnclosingClass(defs, scope) ==
    FirstUp(Parents(defs), scope, {i \in DOMAIN defs : defs[i].kind = "class"})

\* _dedup: the first of the rows that import one thing under one name.
Dedup(rows) ==
    LET key(i) == <<rows[i].dots, rows[i].segs, rows[i].symbol, rows[i].alias>>
        fresh(i) == \A j \in 1 .. i - 1 : key(j) # key(i)
    IN  FoldLeft(LAMBDA out, i : IF fresh(i) THEN Append(out, rows[i]) ELSE out,
                 <<>>, [i \in DOMAIN rows |-> i])

\* _narrow: a bare module row goes where another row names something of it.
Narrow(rows) ==
    LET named == {<<rows[i].dots, rows[i].segs>> : i \in {j \in DOMAIN rows : Binds(rows[j]) # ""}}
    IN  SelectSeq(rows, LAMBDA row : Binds(row) # "" \/ <<row.dots, row.segs>> \notin named)

NoFacts == [error |-> TRUE, defs |-> <<>>, refs |-> {}, imports |-> <<>>]

\* extract: a text no parser reads has facts that say so, and nothing else.
Extract(text) ==
    LET defs == Linked(text.defs)
        scope(r) == Enclosing(defs, r.site)
    IN  IF ~text.parses THEN NoFacts
        ELSE [error |-> FALSE,
              defs |-> defs,
              refs |-> {[kind |-> r.kind, name |-> r.name, site |-> r.site,
                         member |-> r.member, receiver |-> r.receiver,
                         scope |-> scope(r),
                         self |-> r.receiver # "" /\ IsSelf(defs, scope(r), r.receiver)] :
                        r \in text.refs},
              imports |-> Narrow(Dedup(text.imports))]
=============================================================================
