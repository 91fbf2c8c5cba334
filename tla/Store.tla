-------------------------------- MODULE Store --------------------------------
(***************************************************************************)
(* The tables of one project's store (store.py), and what dbread reads of  *)
(* them for a query.                                                       *)
(*                                                                         *)
(* A store is a record of its tables.  The id of a node is the key the     *)
(* table is unique by: path, start and stop, the module node of a file     *)
(* standing at 0..0.  A name is a sequence: one segment for a definition,  *)
(* the module's own for a module node.  `files` maps a path to the version *)
(* of the text its row was written from; `scip` and `stamped` are meta rows:  *)
(* the overlay ran, and the graph is whole (store.stamp).                  *)
(***************************************************************************)
EXTENDS Resolve, FiniteSets

CONSTANTS
    Path,      \* the files there may be
    Version,   \* the texts a file may have, the first of them 1
    Gone       \* no file, or no row

NoStore ==
    [files |-> [p \in Path |-> Gone], nodes |-> {}, edges |-> {}, refs |-> {},
     imports |-> [p \in Path |-> <<>>], fts |-> {}, scip |-> FALSE, stamped |-> FALSE]

Id(n) == [path |-> n.path, start |-> n.start, stop |-> n.stop]
IdsOf(s) == {Id(n) : n \in s.nodes}
NodeOf(s, id) == CHOOSE n \in s.nodes : Id(n) = id

\* What the full-text index holds of a node, at the node's row.
Posting(n) == [id |-> Id(n), name |-> n.name, qname |-> n.qname]

NoNode == [path |-> Gone, start |-> 0, stop |-> 0]

ModuleId(p) == [path |-> p, start |-> 0, stop |-> 0]

\* module_node: the node of kind module, which a file that did not parse has
\* not.  Where definitions are of that kind too the file's own comes first; and
\* where only they are, which one is found stays open.
ModuleNode(s, p) ==
    LET modules == {Id(n) : n \in {m \in s.nodes : m.path = p /\ m.kind = "module"}}
    IN  IF modules = {} THEN NoNode
        ELSE IF ModuleId(p) \in modules THEN ModuleId(p)
        ELSE CHOOSE id \in modules : TRUE

\* Context.enclosing: the innermost node whose body holds the byte.  A module
\* node has no body and holds none.
EnclosingNode(s, p, byte) ==
    LET holding == {n \in s.nodes : n.path = p /\ n.start <= byte /\ byte < n.body}
        narrowest == {n \in holding : \A m \in holding : n.body - n.start <= m.body - m.start}
    IN  IF holding = {} THEN NoNode
        ELSE Id(CHOOSE n \in narrowest : \A m \in narrowest : n.start <= m.start)

\* Context.parent: what CONTAINS the node.
ParentNode(s, id) ==
    LET around == {e \in s.edges : e.dst = id /\ e.kind = "CONTAINS"}
    IN  IF around = {} THEN NoNode ELSE (CHOOSE e \in around : TRUE).src

\* Context.enclosing_class: the first class on the way up, as far as a cycle.
ClassAround(s, id) ==
    LET isClass(i) == i # NoNode /\ NodeOf(s, i).kind = "class"
        up[n \in Nat] ==
          IF n = 0 THEN id
          ELSE LET below == up[n - 1]
               IN  IF below = NoNode \/ isClass(below) THEN below ELSE ParentNode(s, below)
        last == up[Cardinality(s.nodes)]
    IN  IF isClass(last) THEN last ELSE NoNode

\* A slip: the pool of the store leaves out methods as well.
PoolFunctions(s, name) == {n \in s.nodes : n.name = <<name>> /\ n.kind \in {"function", "class"}}

\* Context.pool: every definition of a name, and never a node of kind module,
\* be it the file's own or a definition of that kind.
Pool(s, name) == {n \in s.nodes : n.name = <<name>> /\ n.kind # "module"}

\* The five inputs of one stored reference, read from the tables.
StoreInputs(s, ref) ==
    [path |-> ref.path,
     pool |-> {[path |-> n.path, key |-> Id(n), parent |-> ParentNode(s, Id(n))] :
                   n \in Pool(s, ref.name)},
     names |-> ImportedNames(ref.path, s.imports[ref.path]),
     modules |-> ImportedModules(ref.path, s.imports[ref.path]),
     holder |-> LET class == ClassAround(s, EnclosingNode(s, ref.path, ref.site))
                IN  IF class = NoNode THEN Top ELSE class]

\* resolvedb.resolve_ref: the rule of resolve, over those inputs.
ResolveRef(s, ref) == Resolved(StoreInputs(s, ref), ref)

\* A slip: the file of the callee is asked for.
DecidedByScipInto(s, ref) ==
    \E e \in s.edges : /\ e.evidence = "scip" /\ e.kind = "CALLS"
                       /\ e.dst.path = ref.path /\ e.site = ref.site

\* decided_by_scip: the overlay answered this site.
DecidedByScip(s, ref) ==
    \E e \in s.edges : /\ e.evidence = "scip" /\ e.kind = "CALLS"
                       /\ e.src.path = ref.path /\ e.site = ref.site

\* refs_naming: the references that spell a name.  The cap of 200000 rows, and
\* the gap an answer then carries, are left out.
RefsNaming(s, name, kinds) == {r \in s.refs : <<r.name>> = name /\ r.kind \in kinds}

\* refs_inside: the references a definition's own body makes, and not those of a
\* definition inside it.
RefsInside(s, id, kinds) ==
    {r \in s.refs : /\ r.path = id.path /\ r.kind \in kinds
                    /\ EnclosingNode(s, id.path, r.site) = id}

\* caller_node: the definition around a reference, or the file's module node.
CallerNode(s, ref) ==
    LET around == EnclosingNode(s, ref.path, ref.site)
    IN  IF around # NoNode THEN around ELSE ModuleNode(s, ref.path)

Stored(s) == {p \in Path : s.files[p] # Gone}

\* The files one file imports, and the files that import it: by the module
\* names alone, worked out on every read.
ImportedFiles(s, p) ==
    {q \in Stored(s) \ {p} : ModuleName(q) \in ImportedModules(p, s.imports[p])}

ImportingFiles(s, p) ==
    {q \in Stored(s) \ {p} : ModuleName(p) \in ImportedModules(q, s.imports[q])}
=============================================================================
