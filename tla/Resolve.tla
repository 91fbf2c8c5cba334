------------------------------- MODULE Resolve -------------------------------
(***************************************************************************)
(* graphrag.resolve and the scoring of graphrag.resolvedb: the candidates  *)
(* of one reference, each with its confidence, and never one edge forced.  *)
(*                                                                         *)
(* The rule is written once, over its inputs: the pool (the definitions    *)
(* that have the name), the names and modules the file imports, and the    *)
(* class around the call.  resolve takes them from the facts of all files  *)
(* (TableInputs), resolvedb from the stored graph (Answers!StoreInputs).   *)
(* A symbol is its path, the key of the definition in it, and the key of   *)
(* the definition around it.                                               *)
(***************************************************************************)
EXTENDS Facts

CONSTANT
    Floor     \* config.CONFIDENCE_FLOOR, in thousandths

ASSUME ResolveAssumption == Floor \in Nat

\* The scored tiers, in thousandths.
SameClass == 950
SameFile == 900
ImportedSymbol == 850
ImportedModule == 700
SamePackage == 400
GlobalUnique == 300

SelfWords == {"self", "this", "$this", "cls", "me", "static", "parent", "super"}

\* A receiver that decides nothing leaves the whole pool to the tiers.
Decides(ref) == ref.member /\ ref.receiver \notin SelfWords /\ ~ref.self

\* _receiver_modules: the modules the receiver could name; an expression, and a
\* name the file never imported, name none.
ReceiverModules(in, ref) ==
    IF ref.receiver = "" THEN {}
    ELSE {m \in in.modules : ReceiverNames(m, ref.receiver)}
         \cup IF ref.receiver \in DOMAIN in.names
              THEN LET base == in.names[ref.receiver]
                   IN  {base, Submodule(base, ref.receiver)}
              ELSE {}

Narrowed(in, ref) ==
    IF Decides(ref)
    THEN {s \in in.pool : ModuleName(s.path) \in ReceiverModules(in, ref)}
    ELSE in.pool

Scored(s, conf, evidence) == [path |-> s.path, key |-> s.key, conf |-> conf, evidence |-> evidence]

\* _tier: the one tier a candidate earns, or none.
Tiers(in, ref, s) ==
    LET module == ModuleName(s.path)
    IN  CASE s.path = in.path /\ in.holder # Top /\ s.parent = in.holder ->
                 {Scored(s, SameClass, "same_class")}
          [] s.path = in.path /\ ~(in.holder # Top /\ s.parent = in.holder) ->
                 {Scored(s, SameFile, "same_file")}
          [] s.path # in.path ->
                 IF ref.name \in DOMAIN in.names /\ in.names[ref.name] = module
                 THEN {Scored(s, ImportedSymbol, "import")}
                 ELSE IF module \in in.modules THEN {Scored(s, ImportedModule, "import")}
                 ELSE IF s.path.dir = in.path.dir THEN {Scored(s, SamePackage, "package")}
                 ELSE {}

\* _rank: only the best tier survives.
Rank(cands) == {c \in cands : \A d \in cands : d.conf <= c.conf}

\* resolve_reference and resolve_ref.  With nothing in scope the whole pool
\* shares what a global match is worth, down to the floor.
Resolved(in, ref) ==
    LET pool == Narrowed(in, ref)
        scoped == UNION {Tiers(in, ref, s) : s \in pool}
        share == GlobalUnique \div Cardinality(pool)
    IN  IF pool = {} THEN [cands |-> {}, external |-> TRUE]
        ELSE [external |-> FALSE,
              cands |-> IF scoped # {} THEN Rank(scoped)
                        ELSE IF share < Floor THEN {}
                        ELSE {Scored(s, share, "global") : s \in pool}]

----------------------------------------------------------------------------
(* A table maps each path it holds to the facts of the file.                *)

LocalSymbols(p, facts, name) ==
    {[path |-> p, key |-> i, parent |-> facts.defs[i].parent] :
        i \in {j \in DOMAIN facts.defs : facts.defs[j].name = name}}

\* symtab.build, as far as one name asks.
TablePool(table, name) ==
    UNION {LocalSymbols(p, table[p], name) : p \in DOMAIN table}

FileInputs(p, facts, ref, pool) ==
    [path |-> p, pool |-> pool,
     names |-> ImportedNames(p, facts.imports),
     modules |-> ImportedModules(p, facts.imports),
     holder |-> EnclosingClass(facts.defs, ref.scope)]

TableInputs(table, p, ref) == FileInputs(p, table[p], ref, TablePool(table, ref.name))

ResolveReference(table, p, ref) == Resolved(TableInputs(table, p, ref), ref)

\* What the file alone knows.
LocalInputs(p, facts, ref) == FileInputs(p, facts, ref, LocalSymbols(p, facts, ref.name))

\* A slip: a file decides what it defines, whatever the receiver names.
DecidedByName(p, facts, ref) == LocalSymbols(p, facts, ref.name) # {}

\* resolve_file_local: does the file decide this reference by itself?
Decided(p, facts, ref) ==
    /\ LocalSymbols(p, facts, ref.name) # {}
    /\ Decides(ref) => ModuleName(p) \in ReceiverModules(LocalInputs(p, facts, ref), ref)

\* And the candidates it then gives it.
LocalCandidates(p, facts, ref) ==
    LET in == LocalInputs(p, facts, ref)
    IN  Rank({IF in.holder # Top /\ s.parent = in.holder
              THEN Scored(s, SameClass, "same_class")
              ELSE Scored(s, SameFile, "same_file") : s \in in.pool})
=============================================================================
