-------------------------------- MODULE Names --------------------------------
(***************************************************************************)
(* graphrag.symtab: which module a file is, and which module an import row *)
(* names.  Each language spells both its own way, and an import reaches a  *)
(* file only where the two spellings meet.                                 *)
(*                                                                         *)
(* A path is a directory (a sequence of segments), a stem and a language;  *)
(* a module is the tag of its spelling and a sequence of segments.  An     *)
(* import row holds the leading dots it was written with (`./` counts one, *)
(* `../` two), the segments after them, a symbol and an alias.             *)
(***************************************************************************)
EXTENDS Integers, Sequences, SequencesExt

CONSTANTS
    Lower,   \* Lower[s]: s in lower case, for the segments that are not
    Hosts    \* the segments that hold a dot, which a directory never is

\* Lower case is in lower case; and a host name has a dot.
ASSUME NamesAssumption ==
    /\ \A s \in DOMAIN Lower : Lower[s] \notin DOMAIN Lower
    /\ "host.org" \in Hosts

Spelling(p) ==
    CASE p.lang = "go" -> "package"
      [] p.lang = "php" -> "namespace"
      [] p.lang \in {"typescript", "tsx", "javascript", "jsx"} -> "relative"
      [] OTHER -> "dotted"

PackageInit == {"__init__", "index", "mod"}

SourceRoots ==
    {<<"src", "main", l>> : l \in {"java", "kotlin", "scala", "resources"}}
    \cup {<<"src", "test", l>> : l \in {"java", "kotlin", "scala"}}
    \cup {<<"app", "src", "main", l>> : l \in {"java", "kotlin"}}
    \cup {<<"src">>, <<"lib">>}

Folded(segs) ==
    [i \in DOMAIN segs |-> IF segs[i] \in DOMAIN Lower THEN Lower[segs[i]] ELSE segs[i]]

\* A slip: the shortest root is taken off, not the longest.
StripShortest(segs) ==
    LET held == {r \in SourceRoots : IsPrefix(r, segs)}
    IN  IF held = {} THEN segs
        ELSE LET root == CHOOSE r \in held : \A q \in held : Len(r) <= Len(q)
             IN  SubSeq(segs, Len(root) + 1, Len(segs))

\* Of the build directories that open a path, the longest is taken off.
StripSourceRoot(segs) ==
    LET held == {r \in SourceRoots : IsPrefix(r, segs)}
    IN  IF held = {} THEN segs
        ELSE LET root == CHOOSE r \in held : \A q \in held : Len(q) <= Len(r)
             IN  SubSeq(segs, Len(root) + 1, Len(segs))

DropIndex(segs) ==
    IF segs # <<>> /\ Last(segs) = "index" THEN Front(segs) ELSE segs

\* module_name: Go names a directory, the others a file; a dotted path is never
\* stripped down to nothing, and an initialiser stands for its directory.
ModuleName(p) ==
    LET parts == Append(p.dir, p.stem)
        stripped == StripSourceRoot(parts)
        named == IF stripped = <<>> THEN parts ELSE stripped
        kind == Spelling(p)
    IN  CASE kind = "package"   -> [tag |-> kind, body |-> p.dir]
          [] kind = "namespace" -> [tag |-> kind, body |-> Folded(parts)]
          [] kind = "relative"  -> [tag |-> kind, body |-> DropIndex(parts)]
          [] OTHER -> [tag |-> "", body |-> IF Last(named) \in PackageInit
                                            THEN Front(named) ELSE named]

\* receiver_names: a bare receiver is the last segment of a module.
ReceiverNames(module, receiver) ==
    /\ module.body # <<>>
    /\ IF module.tag = "namespace"
       THEN Folded(<<Last(module.body)>>) = Folded(<<receiver>>)
       ELSE Last(module.body) = receiver

Submodule(module, name) == [module EXCEPT !.body = Append(@, name)]

\* _package_import: a Go import path without host, organisation and repository.
PackageImport(segs) ==
    IF Len(segs) > 3 /\ Head(segs) \in Hosts THEN SubSeq(segs, 4, Len(segs)) ELSE segs

\* The directory `up` levels over dir; above the root posixpath leaves `..`.
Climbed(dir, up) ==
    IF up <= Len(dir) THEN SubSeq(dir, 1, Len(dir) - up)
    ELSE [i \in 1 .. up - Len(dir) |-> ".."]

\* _relative_import: `./x` from the importer's directory, a bare name as it is.
RelativeImport(p, row) ==
    IF row.dots = 0 THEN row.segs
    ELSE DropIndex(Climbed(p.dir, row.dots - 1) \o row.segs)

\* Python's rule: the first dot is the importer's own directory, and each one
\* more climbs, no further than the source root.
DottedImport(p, row) ==
    LET parts == StripSourceRoot(p.dir)
        kept == IF row.dots - 1 > Len(parts) THEN 0 ELSE Len(parts) - row.dots + 1
    IN  IF row.dots = 0 THEN row.segs ELSE SubSeq(parts, 1, kept) \o row.segs

ResolveModule(p, row) ==
    LET kind == Spelling(p)
    IN  CASE kind = "package"   -> [tag |-> kind, body |-> PackageImport(row.segs)]
          [] kind = "namespace" -> [tag |-> kind, body |-> Folded(row.segs)]
          [] kind = "relative"  -> [tag |-> kind, body |-> RelativeImport(p, row)]
          [] OTHER              -> [tag |-> "", body |-> DottedImport(p, row)]

\* The name an import row binds in the body, or "": the alias before the symbol.
Binds(row) == IF row.alias # "" THEN row.alias ELSE row.symbol

\* names_from_imports: each bound name and its module, the last row winning.
ImportedNames(p, rows) ==
    [n \in {Binds(rows[i]) : i \in DOMAIN rows} \ {""} |->
        ResolveModule(p, rows[SelectLastInSeq(rows, LAMBDA row : Binds(row) = n)])]

ImportedModules(p, rows) == {ResolveModule(p, rows[i]) : i \in DOMAIN rows}

----------------------------------------------------------------------------
(* What a compiler accepts: external, and the measure of the rules above    *)

Shared(d, e) == LongestCommonPrefix({d, e})
Beyond(d, e) == SubSeq(e, Len(Shared(d, e)) + 1, Len(e))

\* The package of a directory: what stands below the deepest build directory.
PackageOf(d) ==
    LET below == {SubSeq(d, Len(r) + 1, Len(d)) : r \in {q \in SourceRoots \cup {<<>>} : IsPrefix(q, d)}}
    IN  CHOOSE s \in below : \A t \in below : Len(s) <= Len(t)

\* The ways a file of the language of p may import the file q.
Spelt(p, q) ==
    LET climb == Len(p.dir) - Len(Shared(p.dir, q.dir)) + 1
        after == Beyond(p.dir, q.dir)
        row(dots, segs) == [dots |-> dots, segs |-> segs, symbol |-> "", alias |-> ""]
    IN  CASE Spelling(q) = "package" -> {row(0, <<"host.org", "org", "repo">> \o q.dir)}
          [] Spelling(q) = "namespace" -> {row(0, Append(q.dir, q.stem)),
                                           row(0, Folded(Append(q.dir, q.stem)))}
          [] Spelling(q) = "relative" ->
                 {row(climb, Append(after, q.stem))}
                 \cup IF q.stem = "index" THEN {row(climb, after)} ELSE {}
          [] OTHER ->
                 LET tail == IF q.stem = "__init__" THEN <<>> ELSE <<q.stem>>
                 IN  {row(climb, after \o tail), row(0, PackageOf(q.dir) \o tail)}

\* Where the two rules of this module are meant to meet.  Left out: the Go package
\* at the root, whose path names the repository; a directory called `index`, which
\* an import of it loses; a dotted file called `index` or `mod`, which module_name
\* takes for an initialiser; a dotted file called like the build directory it is the
\* path of (src/main/java.py); and a dotted climb out of the build directory of the
\* importer or into that of the file, but for one back to the top of the latter.
Importable(p, q) ==
    /\ p # q /\ p.lang = q.lang
    /\ Spelling(q) = "dotted" =>
          LET common == Len(Shared(p.dir, q.dir))
              root(d) == Len(d) - Len(PackageOf(d))
          IN  /\ q.stem \notin {"index", "mod"}
              /\ Append(q.dir, q.stem) \in SourceRoots => q.dir = <<>>
              /\ root(q.dir) <= common
              /\ root(p.dir) <= common \/ root(q.dir) = common
    /\ Spelling(q) = "relative" => DropIndex(q.dir) = q.dir
    /\ Spelling(q) = "package" => q.dir # <<>>
=============================================================================
