---------------------------- MODULE ResolveProofs ----------------------------
(***************************************************************************)
(* Why a file may write the edges of its own references without reading a  *)
(* second file: whatever the table of the other files holds, resolving a   *)
(* decided reference against it gives the candidates the file gave.        *)
(***************************************************************************)
EXTENDS Resolve, TLAPS

\* The definitions of a name in one file are those of the table at its path.
LEMMA LocalPool ==
    ASSUME NEW T, NEW p \in DOMAIN T, NEW name
    PROVE  /\ LocalSymbols(p, T[p], name) \subseteq TablePool(T, name)
           /\ \A s \in TablePool(T, name) :
                  s.path = p <=> s \in LocalSymbols(p, T[p], name)
<1>1. ASSUME NEW q, NEW s \in LocalSymbols(q, T[q], name)
      PROVE  s.path = q
  BY <1>1 DEF LocalSymbols
<1>2. LocalSymbols(p, T[p], name) \subseteq TablePool(T, name)
  BY DEF TablePool
<1>3. ASSUME NEW s \in TablePool(T, name), s.path = p
      PROVE  s \in LocalSymbols(p, T[p], name)
  <2>1. PICK q \in DOMAIN T : s \in LocalSymbols(q, T[q], name)
    BY <1>3 DEF TablePool
  <2>2. q = p
    BY <1>1, <1>3, <2>1
  <2> QED BY <2>1, <2>2
<1> QED BY <1>1, <1>2, <1>3

\* The modules a receiver could name depend on the imports of its file alone.
LEMMA SameReceivers ==
    ASSUME NEW T, NEW p \in DOMAIN T, NEW ref
    PROVE  ReceiverModules(TableInputs(T, p, ref), ref)
             = ReceiverModules(LocalInputs(p, T[p], ref), ref)
<1>1. /\ TableInputs(T, p, ref).names = LocalInputs(p, T[p], ref).names
      /\ TableInputs(T, p, ref).modules = LocalInputs(p, T[p], ref).modules
  BY DEF TableInputs, LocalInputs, FileInputs
<1> QED BY <1>1 DEF ReceiverModules

\* What the file's own definitions score, and that no other file's score as much.
Own(in, s) ==
    IF in.holder # Top /\ s.parent = in.holder
    THEN Scored(s, SameClass, "same_class") ELSE Scored(s, SameFile, "same_file")

LEMMA OwnTier ==
    ASSUME NEW in, NEW ref, NEW s, s.path = in.path
    PROVE  Tiers(in, ref, s) = {Own(in, s)}
BY DEF Tiers, Own

LEMMA OwnScore ==
    ASSUME NEW in, NEW s
    PROVE  Own(in, s).conf \in {SameClass, SameFile}
BY DEF Own, Scored

LEMMA OtherTier ==
    ASSUME NEW in, NEW ref, NEW s, s.path # in.path, NEW c \in Tiers(in, ref, s)
    PROVE  c.conf \in {ImportedSymbol, ImportedModule, SamePackage}
<1>1. Tiers(in, ref, s) =
        IF ref.name \in DOMAIN in.names /\ in.names[ref.name] = ModuleName(s.path)
        THEN {Scored(s, ImportedSymbol, "import")}
        ELSE IF ModuleName(s.path) \in in.modules THEN {Scored(s, ImportedModule, "import")}
        ELSE IF s.path.dir = in.path.dir THEN {Scored(s, SamePackage, "package")}
        ELSE {}
  BY DEF Tiers
<1> QED BY <1>1 DEF Scored

\* Ranking drops what every member of a part of the set is better than.
LEMMA RankOfTheBetter ==
    ASSUME NEW all, NEW best, best \subseteq all, best # {},
           \A c \in best : c.conf \in {SameClass, SameFile},
           \A c \in all \ best : c.conf \in {ImportedSymbol, ImportedModule, SamePackage}
    PROVE  Rank(all) = Rank(best)
<1>1. \A c \in best, d \in all \ best : d.conf <= c.conf /\ ~(c.conf <= d.conf)
  BY DEF SameClass, SameFile, ImportedSymbol, ImportedModule, SamePackage
<1>2. Rank(all) \subseteq Rank(best)
  BY <1>1 DEF Rank
<1>3. Rank(best) \subseteq Rank(all)
  BY <1>1 DEF Rank
<1> QED BY <1>2, <1>3

\* resolve_file_local: a reference its file decides is resolved, in every table
\* that has the file, to the candidates the file gave it.  The receiver it may
\* have names the file itself, so its definitions stay in the pool, and the two
\* tiers of a file stand above those an import or a package can earn.
THEOREM LocalDecision ==
    ASSUME NEW T, NEW p \in DOMAIN T, NEW ref, Decided(p, T[p], ref)
    PROVE  ResolveReference(T, p, ref) =
             [cands |-> LocalCandidates(p, T[p], ref), external |-> FALSE]
<1> DEFINE in == TableInputs(T, p, ref)
           own == LocalSymbols(p, T[p], ref.name)
           scoped == UNION {Tiers(in, ref, s) : s \in Narrowed(in, ref)}
           best == {Own(in, s) : s \in own}
<1>1. /\ in.path = p /\ in.pool = TablePool(T, ref.name)
      /\ LocalInputs(p, T[p], ref).pool = own
      /\ LocalInputs(p, T[p], ref).holder = in.holder
  BY DEF TableInputs, LocalInputs, FileInputs
<1>2. own # {}
  BY DEF Decided
<1>3. own \subseteq Narrowed(in, ref) /\ Narrowed(in, ref) \subseteq in.pool
  <2>1. Narrowed(in, ref) \subseteq in.pool
    BY DEF Narrowed
  <2>2. CASE Decides(ref)
    <3>1. ModuleName(p) \in ReceiverModules(in, ref)
      BY <2>2, SameReceivers DEF Decided
    <3>2. \A s \in own : s \in in.pool /\ s.path = p
      BY <1>1, LocalPool
    <3> QED BY <2>1, <2>2, <3>1, <3>2 DEF Narrowed
  <2>3. CASE ~Decides(ref)
    BY <2>1, <2>3, <1>1, LocalPool DEF Narrowed
  <2> QED BY <2>2, <2>3
<1>4. \A s \in Narrowed(in, ref) : s.path = in.path <=> s \in own
  BY <1>1, <1>3, LocalPool
<1>5. best \subseteq scoped /\ best # {}
  <2>1. \A s \in own : Tiers(in, ref, s) = {Own(in, s)}
    BY <1>3, <1>4, OwnTier
  <2>2. \A s \in own : Own(in, s) \in scoped
    BY <2>1, <1>3
  <2> QED BY <2>2, <1>2
<1>6. \A c \in best : c.conf \in {SameClass, SameFile}
  BY OwnScore
<1>7. \A c \in scoped \ best : c.conf \in {ImportedSymbol, ImportedModule, SamePackage}
  <2> SUFFICES ASSUME NEW c \in scoped, c \notin best
               PROVE  c.conf \in {ImportedSymbol, ImportedModule, SamePackage}
    OBVIOUS
  <2>1. PICK s \in Narrowed(in, ref) : c \in Tiers(in, ref, s)
    OBVIOUS
  <2>2. s.path # in.path
    <3> SUFFICES ASSUME s.path = in.path PROVE FALSE
      OBVIOUS
    <3>1. c = Own(in, s)
      BY <2>1, OwnTier
    <3> QED BY <3>1, <1>4
  <2> QED BY <2>1, <2>2, OtherTier
<1>8. Rank(scoped) = Rank(best)
  BY <1>5, <1>6, <1>7, RankOfTheBetter
<1>9. LocalCandidates(p, T[p], ref) = Rank(best)
  BY <1>1 DEF LocalCandidates, Own
<1>10. Narrowed(in, ref) # {} /\ scoped # {}
  BY <1>2, <1>3, <1>5
<1>11. Resolved(in, ref) = [external |-> FALSE, cands |-> Rank(scoped)]
  BY <1>10 DEF Resolved
<1> QED BY <1>8, <1>9, <1>11 DEF ResolveReference
=============================================================================
