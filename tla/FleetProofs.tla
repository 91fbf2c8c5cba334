---------------------------- MODULE FleetProofs ----------------------------
(***************************************************************************)
(* What holds of the registry and the pruner for any projects, any links   *)
(* and any number of changes.                                              *)
(***************************************************************************)
EXTENDS Fleet, TLAPS

----------------------------------------------------------------------------
(* The rows *)

\* Well-formed rows: no project is its own root.
Rows(rs) ==
    /\ DOMAIN rs \subseteq Project
    /\ rs \in [DOMAIN rs -> Row]
    /\ \A p \in DOMAIN rs : p \notin rs[p].roots

\* The claims a set of rows stands for.
ClaimsOf(rs) ==
    {c \in Project \X Project :
        /\ c[1] \in DOMAIN rs
        /\ IF c[1] = c[2] THEN rs[c[1]].direct ELSE c[2] \in rs[c[1]].roots}

AllHeld(rs) == \A p \in DOMAIN rs : Holds(rs[p])

\* registry.claim on a person's behalf adds one claim.
LEMMA ClaimedDirect ==
    ASSUME NEW rs, Rows(rs), AllHeld(rs),
           NEW p \in Project
    PROVE  /\ Rows(Claimed(rs, p, TRUE, {}))
           /\ ClaimsOf(Claimed(rs, p, TRUE, {})) = ClaimsOf(rs) \cup {<<p, p>>}
           /\ AllHeld(Claimed(rs, p, TRUE, {}))
<1> DEFINE new == Claimed(rs, p, TRUE, {})
<1>1. /\ DOMAIN new = DOMAIN rs \cup {p}
      /\ new = [q \in DOMAIN new |-> new[q]]
      /\ \A q \in DOMAIN rs : q # p => new[q] = rs[q]
      /\ new[p].direct = TRUE
      /\ new[p] \in Row
      /\ new[p].roots = IF p \in DOMAIN rs THEN rs[p].roots ELSE {}
  BY DEF Claimed, Rows, Row
<1> HIDE DEF new
<1>2. Rows(new)
  BY <1>1 DEF Rows
<1>3. ClaimsOf(new) = ClaimsOf(rs) \cup {<<p, p>>}
  <2>1. ASSUME NEW a \in Project, NEW b \in Project
        PROVE  <<a, b>> \in ClaimsOf(new) <=> <<a, b>> \in ClaimsOf(rs) \/ <<a, b>> = <<p, p>>
    <3>1. CASE a # p
      BY <3>1, <1>1 DEF ClaimsOf
    <3>2. CASE a = p
      BY <3>2, <1>1 DEF ClaimsOf
    <3>3. QED
      BY <3>1, <3>2
  <2>2. /\ ClaimsOf(new) \subseteq Project \X Project
        /\ ClaimsOf(rs) \subseteq Project \X Project
        /\ <<p, p>> \in Project \X Project
    BY DEF ClaimsOf
  <2>3. QED
    BY <2>1, <2>2
<1>4. AllHeld(new)
  BY <1>1 DEF AllHeld, Holds
<1>5. QED
  BY <1>2, <1>3, <1>4 DEF new

\* ... and so it does on a root's behalf, unless the root is the project itself.
LEMMA ClaimedByRoot ==
    ASSUME NEW rs, Rows(rs), AllHeld(rs),
           NEW p \in Project, NEW root \in Project, root # p
    PROVE  /\ Rows(Claimed(rs, p, FALSE, {root}))
           /\ ClaimsOf(Claimed(rs, p, FALSE, {root})) = ClaimsOf(rs) \cup {<<p, root>>}
           /\ AllHeld(Claimed(rs, p, FALSE, {root}))
<1> DEFINE new == Claimed(rs, p, FALSE, {root})
<1>1. /\ DOMAIN new = DOMAIN rs \cup {p}
      /\ new = [q \in DOMAIN new |-> new[q]]
      /\ \A q \in DOMAIN rs : q # p => new[q] = rs[q]
      /\ new[p] \in Row
      /\ new[p].direct = IF p \in DOMAIN rs THEN rs[p].direct ELSE FALSE
      /\ new[p].roots = (IF p \in DOMAIN rs THEN rs[p].roots ELSE {}) \cup {root}
  BY DEF Claimed, Rows, Row
<1> HIDE DEF new
<1>2. Rows(new)
  BY <1>1 DEF Rows
<1>3. ClaimsOf(new) = ClaimsOf(rs) \cup {<<p, root>>}
  <2>1. ASSUME NEW a \in Project, NEW b \in Project
        PROVE  <<a, b>> \in ClaimsOf(new) <=> <<a, b>> \in ClaimsOf(rs) \/ <<a, b>> = <<p, root>>
    <3>1. CASE a # p
      BY <3>1, <1>1 DEF ClaimsOf
    <3>2. CASE a = p
      BY <3>2, <1>1 DEF ClaimsOf
    <3>3. QED
      BY <3>1, <3>2
  <2>2. /\ ClaimsOf(new) \subseteq Project \X Project
        /\ ClaimsOf(rs) \subseteq Project \X Project
        /\ <<p, root>> \in Project \X Project
    BY DEF ClaimsOf
  <2>3. QED
    BY <2>1, <2>2
<1>4. AllHeld(new)
  BY <1>1 DEF AllHeld, Holds
<1>5. QED
  BY <1>2, <1>3, <1>4 DEF new

\* registry.release takes one claim, and the row only with the last one.
LEMMA ReleasedTakesOne ==
    ASSUME NEW rs, Rows(rs), AllHeld(rs),
           NEW p \in Project, NEW root \in Project, root # p
    PROVE  /\ Rows(Released(rs, p, root))
           /\ ClaimsOf(Released(rs, p, root)) = ClaimsOf(rs) \ {<<p, root>>}
           /\ AllHeld(Released(rs, p, root))
<1> DEFINE left == [q \in DOMAIN rs |->
                      IF q = p THEN [rs[q] EXCEPT !.roots = @ \ {root}] ELSE rs[q]]
           kept == {q \in DOMAIN rs : q # p \/ Holds(left[q])}
           new == Released(rs, p, root)
<1>1. /\ \A q \in DOMAIN rs : q # p => left[q] = rs[q]
      /\ \A q \in DOMAIN rs : left[q] \in Row
      /\ p \in DOMAIN rs => /\ left[p].direct = rs[p].direct
                            /\ left[p].roots = rs[p].roots \ {root}
  BY DEF Rows, Row
<1>2. DOMAIN new = kept /\ \A q \in kept : new[q] = left[q]
  BY DEF Released, Restrict
<1>3. new = [q \in kept |-> left[q]]
  BY DEF Released, Restrict
<1> HIDE DEF left, new
<1>4. Rows(new)
  BY <1>1, <1>2, <1>3 DEF Rows
<1>5. AllHeld(new)
  BY <1>1, <1>2 DEF AllHeld
<1>6. ClaimsOf(new) = ClaimsOf(rs) \ {<<p, root>>}
  <2>1. ASSUME NEW a \in Project, NEW b \in Project
        PROVE  <<a, b>> \in ClaimsOf(new) <=> <<a, b>> \in ClaimsOf(rs) /\ <<a, b>> # <<p, root>>
    <3>1. CASE a # p
      BY <3>1, <1>1, <1>2 DEF ClaimsOf
    <3>2. CASE a = p
      BY <3>2, <1>1, <1>2 DEF ClaimsOf, Holds
    <3>3. QED
      BY <3>1, <3>2
  <2>2. /\ ClaimsOf(new) \subseteq Project \X Project
        /\ ClaimsOf(rs) \subseteq Project \X Project
    BY DEF ClaimsOf
  <2>3. QED
    BY <2>1, <2>2
<1>7. QED
  BY <1>4, <1>5, <1>6 DEF new

\* registry.forget takes what is wanted, what it claims, and nothing else.
LEMMA ForgottenTakesNamed ==
    ASSUME NEW rs, Rows(rs), NEW keys \in SUBSET Project
    PROVE  /\ Rows(Forgotten(rs, keys))
           /\ ClaimsOf(Forgotten(rs, keys))
                = {c \in ClaimsOf(rs) : c[1] \notin keys /\ c[2] \notin keys}
           /\ AllHeld(Forgotten(rs, keys))
<1> DEFINE left == [q \in DOMAIN rs \ keys |-> [rs[q] EXCEPT !.roots = @ \ keys]]
           kept == {q \in DOMAIN rs \ keys : Holds(left[q])}
           new == Forgotten(rs, keys)
<1>1. \A q \in DOMAIN rs \ keys :
        /\ left[q] \in Row
        /\ left[q].direct = rs[q].direct
        /\ left[q].roots = rs[q].roots \ keys
  BY DEF Rows, Row
<1>2. new = [q \in kept |-> left[q]]
  BY DEF Forgotten, Restrict
<1>3. DOMAIN new = kept /\ \A q \in kept : new[q] = left[q]
  BY <1>2
<1> HIDE DEF left, new
<1>4. Rows(new)
  BY <1>1, <1>2, <1>3 DEF Rows
<1>5. AllHeld(new)
  BY <1>1, <1>3 DEF AllHeld
<1>6. ASSUME NEW a \in Project, NEW b \in Project
      PROVE  <<a, b>> \in ClaimsOf(new)
               <=> <<a, b>> \in ClaimsOf(rs) /\ a \notin keys /\ b \notin keys
  BY <1>1, <1>3 DEF ClaimsOf, Holds
<1>7. /\ ClaimsOf(new) \subseteq Project \X Project
      /\ ClaimsOf(rs) \subseteq Project \X Project
  BY DEF ClaimsOf
<1>8. ClaimsOf(new) = {c \in ClaimsOf(rs) : c[1] \notin keys /\ c[2] \notin keys}
  BY <1>6, <1>7
<1>9. QED
  BY <1>4, <1>5, <1>8 DEF new

----------------------------------------------------------------------------
(* Types *)

LEMMA MembersAreProjects ==
    ASSUME TypeOK, NEW root
    PROVE  MembersOf(root) \subseteq Project /\ root \notin MembersOf(root)
BY FleetAssumption DEF TypeOK, MembersOf

\* The local variables of run_due: there is a root where one is swept, it is none
\* of its own members, and nothing is left to forget or to apply anywhere else.
PrunerInOrder(p) ==
    /\ p \in PrRecord
    /\ p.at \in {"held", "apply"} => p.root \in Project
    /\ p.root \notin p.reach \cup p.claim \cup p.drop
    /\ p.at # "apply" => p.claim = {} /\ p.drop = {}
    /\ p.at \notin {"load", "look"} => p.taken = {}
    /\ p.at # "look" => p.dead = {}

\* Those of register: members are left only once the root has been walked.
EnrolInOrder(e) ==
    /\ e \in EnRecord
    /\ e.at # "idle" => e.root \in Project
    /\ e.root \notin e.left
    /\ e.at # "claim" => e.left = {}

\* Beside the types: the rows are in order, somebody claims each of them, and
\* whoever is about to claim members for a root has a root that is none of them.
WellFormed ==
    /\ TypeOK
    /\ Rows(rows)
    /\ AllHeld(rows)
    /\ EnrolInOrder(en)
    /\ PrunerInOrder(pr)

LEMMA InitWellFormed == Init => WellFormed
<1> SUFFICES ASSUME Init PROVE WellFormed
  OBVIOUS
<1>1. rows = [p \in {} |-> [direct |-> FALSE, roots |-> {}]] /\ DOMAIN rows = {}
  BY DEF Init
<1>2. rows \in [{} -> Row]
  BY <1>1
<1>3. Rows(rows) /\ AllHeld(rows)
  BY <1>1, <1>2 DEF Rows, AllHeld
<1>4. TypeOK
  <2>1. DOMAIN rows \subseteq Project /\ rows \in [DOMAIN rows -> Row]
    BY <1>1, <1>2
  <2>2. gone \in [Project -> Pending] /\ unlinked \in [Project -> Pending]
    BY DEF Init, NonePending, Pending
  <2>3. moves \in 0..MaxMoves
    BY FleetAssumption DEF Init
  <2>4. pr \in PrRecord /\ en \in EnRecord
    BY DEF Init, PrIdle, EnIdle, PrRecord, EnRecord
  <2>5. QED
    BY <2>1, <2>2, <2>3, <2>4 DEF Init, TypeOK
<1>5. QED
  BY <1>3, <1>4, FleetAssumption DEF Init, TypeOK, WellFormed, PrunerInOrder, EnrolInOrder,
                                      PrIdle, EnIdle

\* What the rows do in a step: a claim more, a claim less, or some of those
\* named forgotten.
ClaimStep(rs, new, named) ==
    \/ new = rs
    \/ \E p, c \in Project : ClaimsOf(new) = ClaimsOf(rs) \cup {<<p, c>>}
    \/ \E p, c \in Project : p # c /\ ClaimsOf(new) = ClaimsOf(rs) \ {<<p, c>>}
    \/ \E keys \in SUBSET named :
          ClaimsOf(new) = {c \in ClaimsOf(rs) : c[1] \notin keys /\ c[2] \notin keys}

\* A member claimed for another project is such a step.
LEMMA MemberClaimed ==
    ASSUME NEW rs, NEW new, NEW named, NEW p \in Project, NEW root, Rows(rs), AllHeld(rs),
           root \in Project, root # p, new = Claimed(rs, p, FALSE, {root})
    PROVE  Rows(new) /\ AllHeld(new) /\ ClaimStep(rs, new, named)
<1>1. Rows(new)
  BY ClaimedByRoot
<1>2. AllHeld(new)
  BY ClaimedByRoot
<1>3. ClaimsOf(Claimed(rs, p, FALSE, {root})) = ClaimsOf(rs) \cup {<<p, root>>}
  BY ClaimedByRoot
<1>4. ClaimStep(rs, new, named)
  BY <1>3 DEF ClaimStep
<1>5. QED
  BY <1>1, <1>2, <1>4

\* Every step leaves the rows in order, and is one of those.
LEMMA RowsStep ==
    ASSUME WellFormed, [Next]_fleetVars
    PROVE  Rows(rows') /\ AllHeld(rows') /\ ClaimStep(rows, rows', asked \cup pr.dead)
<1>1. ASSUME NEW p \in Project, RegisterRoot(p)
      PROVE  Rows(rows') /\ AllHeld(rows') /\ ClaimStep(rows, rows', asked \cup pr.dead)
  <2>1. rows' = Claimed(rows, p, TRUE, {})
    BY <1>1 DEF RegisterRoot
  <2>2. QED
    BY <2>1, ClaimedDirect DEF WellFormed, ClaimStep
<1>2. ASSUME NEW p \in Project, RegisterMember(p)
      PROVE  Rows(rows') /\ AllHeld(rows') /\ ClaimStep(rows, rows', asked \cup pr.dead)
  <2>1. /\ rows' = Claimed(rows, p, FALSE, {en.root})
        /\ en.root \in Project /\ en.root # p
    BY <1>2 DEF RegisterMember, WellFormed, EnrolInOrder
  <2>2. Rows(rows) /\ AllHeld(rows)
    BY DEF WellFormed
  <2>3. QED
    BY <2>1, <2>2, MemberClaimed
<1>3. ASSUME ForgetDead
      PROVE  Rows(rows') /\ AllHeld(rows') /\ ClaimStep(rows, rows', asked \cup pr.dead)
  <2>1. rows' = Forgotten(rows, pr.dead) /\ pr.dead \in SUBSET Project
        /\ pr.dead \in SUBSET (asked \cup pr.dead)
    BY <1>3 DEF ForgetDead, WellFormed, TypeOK, PrRecord
  <2>2. QED
    BY <2>1, ForgottenTakesNamed DEF WellFormed, ClaimStep
<1>4. ASSUME NEW p \in Project, SweepClaim(p)
      PROVE  Rows(rows') /\ AllHeld(rows') /\ ClaimStep(rows, rows', asked \cup pr.dead)
  <2>1. /\ rows' = Claimed(rows, p, FALSE, {pr.root})
        /\ pr.root \in Project /\ pr.root # p
    BY <1>4 DEF SweepClaim, WellFormed, PrunerInOrder
  <2>2. Rows(rows) /\ AllHeld(rows)
    BY DEF WellFormed
  <2>3. QED
    BY <2>1, <2>2, MemberClaimed
<1>5. ASSUME NEW p \in Project, SweepRelease(p)
      PROVE  Rows(rows') /\ AllHeld(rows') /\ ClaimStep(rows, rows', asked \cup pr.dead)
  <2>1. rows' = Released(rows, p, pr.root) /\ pr.root \in Project
    BY <1>5 DEF SweepRelease, WellFormed, PrunerInOrder
  <2>2. pr.root # p
    BY <1>5 DEF SweepRelease, WellFormed, PrunerInOrder
  <2>3. QED
    BY <2>1, <2>2, ReleasedTakesOne DEF WellFormed, ClaimStep
<1>6. ASSUME CmdForget
      PROVE  Rows(rows') /\ AllHeld(rows') /\ ClaimStep(rows, rows', asked \cup pr.dead)
  <2>1. rows' = Forgotten(rows, asked) /\ asked \in SUBSET Project
        /\ asked \in SUBSET (asked \cup pr.dead)
    BY <1>6 DEF CmdForget, WellFormed, TypeOK
  <2>2. QED
    BY <2>1, ForgottenTakesNamed DEF WellFormed, ClaimStep
<1>7. CASE rows' = rows
  BY <1>7 DEF WellFormed, ClaimStep
<1>8. \/ \E p \in Project : \/ RegisterRoot(p) \/ RegisterMember(p)
                            \/ SweepClaim(p) \/ SweepRelease(p)
      \/ ForgetDead \/ CmdForget
      \/ rows' = rows
  BY DEF Next, fleetVars, cmdVars, Pass, RegisterWalk, Registered, NoteGone, Retire,
     SweepWalk, NoteUnlinked, LoseNews, GraceEnds, TakeDue, LoadRows, LookAgain, NoneDead,
     RunDueRaises, Retired, SweepHeld, Swept, RunDueEnds, CmdAsk, CmdRetire, PruneLook,
     PruneDelete, CmdKilled, Restart, FlipMount, World, Delete, Return, FlipParent,
     FlipLink, FlipBroken
<1>9. QED
  BY <1>1, <1>2, <1>3, <1>4, <1>5, <1>6, <1>7, <1>8

\* Each step of run_due leaves its local variables in order.
LEMMA PrunerStep ==
    ASSUME WellFormed, [Next]_fleetVars
    PROVE  PrunerInOrder(pr')
<1>1. PrunerInOrder(pr)
  BY DEF WellFormed
<1>2. PrunerInOrder(PrIdle)
  BY FleetAssumption DEF PrunerInOrder, PrIdle, PrRecord
<1>3. CASE TakeDue
  BY <1>3, FleetAssumption DEF TakeDue, PrIdle, PrRecord, Due, PrunerInOrder
<1>14. CASE LoadRows \/ NoneDead
  <2>1. pr.taken \cap DOMAIN rows \in SUBSET Project
    BY <1>1 DEF PrunerInOrder, PrRecord
  <2>2. QED
    <3>1. CASE LoadRows
      BY <1>1, <2>1, <3>1 DEF LoadRows, PrRecord, PrunerInOrder
    <3>2. CASE NoneDead
      BY <1>1, <3>2 DEF NoneDead, PrRecord, PrunerInOrder
    <3>3. QED
      BY <1>14, <3>1, <3>2
<1>15. ASSUME NEW p \in Project, LookAgain(p)
       PROVE  PrunerInOrder(pr')
  <2> DEFINE seen == IF LooksDeleted(p) THEN pr.dead \cup {p} ELSE pr.dead
  <2>1. seen \in SUBSET Project
    BY <1>1 DEF PrunerInOrder, PrRecord
  <2>2. pr' = [pr EXCEPT !.taken = @ \ {p}, !.dead = seen] /\ pr.at = "look"
    BY <1>15 DEF LookAgain
  <2> HIDE DEF seen
  <2>3. QED
    BY <1>1, <2>1, <2>2 DEF PrRecord, PrunerInOrder
<1>4. CASE ForgetDead
  <2>1. DOMAIN rows \ DOMAIN Forgotten(rows, pr.dead) \in SUBSET Project
    BY DEF WellFormed, Rows
  <2>2. QED
    BY <1>1, <1>4, <2>1 DEF ForgetDead, PrRecord, PrunerInOrder
<1>5. ASSUME NEW p \in Project, Retire(p)
      PROVE  PrunerInOrder(pr')
  BY <1>1, <1>5 DEF Retire, PrRecord, PrunerInOrder
<1>6. CASE Retired
  BY <1>1, <1>6 DEF Retired, PrRecord, PrunerInOrder
<1>7. ASSUME NEW p \in Project, SweepWalk(p)
      PROVE  PrunerInOrder(pr')
  <2>1. MembersOf(p) \subseteq Project /\ p \notin MembersOf(p)
    BY MembersAreProjects DEF WellFormed
  <2>2. QED
    BY <1>1, <1>7, <2>1 DEF SweepWalk, PrRecord, PrunerInOrder
<1>8. CASE SweepHeld
  <2>1. HeldBy(pr.root) \subseteq Project /\ pr.root \notin HeldBy(pr.root)
    BY DEF WellFormed, Rows, HeldBy
  <2>2. QED
    BY <1>1, <1>8, <2>1 DEF SweepHeld, PrRecord, PrunerInOrder
<1>9. ASSUME NEW p \in Project, SweepClaim(p) \/ SweepRelease(p)
      PROVE  PrunerInOrder(pr')
  <2>1. CASE SweepClaim(p)
    BY <1>1, <2>1 DEF SweepClaim, PrRecord, PrunerInOrder
  <2>2. CASE SweepRelease(p)
    BY <1>1, <2>2 DEF SweepRelease, PrRecord, PrunerInOrder
  <2>3. QED
    BY <1>9, <2>1, <2>2
<1>10. CASE Swept
  BY <1>1, <1>10, FleetAssumption DEF Swept, PrRecord, PrunerInOrder
<1>11. CASE pr' \in {pr, PrIdle}
  BY <1>1, <1>2, <1>11
<1>12. \/ TakeDue \/ LoadRows \/ NoneDead \/ ForgetDead \/ Retired \/ SweepHeld \/ Swept
       \/ \E p \in Project : \/ Retire(p) \/ SweepWalk(p) \/ LookAgain(p)
                             \/ SweepClaim(p) \/ SweepRelease(p)
       \/ pr' \in {pr, PrIdle}
  BY DEF Next, fleetVars, cmdVars, prunerVars, RegisterRoot, RegisterMember, Pass,
     RegisterWalk, Registered, NoteGone, NoteUnlinked, LoseNews, GraceEnds, RunDueEnds,
     RunDueRaises, CmdAsk, CmdForget, CmdRetire, PruneLook, PruneDelete, CmdKilled, Restart,
     FlipMount, World, Delete, Return, FlipParent, FlipLink, FlipBroken
<1>13. QED
  BY <1>3, <1>4, <1>5, <1>6, <1>7, <1>8, <1>9, <1>10, <1>11, <1>12, <1>14, <1>15

\* An enrolment keeps its root apart from the members it has still to claim.
LEMMA EnrolStep ==
    ASSUME WellFormed, [Next]_fleetVars
    PROVE  EnrolInOrder(en')
<1>1. EnrolInOrder(en)
  BY DEF WellFormed
<1>2. ASSUME NEW p \in Project, RegisterRoot(p)
      PROVE  EnrolInOrder(en')
  BY <1>1, <1>2 DEF EnrolInOrder, EnRecord, RegisterRoot
<1>3. ASSUME NEW p \in Project, RegisterMember(p)
      PROVE  EnrolInOrder(en')
  BY <1>1, <1>3 DEF EnrolInOrder, EnRecord, RegisterMember
<1>4. CASE RegisterWalk
  <2>1. MembersOf(en.root) \subseteq Project /\ en.root \notin MembersOf(en.root)
    BY MembersAreProjects DEF WellFormed
  <2>2. QED
    BY <1>1, <1>4, <2>1 DEF EnrolInOrder, EnRecord, RegisterWalk
<1>5. CASE en' \in {en, EnIdle}
  BY <1>1, <1>5, FleetAssumption DEF EnIdle, EnRecord, EnrolInOrder
<1>6. \/ \E p \in Project : RegisterRoot(p) \/ RegisterMember(p)
      \/ RegisterWalk
      \/ en' \in {en, EnIdle}
  BY DEF Next, fleetVars, cmdVars, Pass, Registered, NoteGone, Retire, SweepWalk,
     SweepClaim, SweepRelease, NoteUnlinked, LoseNews, GraceEnds, TakeDue, LoadRows,
     LookAgain, NoneDead, RunDueRaises, ForgetDead, Retired, SweepHeld, Swept, RunDueEnds,
     CmdAsk, CmdForget, CmdRetire, PruneLook, PruneDelete, CmdKilled, Restart, FlipMount,
     World, Delete, Return, FlipParent, FlipLink, FlipBroken
<1>7. QED
  BY <1>2, <1>3, <1>4, <1>5, <1>6

\* The other variables keep their types.
LEMMA TypesStep ==
    ASSUME WellFormed, [Next]_fleetVars
    PROVE  TypeOK'
<1>1. TypeOK
  BY DEF WellFormed
<1>2. DOMAIN rows' \subseteq Project /\ rows' \in [DOMAIN rows' -> Row]
  BY RowsStep DEF Rows
<1>3. pr' \in PrRecord /\ en' \in EnRecord
  BY PrunerStep, EnrolStep DEF PrunerInOrder, EnrolInOrder
<1>4. gone' \in [Project -> Pending] /\ unlinked' \in [Project -> Pending]
  <2>1. gone \in [Project -> Pending] /\ unlinked \in [Project -> Pending]
    BY <1>1 DEF TypeOK
  <2>2. ASSUME NEW p \in Project, NoteGone(p)
        PROVE  gone' \in [Project -> Pending] /\ unlinked' \in [Project -> Pending]
    BY <2>1, <2>2 DEF NoteGone, Pending
  <2>3. ASSUME NEW l \in Link, NoteUnlinked(l)
        PROVE  gone' \in [Project -> Pending] /\ unlinked' \in [Project -> Pending]
    BY <2>1, <2>3 DEF NoteUnlinked, Pending
  <2>4. CASE GraceEnds
    BY <2>1, <2>4 DEF GraceEnds, Elapsed, Pending
  <2>5. CASE TakeDue
    BY <2>1, <2>5 DEF TakeDue, Undue, Pending
  <2>6. CASE gone' \in {gone, NonePending} /\ unlinked' \in {unlinked, NonePending}
    BY <2>1, <2>6 DEF NonePending, Pending
  <2>7. \/ \E p \in Project : NoteGone(p)
        \/ \E l \in Link : NoteUnlinked(l)
        \/ GraceEnds \/ TakeDue
        \/ gone' \in {gone, NonePending} /\ unlinked' \in {unlinked, NonePending}
    BY DEF Next, fleetVars, cmdVars, prunerVars, RegisterRoot, RegisterMember, Pass,
       RegisterWalk, Registered, Retire, SweepWalk, SweepClaim, SweepRelease, LoseNews,
       ForgetDead, LoadRows, LookAgain, NoneDead, RunDueRaises, Retired, SweepHeld, Swept,
       RunDueEnds, CmdAsk, CmdForget, CmdRetire, PruneLook, PruneDelete, CmdKilled, Restart,
       FlipMount, World, Delete, Return, FlipParent, FlipLink, FlipBroken
  <2>8. QED
    BY <2>2, <2>3, <2>4, <2>5, <2>6, <2>7
<1>5. /\ there' \subseteq Project /\ parents' \subseteq Project
      /\ away' \in BOOLEAN /\ links' \subseteq Link
  BY <1>1 DEF TypeOK, Next, fleetVars, cmdVars, diskVars, RegisterRoot, RegisterMember,
     Pass, RegisterWalk, Registered, NoteGone, Retire, SweepWalk, SweepClaim, SweepRelease,
     NoteUnlinked, LoseNews, GraceEnds, TakeDue, LoadRows, LookAgain, NoneDead,
     RunDueRaises, ForgetDead, Retired, SweepHeld, Swept, RunDueEnds, CmdAsk, CmdForget,
     CmdRetire, PruneLook, PruneDelete, CmdKilled, Restart, FlipMount, World, Delete,
     Return, FlipParent, FlipLink, FlipBroken
<1>6. broken' \subseteq Project /\ news' \subseteq Project \cup Link
  BY <1>1, FleetAssumption DEF TypeOK, Next, fleetVars, cmdVars, diskVars, prunerVars,
     RegisterRoot, RegisterMember, Pass, RegisterWalk, Registered, NoteGone, Retire,
     SweepWalk, SweepClaim, SweepRelease, NoteUnlinked, LoseNews, GraceEnds, TakeDue,
     LoadRows, LookAgain, NoneDead, RunDueRaises, ForgetDead, Retired, SweepHeld, Swept,
     RunDueEnds, CmdAsk, CmdForget, CmdRetire, PruneLook, PruneDelete, CmdKilled, Restart,
     FlipMount, World, Delete, Return, FlipParent, FlipLink, FlipBroken
<1>7. /\ asked' \subseteq Project /\ cmd' \subseteq Project
      /\ doomed' \subseteq Project /\ stores' \subseteq Project
  BY <1>1 DEF TypeOK, Next, fleetVars, cmdVars, RegisterRoot, RegisterMember, Pass,
     RegisterWalk, Registered, NoteGone, Retire, SweepWalk, SweepClaim, SweepRelease,
     NoteUnlinked, LoseNews, GraceEnds, TakeDue, LoadRows, LookAgain, NoneDead,
     RunDueRaises, ForgetDead, Retired, SweepHeld, Swept, RunDueEnds, CmdAsk, CmdForget,
     CmdRetire, PruneLook, PruneDelete, CmdKilled, Restart, FlipMount, World, Delete,
     Return, FlipParent, FlipLink, FlipBroken
<1>8. noted' \subseteq Project
  BY <1>1 DEF TypeOK, Next, fleetVars, cmdVars, prunerVars, RegisterRoot, RegisterMember,
     Pass, RegisterWalk, Registered, NoteGone, Retire, SweepWalk, SweepClaim, SweepRelease,
     NoteUnlinked, LoseNews, GraceEnds, TakeDue, LoadRows, LookAgain, NoneDead,
     RunDueRaises, ForgetDead, Retired, SweepHeld, Swept, RunDueEnds, CmdAsk, CmdForget,
     CmdRetire, PruneLook, PruneDelete, CmdKilled, Restart, FlipMount, World, Delete,
     Return, FlipParent, FlipLink, FlipBroken
<1>9. moves' \in 0..MaxMoves
  <2>1. moves \in 0..MaxMoves /\ MaxMoves \in Nat
    BY <1>1, FleetAssumption DEF TypeOK
  <2>2. moves' = moves \/ (moves < MaxMoves /\ moves' = moves + 1)
    BY DEF Next, fleetVars, cmdVars, RegisterRoot, RegisterMember, Pass, RegisterWalk,
       Registered, NoteGone, Retire, SweepWalk, SweepClaim, SweepRelease, NoteUnlinked,
       LoseNews, GraceEnds, TakeDue, LoadRows, LookAgain, NoneDead, RunDueRaises,
       ForgetDead, Retired, SweepHeld, Swept, RunDueEnds, CmdAsk, CmdForget, CmdRetire,
       PruneLook, PruneDelete, CmdKilled, Restart, FlipMount, World, Delete, Return,
       FlipParent, FlipLink, FlipBroken
  <2>3. QED
    BY <2>1, <2>2
<1>10. QED
  BY <1>2, <1>3, <1>4, <1>5, <1>6, <1>7, <1>8, <1>9 DEF TypeOK

LEMMA WellFormedStep == WellFormed /\ [Next]_fleetVars => WellFormed'
BY TypesStep, RowsStep, PrunerStep, EnrolStep DEF WellFormed

LEMMA WellFormedAlways == Spec => []WellFormed
BY InitWellFormed, WellFormedStep, PTL DEF Spec

----------------------------------------------------------------------------
(* What the specification promises *)

\* The registry's rows, the pruner's and the enrolment's local variables and the
\* rest have their types, for any projects and links.
THEOREM FleetTypeCorrect == Spec => []TypeOK
<1>1. WellFormed => TypeOK
  BY DEF WellFormed
<1>2. QED
  BY <1>1, WellFormedAlways, PTL

\* registry.release and registry.forget leave no row that nobody claims, and no
\* claim makes one.
THEOREM RowsAreClaimed == Spec => []EveryRowIsClaimed
<1>1. WellFormed => EveryRowIsClaimed
  BY DEF WellFormed, AllHeld, EveryRowIsClaimed
<1>2. QED
  BY <1>1, WellFormedAlways, PTL

\* The rows implement the set of claims: enrolments, sweeps, the pruner and the
\* commands interleaved, each step of theirs claims once, gives one claim up,
\* forgets projects with all they claim, or leaves the claims alone.
THEOREM RowsKeepClaims == Spec => KeepsClaims
<1>1. Init => Promise!Init
  <2>1. ASSUME Init PROVE ClaimsNow = {} /\ asked \cup pr.dead = {}
    BY <2>1 DEF Init, ClaimsNow, PrIdle
  <2>2. QED
    BY <2>1 DEF Promise!Init
<1>2. WellFormed /\ [Next]_fleetVars => [Promise!Next]_<<ClaimsNow, asked \cup pr.dead>>
  <2> SUFFICES ASSUME WellFormed, [Next]_fleetVars
               PROVE  [Promise!Next]_<<ClaimsNow, asked \cup pr.dead>>
    OBVIOUS
  <2>1. ClaimsNow = ClaimsOf(rows) /\ ClaimsNow' = ClaimsOf(rows')
    BY DEF ClaimsNow, ClaimsOf
  <2>2. ClaimStep(rows, rows', asked \cup pr.dead)
    BY RowsStep
  <2>3. (asked \cup pr.dead)' \in SUBSET Project
    BY TypesStep DEF TypeOK, PrRecord
  <2>4. CASE rows' = rows
    BY <2>1, <2>3, <2>4 DEF Promise!Next
  <2>5. CASE \E p, c \in Project : ClaimsOf(rows') = ClaimsOf(rows) \cup {<<p, c>>}
    BY <2>1, <2>3, <2>5 DEF Promise!Next, Promise!Claim
  <2>6. CASE \E p, c \in Project : p # c /\ ClaimsOf(rows') = ClaimsOf(rows) \ {<<p, c>>}
    BY <2>1, <2>3, <2>6 DEF Promise!Next, Promise!GiveUp
  <2>7. CASE \E keys \in SUBSET (asked \cup pr.dead) :
               ClaimsOf(rows') = {c \in ClaimsOf(rows) : c[1] \notin keys /\ c[2] \notin keys}
    <3>1. asked \cup pr.dead \in SUBSET Project
      BY DEF WellFormed, TypeOK, PrRecord
    <3>2. PICK keys \in SUBSET (asked \cup pr.dead) :
             ClaimsOf(rows') = {c \in ClaimsOf(rows) : c[1] \notin keys /\ c[2] \notin keys}
      BY <2>7
    <3>3. Promise!Forget(keys) /\ keys \in SUBSET Project
      BY <2>1, <3>1, <3>2 DEF Promise!Forget
    <3>4. QED
      BY <2>3, <3>3 DEF Promise!Next
  <2>8. QED
    BY <2>2, <2>4, <2>5, <2>6, <2>7 DEF ClaimStep
<1>3. QED
  BY <1>1, <1>2, WellFormedAlways, PTL DEF Spec, KeepsClaims, Promise!Spec

\* prune's lock: between the look and the last deletion no row comes for a graph
\* that is being deleted.
THEOREM PruneWaitsForNobodys == Spec => []PruneSparesTheEnrolled
<1>1. Init => PruneSparesTheEnrolled
  BY DEF Init, PruneSparesTheEnrolled
<1>2. PruneSparesTheEnrolled /\ [Next]_fleetVars => PruneSparesTheEnrolled'
  <2> SUFFICES ASSUME PruneSparesTheEnrolled, [Next]_fleetVars
               PROVE  PruneSparesTheEnrolled'
    OBVIOUS
  <2>1. ASSUME \/ \E p \in Project : RegisterRoot(p) \/ RegisterMember(p)
               \/ \E p \in Project : SweepClaim(p) \/ SweepRelease(p)
               \/ ForgetDead \/ CmdForget
        PROVE  doomed' = {}
    BY <2>1 DEF RegisterRoot, RegisterMember, SweepClaim, SweepRelease, ForgetDead, CmdForget,
       LockIsFree, cmdVars
  <2>2. ASSUME NEW force \in BOOLEAN, PruneLook(force)
        PROVE  doomed' \cap DOMAIN rows' = {}
    BY <2>2 DEF PruneLook
  <2>3. CASE doomed' \subseteq doomed /\ rows' = rows
    BY <2>3 DEF PruneSparesTheEnrolled
  <2>4. \/ \E p \in Project : RegisterRoot(p) \/ RegisterMember(p)
        \/ \E p \in Project : SweepClaim(p) \/ SweepRelease(p)
        \/ ForgetDead \/ CmdForget
        \/ \E force \in BOOLEAN : PruneLook(force)
        \/ doomed' \subseteq doomed /\ rows' = rows
    BY DEF Next, fleetVars, cmdVars, Pass, RegisterWalk, Registered, NoteGone, Retire,
       SweepWalk, NoteUnlinked, LoseNews, GraceEnds, TakeDue, LoadRows, LookAgain, NoneDead,
       RunDueRaises, Retired, SweepHeld, Swept, RunDueEnds, CmdAsk, CmdRetire, PruneDelete,
       CmdKilled, Restart, FlipMount, World, Delete, Return, FlipParent, FlipLink,
       FlipBroken
  <2>5. QED
    BY <2>1, <2>2, <2>3, <2>4 DEF PruneSparesTheEnrolled
<1>3. QED
  BY <1>1, <1>2, PTL DEF Spec

----------------------------------------------------------------------------
(* Deletions *)

\* What has been noted and has not come back can still be told from what is there.
Noted ==
    \A p \in noted : LooksDeleted(p) /\ (gone[p] # "no" \/ p \in pr.taken \cup pr.dead)

LEMMA NotedStep ==
    ASSUME WellFormed, Noted, [Next]_fleetVars
    PROVE  Noted'
<1>1. /\ noted \subseteq Project /\ Volatile \subseteq Project
      /\ gone \in [Project -> Pending]
  BY FleetAssumption DEF WellFormed, TypeOK
<1>2. ASSUME NEW p \in Project, NoteGone(p)
      PROVE  Noted'
  BY <1>1, <1>2 DEF NoteGone, Noted, LooksDeleted, Present, Unmounted, diskVars
<1>3. CASE GraceEnds
  BY <1>1, <1>3 DEF GraceEnds, Elapsed, Noted, LooksDeleted, Present, Unmounted, diskVars
<1>4. CASE TakeDue
  <2> SUFFICES ASSUME NEW p \in noted
               PROVE  LooksDeleted(p)' /\ (gone'[p] # "no" \/ p \in pr'.taken)
    BY <1>4 DEF Noted, TakeDue
  <2>1. p \in Project /\ LooksDeleted(p)'
    BY <1>1, <1>4 DEF TakeDue, Noted, LooksDeleted, Present, Unmounted, diskVars
  <2>2. pr.taken = {} /\ pr.dead = {} /\ pr'.taken = Due(gone)
    BY <1>4 DEF TakeDue, PrIdle, WellFormed, PrunerInOrder
  <2>3. gone[p] # "no"
    BY <2>2 DEF Noted
  <2>4. CASE p \notin Due(gone)
    BY <1>4, <2>1, <2>3, <2>4 DEF TakeDue, Undue, Due
  <2>5. QED
    BY <2>1, <2>2, <2>4
<1>13. CASE LoadRows
  <2>1. UNCHANGED <<gone, there, parents, away>> /\ pr'.taken = pr.taken \cap DOMAIN rows
        /\ pr'.dead = pr.dead /\ noted' = noted \ (pr.taken \ DOMAIN rows)
    BY <1>13 DEF LoadRows, diskVars, WellFormed, PrunerInOrder, PrRecord
  <2>2. QED
    BY <2>1 DEF Noted, LooksDeleted, Present, Unmounted
<1>14. ASSUME NEW q \in Project, LookAgain(q)
       PROVE  Noted'
  <2>1. UNCHANGED <<noted, gone, there, parents, away>> /\ pr'.taken = pr.taken \ {q}
        /\ pr'.dead = IF LooksDeleted(q) THEN pr.dead \cup {q} ELSE pr.dead
    BY <1>14 DEF LookAgain, diskVars, WellFormed, PrunerInOrder, PrRecord
  <2>2. QED
    BY <2>1 DEF Noted, LooksDeleted, Present, Unmounted
<1>15. CASE RunDueRaises
  BY <1>15 DEF RunDueRaises, diskVars, Noted, LooksDeleted, Present, Unmounted
<1>5. CASE ForgetDead
  BY <1>5 DEF ForgetDead, diskVars, Noted, LooksDeleted, Present, Unmounted
<1>6. CASE Restart
  BY <1>6 DEF Restart, Noted
<1>7. ASSUME NEW p \in Project, Delete(p) \/ Return(p) \/ FlipParent(p)
      PROVE  Noted'
  BY <1>7 DEF Delete, Return, FlipParent, World, Noted, LooksDeleted, Present, Unmounted
<1>8. CASE FlipMount
  BY <1>8 DEF FlipMount, World, Noted, LooksDeleted, Present, Unmounted
<1>9. ASSUME \/ \E p \in Project : \/ Retire(p) \/ SweepWalk(p)
                                   \/ SweepClaim(p) \/ SweepRelease(p)
             \/ SweepHeld \/ Swept \/ RunDueEnds \/ Retired \/ NoneDead
      PROVE  Noted'
  <2>1. pr.taken = {} /\ pr.dead = {}
    BY <1>9 DEF WellFormed, PrunerInOrder, Retire, SweepWalk, SweepClaim, SweepRelease,
                SweepHeld, Swept, RunDueEnds, Retired, NoneDead
  <2>2. UNCHANGED <<noted, gone, there, parents, away>>
    BY <1>9 DEF diskVars, Retire, SweepWalk, SweepClaim, SweepRelease, SweepHeld, Swept,
                RunDueEnds, Retired, NoneDead
  <2>3. QED
    BY <2>1, <2>2 DEF Noted, LooksDeleted, Present, Unmounted
<1>10. CASE UNCHANGED <<noted, gone, there, parents, away, pr>>
  BY <1>10 DEF Noted, LooksDeleted, Present, Unmounted
<1>11. \/ \E p \in Project : \/ NoteGone(p) \/ Delete(p) \/ Return(p)
                             \/ FlipParent(p) \/ LookAgain(p)
                             \/ Retire(p) \/ SweepWalk(p) \/ SweepClaim(p) \/ SweepRelease(p)
       \/ GraceEnds \/ TakeDue \/ LoadRows \/ RunDueRaises \/ ForgetDead \/ Restart
       \/ FlipMount \/ SweepHeld \/ Swept \/ RunDueEnds \/ Retired \/ NoneDead
       \/ UNCHANGED <<noted, gone, there, parents, away, pr>>
  BY DEF Next, fleetVars, cmdVars, prunerVars, diskVars, RegisterRoot, RegisterMember, Pass,
     RegisterWalk, Registered, NoteUnlinked, LoseNews, CmdAsk, CmdForget, CmdRetire,
     PruneLook, PruneDelete, CmdKilled, World, FlipLink, FlipBroken
<1>12. QED
  BY <1>2, <1>3, <1>4, <1>5, <1>6, <1>7, <1>8, <1>9, <1>10, <1>11, <1>13, <1>14, <1>15

\* A deletion that was noted and can still be told waits, or is in the hands of
\* run_due, until its project is forgotten: only a return, a parent or a volume
\* that leaves, an exception in run_due or a restart ends that.
THEOREM NothingNotedIsDropped == Spec => []NoDeletionIsDropped
<1>1. Init => Noted
  BY DEF Init, Noted
<1>2. WellFormed /\ Noted /\ [Next]_fleetVars => Noted'
  BY NotedStep
<1>3. Noted => NoDeletionIsDropped
  BY DEF Noted, NoDeletionIsDropped
<1>4. QED
  BY <1>1, <1>2, <1>3, WellFormedAlways, PTL DEF Spec

=============================================================================
