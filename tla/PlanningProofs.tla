--------------------------- MODULE PlanningProofs ---------------------------
(***************************************************************************)
(* Proofs about Planning.tla, for every set of task files and contents of  *)
(* the default branch, whatever the model answers, every trigger cap and   *)
(* any number of crashes, failed calls and acts of people.                 *)
(***************************************************************************)
EXTENDS Planning, SelectionProofs

-----------------------------------------------------------------------------
(* The inductive invariant.                                                *)

AfterRequired == Pcs \ {"idle", "claudeauth", "token", "required", "deliver"}
AfterConsent == AfterRequired \ {"installation", "consent"}
AfterScope == AfterConsent \ {"scope"}
AfterPins == AfterScope \ {"clone", "pins"}
AfterTargets == AfterPins \ {"targets"}

(* What a running Job has established by the time it stands at pc.         *)
GateInv ==
    /\ pc # "idle" => phase = "planning"
    /\ pc \in AfterRequired => task.required
    /\ pc \in AfterConsent => task.consent = "true"
    /\ pc \in AfterScope => Scope \in Scopes
    /\ pc \in AfterPins => ~clone.pinned
    /\ pc \in AfterTargets => clone.targets # <<>> /\ task.advisory # "malformed"

(* The rows of the targets that have run follow the advisory's own.        *)
FoundBy(n) == (UNION {IdsOf(clone.targets[i].rows) : i \in 1..n})
                \cup ({task.advisory} \cap Ids)

ExternalComesFirst(t) ==
    /\ \A i \in 1..Len(t) : t[i].from = "external" => i = 1
    /\ task.advisory \in Ids => /\ Len(t) > 0
                                /\ t[1] = [id |-> task.advisory, fixed |-> TRUE, from |-> "external"]

(* The ID the advisory introduced has one row, and that has a fix.         *)
AdvisoryIsUnique(t) ==
    task.advisory \in IdsOf(t) =>
        \E i \in 1..Len(t) :
            /\ t[i].fixed
            /\ \A j \in 1..Len(t) : t[j].id = task.advisory <=> j = i

TableInv ==
    /\ pc \notin AfterTargets \cup {"deliver"} => target = 0
    /\ pc = "gates" => /\ target < Len(clone.targets)
                       /\ IdsOf(table) = FoundBy(target)
                       /\ ExternalComesFirst(table)
    /\ pc = "suppress" => IdsOf(table) = FoundBy(Len(clone.targets))
    /\ pc = "inspect" => IdsOf(table) = FoundBy(Len(clone.targets)) \ clone.suppressed
    /\ pc \in {"suppress", "inspect"} => AdvisoryIsUnique(table)

(* A plan with findings of its own content only.                           *)
Grounded(p) == \A v \in p.vulns : v.id \in Reported(p.on, p.advisory) \ p.on.suppressed

(* A plan execution accepts, one that closes its task, and one that asks   *)
(* for a person.                                                           *)
Ready(p) ==
    /\ task.required /\ task.consent = "true" /\ task.advisory # "malformed"
    /\ Scope \in Scopes
    /\ HasWork(p) /\ p.gates > 0
    /\ ~p.on.pinned /\ ParkFindings(p) = {}

Closing(p) == \/ task.consent \in {"absent", "false"}
              \/ p.warning
              \/ p.gates > 0 /\ ~HasWork(p)

Refused(p) == task.consent = "invalid" /\ p.outcome = "failed"

RoutingInv ==
    /\ next # "none" => pc = "deliver"
    /\ stamped => next = "human_review"
    /\ next = "execution" => Ready(section)
    /\ next = "done" => Closing(section)
    /\ next = "human_review" => Refused(section) /\ stamped = HasOwner

PhaseInv ==
    /\ phase = "execution" => Ready(plan)
    /\ phase = "done" => Closing(plan)
    /\ phase = "human_review" => /\ Refused(plan)
                                 /\ assignee = (IF HasOwner THEN "owner" ELSE "none")

IInv == /\ TypeOK
        /\ GateInv
        /\ TableInv
        /\ Grounded(plan) /\ Grounded(section)
        /\ RoutingInv
        /\ PhaseInv

-----------------------------------------------------------------------------
(* The scanner table.                                                      *)

(* The IDs of a table, row by row.                                         *)
LEMMA IdsOfRows ==
    ASSUME NEW t \in Seq(Rows)
    PROVE  IdsOf(t) = {t[i].id : i \in 1..Len(t)}
<1>1. DOMAIN t = 1..Len(t)
  OBVIOUS
<1> QED
  BY <1>1 DEF IdsOf, ToSet

(* Rows appended to a table add their IDs and lose none.                   *)
LEMMA IdsOfConcat ==
    ASSUME NEW t \in Seq(Rows), NEW u \in Seq(Rows)
    PROVE  t \o u \in Seq(Rows) /\ IdsOf(t \o u) = IdsOf(t) \cup IdsOf(u)
<1>1. /\ t \o u \in Seq(Rows)
      /\ Len(t \o u) = Len(t) + Len(u)
      /\ Len(t) \in Nat /\ Len(u) \in Nat
      /\ \A i \in 1..Len(t) : (t \o u)[i] = t[i]
      /\ \A i \in 1..Len(u) : (t \o u)[Len(t) + i] = u[i]
  OBVIOUS
<1>2. \A i \in 1..Len(t \o u) : i \in 1..Len(t) \/ \E j \in 1..Len(u) : i = Len(t) + j
  <2> SUFFICES ASSUME NEW i \in 1..Len(t \o u), i \notin 1..Len(t)
               PROVE  \E j \in 1..Len(u) : i = Len(t) + j
    OBVIOUS
  <2>1. i - Len(t) \in 1..Len(u) /\ i = Len(t) + (i - Len(t))
    BY <1>1
  <2> QED
    BY <2>1
<1>3. \A i \in 1..Len(t) : i \in 1..Len(t \o u)
  BY <1>1
<1>4. \A i \in 1..Len(u) : Len(t) + i \in 1..Len(t \o u)
  BY <1>1
<1>5. {(t \o u)[i].id : i \in 1..Len(t \o u)}
        = {t[i].id : i \in 1..Len(t)} \cup {u[i].id : i \in 1..Len(u)}
  <2>1. ASSUME NEW i \in 1..Len(t \o u)
        PROVE  \/ \E j \in 1..Len(t) : (t \o u)[i].id = t[j].id
               \/ \E j \in 1..Len(u) : (t \o u)[i].id = u[j].id
    BY <1>1, <1>2
  <2>2. \A i \in 1..Len(t) : \E j \in 1..Len(t \o u) : (t \o u)[j].id = t[i].id
    BY <1>1, <1>3
  <2>3. \A i \in 1..Len(u) : \E j \in 1..Len(t \o u) : (t \o u)[j].id = u[i].id
    BY <1>1, <1>4
  <2>4. ASSUME NEW x \in {(t \o u)[i].id : i \in 1..Len(t \o u)}
        PROVE  x \in {t[i].id : i \in 1..Len(t)} \cup {u[i].id : i \in 1..Len(u)}
    <3>1. PICK i \in 1..Len(t \o u) : x = (t \o u)[i].id
      OBVIOUS
    <3> QED
      BY <2>1, <3>1
  <2>5. ASSUME NEW x \in {t[i].id : i \in 1..Len(t)}
        PROVE  x \in {(t \o u)[i].id : i \in 1..Len(t \o u)}
    <3>1. PICK i \in 1..Len(t) : x = t[i].id
      OBVIOUS
    <3>2. PICK j \in 1..Len(t \o u) : (t \o u)[j].id = t[i].id
      BY <2>2
    <3> QED
      BY <3>1, <3>2
  <2>6. ASSUME NEW x \in {u[i].id : i \in 1..Len(u)}
        PROVE  x \in {(t \o u)[i].id : i \in 1..Len(t \o u)}
    <3>1. PICK i \in 1..Len(u) : x = u[i].id
      OBVIOUS
    <3>2. PICK j \in 1..Len(t \o u) : (t \o u)[j].id = u[i].id
      BY <2>3
    <3> QED
      BY <3>1, <3>2
  <2> QED
    BY <2>4, <2>5, <2>6, Zenon
<1> QED
  BY <1>1, <1>5, IdsOfRows

(* r has the findings of t at the positions in I; one whose finding is the *)
(* only one of its kind there is the only one of its kind in r.            *)
Selects(r, t, I) ==
    /\ r \in Seq(Rows)
    /\ IdsOf(r) = {t[i].id : i \in I}
    /\ \A w \in I : (\A i \in I : t[i].id = t[w].id => i = w) =>
          \E j \in 1..Len(r) : /\ r[j] = t[w]
                               /\ \A k \in 1..Len(r) : r[k].id = t[w].id <=> k = j

(* What a selection of rows has of IDs, and that a row whose ID no other   *)
(* selected row has is the only one with it.                               *)
LEMMA SelectedRows ==
    ASSUME NEW t \in Seq(Rows), NEW I, I \subseteq 1..Len(t)
    PROVE  Selects(KeepAt(t, I), t, I)
<1> DEFINE r == KeepAt(t, I)
<1>1. I \cap (1..Len(t)) = I
  OBVIOUS
<1>2. r \in Seq(Rows) /\ \E h : Enumerates(h, r, t, I)
  BY <1>1, KeepAtSelects
<1> HIDE DEF r
<1>3. PICK h : Enumerates(h, r, t, I)
  BY <1>2
<1>4. /\ \A j \in 1..Len(r) : h[j] \in I /\ r[j] = t[h[j]]
      /\ \A i \in I : \E j \in 1..Len(r) : h[j] = i
  BY <1>3 DEF Enumerates
<1>5. Len(r) \in Nat /\ Len(t) \in Nat
  BY <1>2
<1>6. IdsOf(r) = {t[i].id : i \in I}
  <2>1. IdsOf(r) = {r[j].id : j \in 1..Len(r)}
    BY <1>2, IdsOfRows
  <2>2. \A j \in 1..Len(r) : \E i \in I : r[j].id = t[i].id
    BY <1>4
  <2>3. \A i \in I : \E j \in 1..Len(r) : r[j].id = t[i].id
    BY <1>4
  <2>4. ASSUME NEW x \in {r[j].id : j \in 1..Len(r)}
        PROVE  x \in {t[i].id : i \in I}
    <3>1. PICK j \in 1..Len(r) : x = r[j].id
      OBVIOUS
    <3> QED
      BY <2>2, <3>1
  <2>5. ASSUME NEW x \in {t[i].id : i \in I}
        PROVE  x \in {r[j].id : j \in 1..Len(r)}
    <3>1. PICK i \in I : x = t[i].id
      OBVIOUS
    <3> QED
      BY <2>3, <3>1
  <2> QED
    BY <2>1, <2>4, <2>5, Zenon
<1>7. ASSUME NEW w \in I, \A i \in I : t[i].id = t[w].id => i = w
      PROVE  \E j \in 1..Len(r) :
                 /\ r[j] = t[w]
                 /\ \A k \in 1..Len(r) : r[k].id = t[w].id <=> k = j
  <2>1. PICK j \in 1..Len(r) : h[j] = w
    BY <1>4
  <2>2. ASSUME NEW k \in 1..Len(r), r[k].id = t[w].id
        PROVE  k = j
    <3>1. h[k] = w
      <4>1. h[k] \in I /\ t[h[k]].id = t[w].id
        BY <1>4, <2>2
      <4> QED
        BY <1>7, <4>1
    <3>2. ~(k < j) /\ ~(j < k)
      <4>1. \A i \in I : i \in Int
        BY <1>5
      <4> QED
        BY <1>3, <1>4, <2>1, <3>1, <4>1 DEF Enumerates
    <3> QED
      BY <1>5, <3>2
  <2> QED
    BY <1>4, <2>1, <2>2
<1>8. Selects(r, t, I)
  BY <1>2, <1>6, <1>7 DEF Selects
<1> QED
  BY <1>8 DEF r

(* The first element with some property, as SelectInSeq finds it.          *)
LEMMA FirstOf ==
    ASSUME NEW I \in SUBSET Nat, I # {}
    PROVE  Min(I) \in I /\ \A i \in I : Min(I) <= i
<1>1. \E m \in I : \A i \in I : m <= i
  BY LeastNatural
<1> QED
  BY <1>1 DEF Min

(* The collapse drops no ID, and leaves the one the advisory introduced a  *)
(* single row, which has a fixed version.                                  *)
LEMMA CollapseIsComplete ==
    ASSUME NEW t \in Seq(Rows),
           \A i \in 1..Len(t) : t[i].from = "external" => i = 1
    PROVE  /\ CollapseExternalDuplicates(t) \in Seq(Rows)
           /\ IdsOf(CollapseExternalDuplicates(t)) = IdsOf(t)
           /\ Len(t) > 0 /\ t[1].from = "external" /\ t[1].fixed =>
                 \E j \in 1..Len(CollapseExternalDuplicates(t)) :
                     /\ CollapseExternalDuplicates(t)[j].fixed
                     /\ \A k \in 1..Len(CollapseExternalDuplicates(t)) :
                            CollapseExternalDuplicates(t)[k].id = t[1].id <=> k = j
<1> DEFINE E == {i \in 1..Len(t) : t[i].from = "external"}
           external == IF E # {} THEN Min(E) ELSE 0
           B == {i \in 1..Len(t) : /\ t[i].id = t[external].id
                                   /\ t[i].from = "scanner" /\ t[i].fixed}
           better == IF B # {} THEN Min(B) ELSE 0
           winner == IF better = 0 THEN external ELSE better
           I == {i \in 1..Len(t) : t[i].id # t[external].id \/ i = winner}
           C == CollapseExternalDuplicates(t)
<1>1. C = IF external = 0 THEN t ELSE KeepAt(t, I)
  BY DEF CollapseExternalDuplicates, SelectInSeq
<1>2. Len(t) \in Nat
  OBVIOUS
<1>3. CASE E = {}
  <2>1. external = 0 /\ ~(Len(t) > 0 /\ t[1].from = "external")
    BY <1>2, <1>3
  <2> HIDE DEF external, C
  <2>2. C = t
    BY <1>1, <2>1
  <2> QED
    BY <2>1, <2>2 DEF C
<1>4. CASE E # {}
  <2>1. E \in SUBSET Nat /\ B \in SUBSET Nat
    BY <1>2
  <2>2. external \in E
    <3> HIDE DEF E
    <3> QED
      BY <1>4, <2>1, FirstOf
  <2>3. external = 1 /\ 1 \in 1..Len(t) /\ t[1].from = "external"
    BY <2>2
  <2>4. B # {} => better \in B
    <3> HIDE DEF B
    <3> QED
      BY <2>1, FirstOf
  <2>5. B = {} => better = 0
    OBVIOUS
  <2> HIDE DEF external, better
  <2>6. /\ winner \in 1..Len(t)
        /\ t[winner].id = t[1].id
        /\ t[1].fixed => t[winner].fixed
    <3>1. CASE B = {}
      BY <2>3, <2>5, <3>1
    <3>2. CASE B # {}
      BY <1>2, <2>3, <2>4, <3>2
    <3> QED
      BY <3>1, <3>2
  <2> HIDE DEF winner
  <2>7. /\ I \subseteq 1..Len(t)
        /\ winner \in I
        /\ \A i \in I : t[i].id = t[winner].id => i = winner
        /\ {t[i].id : i \in I} = {t[i].id : i \in 1..Len(t)}
    BY <2>3, <2>6
  <2> HIDE DEF I, C
  <2>8. C = KeepAt(t, I)
    BY <1>1, <2>3
  <2>9. /\ C \in Seq(Rows) /\ IdsOf(C) = {t[i].id : i \in I}
        /\ \E j \in 1..Len(C) : /\ C[j] = t[winner]
                                /\ \A k \in 1..Len(C) : C[k].id = t[winner].id <=> k = j
    <3>1. I \subseteq 1..Len(t) /\ winner \in I
          /\ \A i \in I : t[i].id = t[winner].id => i = winner
      BY <2>7
    <3>2. Selects(C, t, I)
      BY <2>8, <3>1, SelectedRows
    <3> QED
      BY <3>1, <3>2, Zenon DEF Selects
  <2>10. IdsOf(C) = IdsOf(t)
    BY <2>7, <2>9, IdsOfRows
  <2> QED
    BY <2>6, <2>9, <2>10 DEF C
<1> QED
  BY <1>3, <1>4

(* FilterSuppressed drops the rows of the suppressed IDs and no others.    *)
LEMMA FilterIsComplete ==
    ASSUME NEW t \in Seq(Rows), NEW suppressed
    PROVE  /\ FilterSuppressed(t, suppressed) \in Seq(Rows)
           /\ IdsOf(FilterSuppressed(t, suppressed)) = IdsOf(t) \ suppressed
           /\ \A i \in 1..Len(t) :
                 (\A j \in 1..Len(t) : t[j].id = t[i].id <=> j = i) /\ t[i].id \notin suppressed =>
                    \E j \in 1..Len(FilterSuppressed(t, suppressed)) :
                        /\ FilterSuppressed(t, suppressed)[j] = t[i]
                        /\ \A k \in 1..Len(FilterSuppressed(t, suppressed)) :
                               FilterSuppressed(t, suppressed)[k].id = t[i].id <=> k = j
<1> DEFINE I == {i \in 1..Len(t) : t[i].id \notin suppressed}
           F == FilterSuppressed(t, suppressed)
<1>1. F = KeepAt(t, I) /\ I \subseteq 1..Len(t)
  BY DEF FilterSuppressed
<1>2. IdsOf(t) = {t[i].id : i \in 1..Len(t)}
  BY IdsOfRows
<1>3. {t[i].id : i \in I} = IdsOf(t) \ suppressed
  BY <1>2
<1>4. \A i \in 1..Len(t) : t[i].id \notin suppressed => i \in I
  OBVIOUS
<1> HIDE DEF I, F
<1>5. /\ F \in Seq(Rows) /\ IdsOf(F) = {t[i].id : i \in I}
      /\ \A w \in I : (\A i \in I : t[i].id = t[w].id => i = w) =>
            \E j \in 1..Len(F) : /\ F[j] = t[w]
                                 /\ \A k \in 1..Len(F) : F[k].id = t[w].id <=> k = j
  <2>1. Selects(F, t, I)
    BY <1>1, SelectedRows
  <2> QED
    BY <2>1 DEF Selects
<1>6. \A i \in 1..Len(t) :
          (\A j \in 1..Len(t) : t[j].id = t[i].id <=> j = i) /\ t[i].id \notin suppressed =>
             \E j \in 1..Len(F) : /\ F[j] = t[i]
                                  /\ \A k \in 1..Len(F) : F[k].id = t[i].id <=> k = j
  BY <1>1, <1>4, <1>5
<1> QED
  BY <1>3, <1>5, <1>6 DEF F

-----------------------------------------------------------------------------
(* The plan.                                                               *)

(* Narrowing a plan to a scope keeps a plan, and the work in that scope.   *)
LEMMA ScopeNarrows ==
    ASSUME NEW p \in Plans, NEW s \in Scopes
    PROVE  /\ AppliesScope(p, s) \in Plans
           /\ AppliesScope(p, s).vulns \subseteq p.vulns
           /\ HasWorkForScope(AppliesScope(p, s), s) <=> HasWorkForScope(p, s)
<1> USE DEF Plans, Scopes, AppliesScope, HasWorkForScope, OnlyGolangScopedVulns, VulnKinds
<1>1. CASE s = "golang"
  BY <1>1
<1>2. CASE s = "deps"
  BY <1>2
<1>3. CASE s = "both"
  BY <1>3
<1> QED
  BY <1>1, <1>2, <1>3

(* appliesScope makes a plan of a plan, and changes nothing of it but the  *)
(* work it asks for.                                                       *)
LEMMA InScopeKeeps ==
    ASSUME NEW p \in PlanType, Scope \in Scopes
    PROVE  /\ InScope(p) \in PlanType
           /\ InScope(p).vulns \subseteq p.vulns
           /\ InScope(p).gates = p.gates /\ InScope(p).on = p.on
           /\ InScope(p).advisory = p.advisory
<1>1. Shape(p) \in Plans
  BY DEF Shape, Plans, PlanType, Vulns
<1> DEFINE scoped == AppliesScope(Shape(p), Scope)
<1>2. scoped.go \in BOOLEAN /\ scoped.deps \in BOOLEAN
  BY <1>1, ScopeNarrows DEF Plans
<1> HIDE DEF scoped
<1> DEFINE Narrowed(g, d, W) == [p EXCEPT !.go = g, !.deps = d, !.vulns = W]
<1>3. \A g, d \in BOOLEAN : \A W \in SUBSET p.vulns :
          /\ Narrowed(g, d, W) \in PlanType
          /\ Narrowed(g, d, W).vulns = W
          /\ Narrowed(g, d, W).gates = p.gates
          /\ Narrowed(g, d, W).on = p.on
          /\ Narrowed(g, d, W).advisory = p.advisory
  BY DEF PlanType
<1> DEFINE V == {v \in p.vulns : v.kind \in scoped.vulns}
<1>4. V \in SUBSET p.vulns
  OBVIOUS
<1>5. InScope(p) = Narrowed(scoped.go, scoped.deps, V)
  BY DEF InScope, scoped, PlanType
<1> HIDE DEF V, Narrowed
<1> QED
  BY <1>2, <1>3, <1>4, <1>5

(* The plan of an answer that passed the check against the table names     *)
(* findings of the content it was made from, and of nothing else.          *)
LEMMA InspectedIsGrounded ==
    ASSUME TypeOK, TableInv, pc = "inspect", NEW answer \in Answers,
           IsGrounded(Inspected(answer))
    PROVE  /\ Inspected(answer) \in PlanType
           /\ Grounded(Inspected(answer))
           /\ Inspected(answer).gates = Len(clone.targets)
           /\ Inspected(answer).on = clone
<1> DEFINE p == Inspected(answer)
<1>1. /\ answer.outcome \in Outcomes /\ answer.go \in BOOLEAN /\ answer.deps \in BOOLEAN
      /\ answer.vulns \subseteq Vulns
  BY PlanningAssumption
<1>2. Len(clone.targets) \in Nat
  BY PlanningAssumption DEF TypeOK, NoClone
<1>3. task.advisory \in Ids \cup {"none", "malformed"}
  BY PlanningAssumption DEF TypeOK
<1>4. /\ p.vulns \subseteq answer.vulns
      /\ p.on = clone /\ p.advisory = task.advisory /\ p.gates = Len(clone.targets)
  BY DEF Inspected
<1>5. p \in PlanType
  BY <1>1, <1>2, <1>3 DEF Inspected, PlanType, TypeOK
<1>6. IdsOf(table) = Reported(clone, task.advisory) \ clone.suppressed
  BY DEF TableInv, FoundBy, Reported
<1>7. Grounded(p)
  BY <1>4, <1>6 DEF Grounded, IsGrounded
<1> QED
  BY <1>4, <1>5, <1>7

-----------------------------------------------------------------------------
(* The loop over the gate targets.                                         *)

(* The rows of one more target.                                            *)
LEMMA OneMoreTarget ==
    ASSUME TypeOK, TableInv, pc = "gates", NEW t,
           t = table \o clone.targets[target + 1].rows
    PROVE  /\ t \in Seq(Rows)
           /\ target + 1 \in 0..Len(clone.targets)
           /\ IdsOf(t) = FoundBy(target + 1)
           /\ ExternalComesFirst(t)
<1>1. /\ target \in Nat /\ target < Len(clone.targets) /\ Len(clone.targets) \in Nat
      /\ table \in Seq(Rows) /\ IdsOf(table) = FoundBy(target) /\ ExternalComesFirst(table)
  BY PlanningAssumption DEF TypeOK, TableInv, NoClone
<1> DEFINE u == clone.targets[target + 1].rows
<1>2. clone.targets \in Seq(Outputs)
  BY <1>1, PlanningAssumption DEF TypeOK, NoClone
<1>3. clone.targets[target + 1] \in Outputs
  BY <1>1, <1>2
<1>4. u \in Seq([id : Ids, fixed : BOOLEAN, from : {"scanner"}])
  BY <1>3 DEF Outputs
<1>5. u \in Seq(Rows) /\ \A i \in 1..Len(u) : u[i].from = "scanner"
  <2>1. [id : Ids, fixed : BOOLEAN, from : {"scanner"}] \subseteq Rows
    BY DEF Rows
  <2> DEFINE A == [id : Ids, fixed : BOOLEAN, from : {"scanner"}]
  <2> HIDE DEF u, A
  <2>2. u \in Seq(A) /\ A \subseteq Rows /\ \A r \in A : r.from = "scanner"
    BY <1>4, <2>1 DEF A
  <2>3. \A i \in 1..Len(u) : u[i] \in A
    BY <2>2
  <2>4. u \in Seq(Rows)
    BY <2>2, <2>3
  <2> QED
    BY <2>2, <2>3, <2>4
<1> HIDE DEF u
<1>6. t \in Seq(Rows) /\ IdsOf(t) = IdsOf(table) \cup IdsOf(u)
  BY <1>1, <1>5, IdsOfConcat DEF u
<1>7. FoundBy(target + 1) = FoundBy(target) \cup IdsOf(u)
  <2>1. 1..(target + 1) = (1..target) \cup {target + 1}
    BY <1>1
  <2> QED
    BY <2>1 DEF FoundBy, u
<1>8. ExternalComesFirst(t)
  <2>1. /\ Len(t) = Len(table) + Len(u)
        /\ Len(table) \in Nat /\ Len(u) \in Nat
        /\ \A i \in 1..Len(table) : t[i] = table[i]
        /\ \A i \in 1..Len(u) : t[Len(table) + i] = u[i]
    <3>1. t = table \o u
      BY DEF u
    <3> QED
      BY <1>1, <1>5, <3>1
  <2>2. ASSUME NEW i \in 1..Len(t), t[i].from = "external"
        PROVE  i = 1
    <3>1. CASE i \in 1..Len(table)
      BY <1>1, <2>1, <2>2, <3>1 DEF ExternalComesFirst
    <3>2. CASE i \notin 1..Len(table)
      <4>1. i - Len(table) \in 1..Len(u) /\ t[Len(table) + (i - Len(table))] = t[i]
        BY <2>1, <3>2
      <4>2. t[i].from = "scanner"
        BY <1>5, <2>1, <4>1
      <4> QED
        BY <2>2, <4>2
    <3> QED
      BY <3>1, <3>2
  <2>3. task.advisory \in Ids => Len(t) > 0 /\ t[1] = table[1]
    BY <1>1, <2>1 DEF ExternalComesFirst
  <2> QED
    BY <1>1, <2>2, <2>3 DEF ExternalComesFirst
<1> QED
  BY <1>1, <1>6, <1>7, <1>8

(* The table of all targets, collapsed.                                    *)
LEMMA CollapsedTable ==
    ASSUME NEW t \in Seq(Rows), ExternalComesFirst(t), task.advisory \in IdsOf(t) => task.advisory \in Ids
    PROVE  /\ CollapseExternalDuplicates(t) \in Seq(Rows)
           /\ IdsOf(CollapseExternalDuplicates(t)) = IdsOf(t)
           /\ AdvisoryIsUnique(CollapseExternalDuplicates(t))
<1> DEFINE C == CollapseExternalDuplicates(t)
<1>1. \A i \in 1..Len(t) : t[i].from = "external" => i = 1
  BY DEF ExternalComesFirst
<1>2. /\ C \in Seq(Rows) /\ IdsOf(C) = IdsOf(t)
      /\ Len(t) > 0 /\ t[1].from = "external" /\ t[1].fixed =>
            \E j \in 1..Len(C) : /\ C[j].fixed
                                 /\ \A k \in 1..Len(C) : C[k].id = t[1].id <=> k = j
  BY <1>1, CollapseIsComplete
<1> HIDE DEF C
<1>3. task.advisory \in IdsOf(C) =>
          /\ Len(t) > 0 /\ t[1].id = task.advisory /\ t[1].from = "external" /\ t[1].fixed
  BY <1>2 DEF ExternalComesFirst
<1>4. AdvisoryIsUnique(C)
  BY <1>2, <1>3 DEF AdvisoryIsUnique
<1> QED
  BY <1>2, <1>4 DEF C

(* FilterSuppressed keeps the row of the ID the advisory introduced the    *)
(* only one with it, if it keeps it at all.                                *)
LEMMA FilteredTable ==
    ASSUME NEW t \in Seq(Rows), NEW suppressed, AdvisoryIsUnique(t)
    PROVE  AdvisoryIsUnique(FilterSuppressed(t, suppressed))
<1> DEFINE F == FilterSuppressed(t, suppressed)
<1>1. /\ F \in Seq(Rows) /\ IdsOf(F) = IdsOf(t) \ suppressed
      /\ \A i \in 1..Len(t) :
            (\A j \in 1..Len(t) : t[j].id = t[i].id <=> j = i) /\ t[i].id \notin suppressed =>
               \E j \in 1..Len(F) : /\ F[j] = t[i]
                                    /\ \A k \in 1..Len(F) : F[k].id = t[i].id <=> k = j
  BY FilterIsComplete
<1> HIDE DEF F
<1> SUFFICES ASSUME task.advisory \in IdsOf(F)
             PROVE  \E i \in 1..Len(F) :
                        /\ F[i].fixed
                        /\ \A j \in 1..Len(F) : F[j].id = task.advisory <=> j = i
  BY DEF AdvisoryIsUnique, F
<1>2. PICK i \in 1..Len(t) : /\ t[i].fixed
                             /\ \A j \in 1..Len(t) : t[j].id = task.advisory <=> j = i
  BY <1>1 DEF AdvisoryIsUnique
<1>3. t[i].id = task.advisory /\ task.advisory \notin suppressed
  BY <1>1, <1>2
<1>4. PICK j \in 1..Len(F) : F[j] = t[i] /\ \A k \in 1..Len(F) : F[k].id = t[i].id <=> k = j
  BY <1>1, <1>2, <1>3
<1> QED
  BY <1>2, <1>3, <1>4

-----------------------------------------------------------------------------
(* What the ends of a step set.                                            *)
LEMMA ReturnSets ==
    \A s, n : Return(s, n) =>
        /\ status' = s /\ next' = n /\ pc' = "deliver"
        /\ stamped' \in BOOLEAN
        /\ n # "human_review" => stamped' = FALSE
        /\ n = "human_review" => stamped' = HasOwner
<1> SUFFICES ASSUME NEW s, NEW n, Return(s, n)
             PROVE  /\ status' = s /\ next' = n /\ pc' = "deliver"
                    /\ stamped' \in BOOLEAN
                    /\ n # "human_review" => stamped' = FALSE
                    /\ n = "human_review" => stamped' = HasOwner
  BY Zenon
<1>1. status' = s /\ next' = n /\ pc' = "deliver"
  BY DEF Return
<1>2. stamped' = (HasOwner /\ n = "human_review")
  BY Zenon DEF Return
<1>3. HasOwner \in BOOLEAN
  BY PlanningAssumption
<1>4. (HasOwner /\ n = "human_review") \in BOOLEAN
  OBVIOUS
<1>5. stamped' \in BOOLEAN
  BY <1>2, <1>4, Zenon
<1>6. n # "human_review" => stamped' = FALSE
  BY <1>2, <1>5, Zenon
<1>7. n = "human_review" => stamped' = HasOwner
  <2> SUFFICES ASSUME n = "human_review"
               PROVE  stamped' = HasOwner
    OBVIOUS
  <2>1. stamped' = (HasOwner /\ TRUE)
    BY <1>2, Zenon
  <2> QED
    BY <1>3, <2>1, Zenon
<1> QED
  BY <1>1, <1>5, <1>6, <1>7

(* A step that returns what the task already had.                          *)
Stopped(s) == /\ status' = s /\ next' = "none" /\ pc' = "deliver" /\ stamped' = FALSE
              /\ section' = section

(* Failing and asking for input are such steps.                            *)
LEMMA StopSets == (Failed => Stopped("failed")) /\ (NeedsInput => Stopped("needs_input"))
BY ReturnSets DEF Failed, NeedsInput, Stopped

(* Ends of planning that stop, or go on to label.                          *)
GoesOn(label) == Goto(label) \/ Stopped("failed") \/ Stopped("needs_input")

-----------------------------------------------------------------------------
(* Type correctness.                                                       *)

(* The plan of a task that has none is one.                                *)
LEMMA NoPlanType == NoPlan \in PlanType /\ NoClone \in Repos \cup {NoClone}
BY DEF NoPlan, PlanType

(* Every variable has its type at the start.                               *)
LEMMA InitTypeOK == Init => TypeOK
<1> SUFFICES ASSUME Init PROVE TypeOK
  OBVIOUS
<1>1. triggers \in 0..TriggerCap /\ faults \in 0..MaxFaults /\ human \in 0..MaxHuman
  BY PlanningAssumption DEF Init
<1>2. target \in 0..Len(clone.targets)
  BY DEF Init, NoClone
<1>3. table \in Seq(Rows)
  BY DEF Init
<1> QED
  BY <1>1, <1>2, <1>3, NoPlanType DEF Init, TypeOK, Pcs

(* The type invariant is kept by every action; the count of targets that   *)
(* have run starts with the clone.                                         *)
LEMMA NextTypeOK == TypeOK /\ GateInv /\ TableInv /\ [Next]_vars => TypeOK'
<1> SUFFICES ASSUME TypeOK, GateInv, TableInv, [Next]_vars
             PROVE  TypeOK'
  OBVIOUS
<1> USE DEF taskVars, scanVars, outsideVars, boundVars
<1>a. /\ triggers \in Nat /\ faults \in Nat /\ human \in Nat
      /\ triggers <= TriggerCap /\ faults <= MaxFaults /\ human <= MaxHuman
  BY PlanningAssumption DEF TypeOK
<1>b. Fault => faults' \in 0..MaxFaults /\ human' = human
  BY <1>a, PlanningAssumption DEF Fault
(* A step that goes on or stops and leaves the task and the table alone.   *)
<1>c. ASSUME NEW label \in Pcs, GoesOn(label),
             UNCHANGED <<taskVars, scanVars, outsideVars>>,
             faults' \in 0..MaxFaults, human' = human
      PROVE  TypeOK'
  <2>1. /\ section' = section /\ pc' \in Pcs /\ status' \in {"done", "failed", "needs_input"}
        /\ next' \in {"none", "execution", "human_review", "done"} /\ stamped' \in BOOLEAN
    BY <1>c DEF GoesOn, Goto, Stopped, returnVars, TypeOK, Pcs
  <2> QED
    BY <1>c, <2>1 DEF TypeOK
<1>1. CASE StartJob
  BY <1>1, <1>a, PlanningAssumption DEF StartJob, CanStart, TypeOK, Pcs
<1>2. CASE VerifyClaudeAuth
  <2>1. GoesOn("token")
    BY <1>2, StopSets DEF VerifyClaudeAuth, GoesOn
  <2>2. /\ UNCHANGED <<taskVars, scanVars, outsideVars>>
        /\ faults' \in 0..MaxFaults /\ human' = human
    BY <1>2, <1>b DEF VerifyClaudeAuth, TypeOK
  <2> QED
    BY <1>c, <2>1, <2>2 DEF Pcs
<1>3. CASE VerifyGHToken
  <2>1. GoesOn("required")
    BY <1>3, StopSets DEF VerifyGHToken, GoesOn
  <2>2. /\ UNCHANGED <<taskVars, scanVars, outsideVars>>
        /\ faults' \in 0..MaxFaults /\ human' = human
    BY <1>3, <1>b DEF VerifyGHToken, TypeOK
  <2> QED
    BY <1>c, <2>1, <2>2 DEF Pcs
<1>4. CASE ReadRequired
  <2>1. GoesOn("installation")
    BY <1>4, StopSets DEF ReadRequired, GoesOn
  <2>2. /\ UNCHANGED <<taskVars, scanVars, outsideVars>>
        /\ faults' \in 0..MaxFaults /\ human' = human
    BY <1>4 DEF ReadRequired, TypeOK
  <2> QED
    BY <1>c, <2>1, <2>2 DEF Pcs
<1>5. CASE CheckInstallation
  <2>1. GoesOn("consent")
    BY <1>5, StopSets DEF CheckInstallation, GoesOn
  <2>2. /\ UNCHANGED <<taskVars, scanVars, outsideVars>>
        /\ faults' \in 0..MaxFaults /\ human' = human
    BY <1>5, <1>b DEF CheckInstallation, TypeOK
  <2> QED
    BY <1>c, <2>1, <2>2 DEF Pcs
<1>6. CASE GateOnAutoUpdate
  <2>1. /\ UNCHANGED <<taskVars, scanVars, outsideVars>>
        /\ faults' \in 0..MaxFaults /\ human' = human
    BY <1>6, <1>b DEF GateOnAutoUpdate, TypeOK
  <2>2. \/ Failed \/ SkipAutoUpdate(FALSE) \/ SkipAutoUpdate(TRUE)
        \/ FailInvalidConfig \/ Goto("scope")
    <3>1. task.consent \in Consents
      BY PlanningAssumption DEF TypeOK
    <3> QED
      BY <1>6, <3>1 DEF GateOnAutoUpdate, Consents
  <2>3. CASE Failed \/ Goto("scope")
    <3>1. GoesOn("scope")
      BY <2>3, StopSets DEF GoesOn
    <3> QED
      BY <1>c, <2>1, <3>1 DEF Pcs
  <2>4. CASE SkipAutoUpdate(FALSE) \/ SkipAutoUpdate(TRUE) \/ FailInvalidConfig
    <3>1. section' \in PlanType
      <4>1. \A p \in PlanType :
                /\ \A b \in BOOLEAN :
                      [p EXCEPT !.outcome = "no_update_needed", !.warning = b] \in PlanType
                /\ [p EXCEPT !.outcome = "failed"] \in PlanType
        BY DEF PlanType, Outcomes
      <4> QED
        BY <2>4, <4>1, NoPlanType DEF SkipAutoUpdate, FailInvalidConfig
    <3>2. Return("done", "done") \/ Return("failed", "human_review")
      BY <2>4 DEF SkipAutoUpdate, FailInvalidConfig
    <3>3. /\ pc' \in Pcs /\ status' \in {"done", "failed", "needs_input"}
          /\ next' \in {"none", "execution", "human_review", "done"} /\ stamped' \in BOOLEAN
      BY <3>2, ReturnSets DEF Pcs
    <3> QED
      BY <2>1, <3>1, <3>3 DEF TypeOK
  <2> QED
    BY <2>2, <2>3, <2>4
<1>7. CASE ResolveScope
  <2>1. GoesOn("clone")
    BY <1>7, StopSets DEF ResolveScope, GoesOn
  <2>2. /\ UNCHANGED <<taskVars, scanVars, outsideVars>>
        /\ faults' \in 0..MaxFaults /\ human' = human
    BY <1>7 DEF ResolveScope, TypeOK
  <2> QED
    BY <1>c, <2>1, <2>2 DEF Pcs
<1>8. CASE ResolveAndClone
  <2>1. GoesOn("pins")
    BY <1>8, StopSets DEF ResolveAndClone, GoesOn
  <2>2. /\ section' = section /\ pc' \in Pcs /\ status' \in {"done", "failed", "needs_input"}
        /\ next' \in {"none", "execution", "human_review", "done"} /\ stamped' \in BOOLEAN
    BY <2>1 DEF GoesOn, Goto, Stopped, returnVars, TypeOK, Pcs
  <2>3. /\ UNCHANGED <<taskVars, target, table, outsideVars>>
        /\ clone' \in Repos \cup {NoClone}
        /\ faults' \in 0..MaxFaults /\ human' = human
    BY <1>8, <1>b DEF ResolveAndClone, TypeOK
  <2>4. target = 0
    BY <1>8 DEF ResolveAndClone, TableInv, AfterTargets, AfterPins, AfterScope,
                AfterConsent, AfterRequired
  <2>5. Len(clone'.targets) \in Nat
    BY <2>3, PlanningAssumption DEF NoClone
  <2>6. target' \in 0..Len(clone'.targets)
    BY <2>3, <2>4, <2>5
  <2> QED
    BY <2>2, <2>3, <2>6 DEF TypeOK
<1>9. CASE CiPinPreflight
  <2>1. GoesOn("targets")
    BY <1>9, StopSets DEF CiPinPreflight, GoesOn
  <2>2. /\ UNCHANGED <<taskVars, scanVars, outsideVars>>
        /\ faults' \in 0..MaxFaults /\ human' = human
    BY <1>9 DEF CiPinPreflight, TypeOK
  <2> QED
    BY <1>c, <2>1, <2>2 DEF Pcs
<1>10. CASE DetectGateTargets
  <2>1. GoesOn("gates")
    BY <1>10, StopSets DEF DetectGateTargets, GoesOn
  <2>2. /\ section' = section /\ pc' \in Pcs /\ status' \in {"done", "failed", "needs_input"}
        /\ next' \in {"none", "execution", "human_review", "done"} /\ stamped' \in BOOLEAN
    BY <2>1 DEF GoesOn, Goto, Stopped, returnVars, TypeOK, Pcs
  <2>3. table' \in Seq(Rows)
    <3>1. AdvisoryRows \in Seq(Rows)
      <4>1. CASE task.advisory \in Ids
        <5> DEFINE r == [id |-> task.advisory, fixed |-> TRUE, from |-> "external"]
        <5>1. r \in Rows
          BY <4>1 DEF Rows
        <5> HIDE DEF r
        <5>2. <<r>> \in Seq(Rows)
          BY <5>1
        <5> QED
          BY <4>1, <5>2 DEF AdvisoryRows, r
      <4>2. CASE task.advisory \notin Ids
        BY <4>2 DEF AdvisoryRows
      <4> QED
        BY <4>1, <4>2
    <3> QED
      BY <1>10, <3>1 DEF DetectGateTargets, TypeOK
  <2>4. UNCHANGED <<taskVars, clone, target, outsideVars, boundVars>>
    BY <1>10 DEF DetectGateTargets
  <2> QED
    BY <2>2, <2>3, <2>4 DEF TypeOK
<1>11. CASE RunGateTarget
  <2>1. GoesOn("gates") \/ GoesOn("suppress")
    BY <1>11, StopSets DEF RunGateTarget, GoesOn
  <2>2. /\ section' = section /\ pc' \in Pcs /\ status' \in {"done", "failed", "needs_input"}
        /\ next' \in {"none", "execution", "human_review", "done"} /\ stamped' \in BOOLEAN
    BY <2>1 DEF GoesOn, Goto, Stopped, returnVars, TypeOK, Pcs
  <2>3. /\ UNCHANGED <<taskVars, clone, outsideVars>>
        /\ faults' \in 0..MaxFaults /\ human' = human
    BY <1>11, <1>b DEF RunGateTarget, TypeOK
  <2> DEFINE t == table \o clone.targets[target + 1].rows
  <2>4. \/ UNCHANGED <<target, table>>
        \/ target' = target + 1 /\ table' \in {t, CollapseExternalDuplicates(t)}
    BY <1>11 DEF RunGateTarget
  <2>5. /\ t \in Seq(Rows) /\ target + 1 \in 0..Len(clone.targets)
        /\ ExternalComesFirst(t)
    BY <1>11, OneMoreTarget DEF RunGateTarget
  <2>6. CollapseExternalDuplicates(t) \in Seq(Rows)
    <3> HIDE DEF t
    <3> QED
      BY <2>5, CollapseIsComplete DEF ExternalComesFirst
  <2>7. target' \in 0..Len(clone'.targets) /\ table' \in Seq(Rows)
    <3> HIDE DEF t
    <3> QED
      BY <2>3, <2>4, <2>5, <2>6 DEF TypeOK
  <2> QED
    BY <2>2, <2>3, <2>7 DEF TypeOK
<1>12. CASE Suppress
  <2>1. table' \in Seq(Rows)
    BY <1>12, FilterIsComplete DEF Suppress, TypeOK
  <2>2. /\ pc' \in Pcs /\ UNCHANGED returnVars
        /\ UNCHANGED <<taskVars, clone, target, outsideVars, boundVars>>
    BY <1>12 DEF Suppress, Goto, Pcs
  <2> QED
    BY <2>1, <2>2 DEF TypeOK, returnVars
<1>13. CASE Inspect
  <2>1. /\ UNCHANGED <<taskVars, scanVars, outsideVars>>
        /\ faults' \in 0..MaxFaults /\ human' = human
    BY <1>13, <1>b DEF Inspect, TypeOK
  <2>2. Scope \in Scopes /\ pc = "inspect"
    BY <1>13 DEF Inspect, GateInv, AfterScope, AfterConsent, AfterRequired, Pcs
  <2>3. CASE Failed
    <3>1. GoesOn("deliver")
      BY <2>3, StopSets DEF GoesOn
    <3> QED
      BY <1>c, <2>1, <3>1 DEF Pcs
  <2>4. CASE \E answer \in Answers : /\ IsGrounded(Inspected(answer))
                                     /\ ~Failed
                                     /\ Classify(InScope(Inspected(answer)))
    <3>1. PICK answer \in Answers : /\ IsGrounded(Inspected(answer))
                                    /\ ~Failed
                                    /\ Classify(InScope(Inspected(answer)))
      BY <2>4
    <3>2. Inspected(answer) \in PlanType
      BY <2>2, <3>1, InspectedIsGrounded
    <3>3. section' \in PlanType
      BY <2>2, <3>1, <3>2, InScopeKeeps DEF Classify
    <3>4. \/ Return("needs_input", "none") \/ Return("done", "done")
          \/ Return("done", "execution")
      BY <3>1 DEF Classify
    <3>5. /\ pc' \in Pcs /\ status' \in {"done", "failed", "needs_input"}
          /\ next' \in {"none", "execution", "human_review", "done"} /\ stamped' \in BOOLEAN
      BY <3>4, ReturnSets DEF Pcs
    <3> QED
      BY <2>1, <3>3, <3>5 DEF TypeOK
  <2> QED
    BY <1>13, <2>3, <2>4 DEF Inspect
<1>d. ASSUME JobOver
      PROVE  /\ pc' \in Pcs /\ section' \in PlanType
             /\ status' \in {"done", "failed", "needs_input"}
             /\ next' \in {"none", "execution", "human_review", "done"}
             /\ stamped' \in BOOLEAN
             /\ clone' \in Repos \cup {NoClone} /\ target' \in 0..Len(clone'.targets)
             /\ table' \in Seq(Rows)
  <2>1. clone' = NoClone /\ target' = 0 /\ table' = <<>>
    BY <1>d DEF JobOver
  <2>2. target' \in 0..Len(clone'.targets) /\ table' \in Seq(Rows)
    BY <2>1 DEF NoClone
  <2> QED
    BY <1>d, <2>1, <2>2, NoPlanType DEF JobOver, Pcs
<1>14. CASE Deliver
  BY <1>14, <1>d DEF Deliver, TypeOK
<1>15. CASE Crash
  BY <1>15, <1>b, <1>d DEF Crash, TypeOK
<1>16. CASE People
  <2>1. /\ UNCHANGED <<faults, pc, returnVars, scanVars>> /\ human' \in 0..MaxHuman
    BY <1>16, <1>a, PlanningAssumption DEF People, PushToDefaultBranch, ChangeInstallation,
                                           Redelegate, Act
  <2>2. CASE PushToDefaultBranch
    BY <2>1, <2>2 DEF PushToDefaultBranch, TypeOK, returnVars
  <2>3. CASE ChangeInstallation
    <3>1. (~covered) \in BOOLEAN /\ covered' = ~covered
      BY <2>3 DEF ChangeInstallation
    <3>2. covered' \in BOOLEAN
      BY <3>1, Zenon
    <3> QED
      BY <2>1, <2>3, <3>2 DEF ChangeInstallation, TypeOK, returnVars
  <2>4. CASE Redelegate
    BY <2>1, <2>4, PlanningAssumption DEF Redelegate, TypeOK, returnVars
  <2> QED
    BY <1>16, <2>2, <2>3, <2>4 DEF People
<1>17. CASE UNCHANGED vars
  BY <1>17 DEF vars, returnVars, TypeOK
<1> QED
  BY <1>1, <1>2, <1>3, <1>4, <1>5, <1>6, <1>7, <1>8, <1>9, <1>10, <1>11, <1>12, <1>13,
     <1>14, <1>15, <1>16, <1>17 DEF Next, Job, Settled

-----------------------------------------------------------------------------
(* The initial states establish the invariant.                             *)
LEMMA InitIInv == Init => IInv
<1> SUFFICES ASSUME Init PROVE IInv
  OBVIOUS
<1>1. TypeOK
  BY InitTypeOK
<1>2. Grounded(plan) /\ Grounded(section)
  BY DEF Init, Grounded, NoPlan
<1>3. GateInv /\ TableInv /\ RoutingInv /\ PhaseInv
  BY DEF Init, GateInv, TableInv, RoutingInv, PhaseInv, AfterTargets, AfterPins, AfterScope,
         AfterConsent, AfterRequired
<1> QED
  BY <1>1, <1>2, <1>3 DEF IInv

(* The plans of the task file and of the Job stay grounded when a step     *)
(* moves one of them, or starts from none.                                 *)
LEMMA GroundedMoves ==
    ASSUME Grounded(plan), Grounded(section)
    PROVE  /\ plan' \in {plan, section} => Grounded(plan)'
           /\ section' \in {plan, section, NoPlan} => Grounded(section)'
<1>1. Grounded(NoPlan)
  BY DEF Grounded, NoPlan
<1>2. plan' \in {plan, section} => Grounded(plan')
  OBVIOUS
<1>3. section' \in {plan, section, NoPlan} => Grounded(section')
  BY <1>1
<1> QED
  BY <1>2, <1>3

(* The clone's targets are a sequence.                                     *)
LEMMA CloneTargets ==
    TypeOK => /\ clone.targets \in Seq(Outputs)
              /\ Len(clone.targets) \in Nat
              /\ target \in Nat
<1> SUFFICES ASSUME TypeOK
             PROVE  /\ clone.targets \in Seq(Outputs)
                    /\ target \in Nat
  OBVIOUS
<1>1. clone \in Repos \cup {NoClone} /\ target \in 0..Len(clone.targets)
  BY DEF TypeOK
<1>2. clone.targets \in Seq(Outputs)
  <2>1. CASE clone \in Repos
    BY <2>1, PlanningAssumption
  <2>2. CASE clone = NoClone
    <3>1. clone.targets = <<>>
      BY <2>2 DEF NoClone
    <3> QED
      BY <3>1
  <2> QED
    BY <1>1, <2>1, <2>2
<1> QED
  BY <1>1, <1>2

(* Every action keeps the invariant.                                       *)
LEMMA NextIInv == IInv /\ [Next]_vars => IInv'
<1> SUFFICES ASSUME IInv, [Next]_vars
             PROVE  IInv'
  OBVIOUS
<1>1. TypeOK /\ TypeOK'
  BY NextTypeOK DEF IInv
<1> DEFINE Rest == /\ GateInv /\ TableInv /\ Grounded(plan) /\ Grounded(section)
                   /\ RoutingInv /\ PhaseInv
<1> SUFFICES Rest'
  BY <1>1 DEF IInv
<1>a. GateInv /\ TableInv /\ Grounded(plan) /\ Grounded(section) /\ RoutingInv /\ PhaseInv
  BY DEF IInv
<1>s. stamped \in BOOLEAN
  BY <1>1 DEF TypeOK
<1> USE DEF AfterTargets, AfterPins, AfterScope, AfterConsent, AfterRequired, Pcs
(* What a Job delivers, when a step goes on or stops.                      *)
<1>b. ASSUME NEW label, GoesOn(label), UNCHANGED taskVars, pc \notin {"idle", "deliver"}
      PROVE  Grounded(plan)' /\ Grounded(section)' /\ RoutingInv' /\ PhaseInv'
  <2>1. section' = section /\ next' = "none" /\ stamped' = FALSE
    <3>1. next = "none" /\ stamped = FALSE
      BY <1>a, <1>b, <1>s DEF RoutingInv
    <3> QED
      BY <1>b, <3>1 DEF GoesOn, Goto, Stopped, returnVars
  <2>2. Grounded(plan)' /\ Grounded(section)'
    BY <1>a, <1>b, <2>1, GroundedMoves DEF taskVars
  <2>3. PhaseInv'
    BY <1>a, <1>b DEF PhaseInv, Ready, Closing, Refused, HasWork, Scope, Shape, ParkFindings,
                      taskVars
  <2> QED
    BY <2>1, <2>2, <2>3 DEF RoutingInv
(* A check before the first gate target runs.                              *)
<1>c. ASSUME NEW label \in Pcs \ {"idle", "deliver"}, GoesOn(label),
             UNCHANGED taskVars, clone' = clone \/ pc = "clone", target' = target,
             pc \notin {"idle", "deliver"}, pc \notin AfterTargets, label \notin AfterTargets,
             pc' = label => /\ label \in AfterRequired => task.required
                            /\ label \in AfterConsent => task.consent = "true"
                            /\ label \in AfterScope => Scope \in Scopes
                            /\ label \in AfterPins => ~clone'.pinned
      PROVE  Rest'
  <2>1. pc' = label \/ pc' = "deliver"
    BY <1>c DEF GoesOn, Goto, Stopped
  <2>2. phase = "planning" /\ target = 0
    BY <1>a, <1>c DEF GateInv, TableInv
  <2>3. GateInv'
    BY <1>c, <2>1, <2>2 DEF GateInv, Scope, taskVars
  <2>4. TableInv'
    BY <1>c, <2>1, <2>2 DEF TableInv
  <2> QED
    BY <1>b, <1>c, <2>3, <2>4
<1>2. CASE StartJob
  <2>1. /\ UNCHANGED <<task, phase, plan, assignee, status, next, stamped, clone, target, table>>
        /\ pc = "idle" /\ pc' = "claudeauth" /\ section' = plan /\ phase = "planning"
    BY <1>2 DEF StartJob, CanStart, scanVars
  <2>2. GateInv' /\ TableInv'
    BY <1>a, <2>1 DEF GateInv, TableInv
  <2>3. Grounded(plan)' /\ Grounded(section)'
    BY <1>a, <2>1, GroundedMoves
  <2>4. RoutingInv'
    BY <1>a, <1>s, <2>1 DEF RoutingInv
  <2>5. PhaseInv'
    BY <2>1 DEF PhaseInv
  <2> QED
    BY <2>2, <2>3, <2>4, <2>5
<1>3. CASE VerifyClaudeAuth
  <2>1. GoesOn("token")
    BY <1>3, StopSets DEF VerifyClaudeAuth, GoesOn
  <2> QED
    BY <1>3, <1>c, <2>1 DEF VerifyClaudeAuth, scanVars
<1>4. CASE VerifyGHToken
  <2>1. GoesOn("required")
    BY <1>4, StopSets DEF VerifyGHToken, GoesOn
  <2> QED
    BY <1>4, <1>c, <2>1 DEF VerifyGHToken, scanVars
<1>5. CASE ReadRequired
  <2>1. GoesOn("installation")
    BY <1>5, StopSets DEF ReadRequired, GoesOn
  <2>2. pc' = "installation" => task.required
    BY <1>5, StopSets DEF ReadRequired, Stopped
  <2> QED
    BY <1>5, <1>c, <2>1, <2>2 DEF ReadRequired, scanVars
<1>6. CASE CheckInstallation
  <2>1. GoesOn("consent")
    BY <1>6, StopSets DEF CheckInstallation, GoesOn
  <2>2. task.required
    BY <1>a, <1>6 DEF CheckInstallation, GateInv
  <2> QED
    BY <1>6, <1>c, <2>1, <2>2 DEF CheckInstallation, scanVars
<1>7. CASE GateOnAutoUpdate
  <2>1. pc = "consent" /\ UNCHANGED <<taskVars, scanVars, outsideVars>>
    BY <1>7 DEF GateOnAutoUpdate
  <2>2. task.required /\ phase = "planning"
    BY <1>a, <2>1 DEF GateInv
  <2>3. \/ Failed
        \/ task.consent = "true" /\ Goto("scope")
        \/ task.consent \in {"absent", "false"} /\ SkipAutoUpdate(FALSE)
        \/ SkipAutoUpdate(TRUE)
        \/ task.consent = "invalid" /\ FailInvalidConfig
    <3>1. task.consent \in Consents
      BY <1>1, PlanningAssumption DEF TypeOK
    <3> QED
      BY <1>7, <3>1 DEF GateOnAutoUpdate, Consents
  <2>4. CASE Failed \/ (task.consent = "true" /\ Goto("scope"))
    <3>1. GoesOn("scope")
      BY <2>4, StopSets DEF GoesOn
    <3>2. pc' = "scope" => task.consent = "true"
      BY <2>4, StopSets DEF Stopped
    <3> QED
      BY <1>c, <2>1, <2>2, <3>1, <3>2 DEF scanVars
  <2>5. CASE \/ task.consent \in {"absent", "false"} /\ SkipAutoUpdate(FALSE)
             \/ SkipAutoUpdate(TRUE)
             \/ task.consent = "invalid" /\ FailInvalidConfig
    <3>1. /\ section'.vulns = {}
          /\ \/ Closing(section') /\ Return("done", "done")
             \/ Refused(section') /\ Return("failed", "human_review")
      BY <2>5 DEF SkipAutoUpdate, FailInvalidConfig, NoPlan, Closing, Refused
    <3>2. Grounded(plan)' /\ Grounded(section)'
      <4>1. section'.vulns = {}
        BY <3>1
      <4>2. Grounded(section)'
        BY <4>1 DEF Grounded
      <4>3. plan' = plan
        BY <2>1 DEF taskVars
      <4> QED
        BY <1>a, <4>2, <4>3, GroundedMoves
    <3>3. RoutingInv'
      <4>1. /\ pc' = "deliver" /\ stamped' \in BOOLEAN
            /\ \/ next' = "done" /\ stamped' = FALSE /\ Closing(section')
               \/ next' = "human_review" /\ stamped' = HasOwner /\ Refused(section')
        BY <3>1, ReturnSets
      <4> QED
        BY <2>1, <4>1 DEF RoutingInv, Closing, Refused, HasWork, Scope, taskVars
    <3>4. pc' = "deliver"
      BY <3>1, ReturnSets
    <3>5. GateInv' /\ TableInv' /\ PhaseInv'
      BY <2>1, <2>2, <3>4 DEF GateInv, TableInv, PhaseInv, taskVars
    <3> QED
      BY <3>2, <3>3, <3>5
  <2> QED
    BY <2>3, <2>4, <2>5
<1>8. CASE ResolveScope
  <2>1. GoesOn("clone")
    BY <1>8, StopSets DEF ResolveScope, GoesOn
  <2>2. pc' = "clone" => Scope \in Scopes
    BY <1>8, StopSets DEF ResolveScope, Stopped
  <2>3. task.required /\ task.consent = "true"
    BY <1>a, <1>8 DEF ResolveScope, GateInv
  <2> QED
    BY <1>8, <1>c, <2>1, <2>2, <2>3 DEF ResolveScope, scanVars
<1>9. CASE ResolveAndClone
  <2>1. GoesOn("pins")
    BY <1>9, StopSets DEF ResolveAndClone, GoesOn
  <2>2. task.required /\ task.consent = "true" /\ Scope \in Scopes
    BY <1>a, <1>9 DEF ResolveAndClone, GateInv
  <2> QED
    BY <1>9, <1>c, <2>1, <2>2 DEF ResolveAndClone
<1>10. CASE CiPinPreflight
  <2>1. GoesOn("targets")
    BY <1>10, StopSets DEF CiPinPreflight, GoesOn
  <2>2. pc' = "targets" => ~clone.pinned
    BY <1>10, StopSets DEF CiPinPreflight, Stopped
  <2>3. task.required /\ task.consent = "true" /\ Scope \in Scopes
    BY <1>a, <1>10 DEF CiPinPreflight, GateInv
  <2> QED
    BY <1>10, <1>c, <2>1, <2>2, <2>3 DEF CiPinPreflight, scanVars
(* What has been established before the gate targets stays established.    *)
<1>d. ASSUME UNCHANGED <<taskVars, clone>>, pc \in AfterPins,
             pc' \in AfterPins \cup {"deliver"},
             pc' \in AfterTargets => clone.targets # <<>> /\ task.advisory # "malformed"
      PROVE  GateInv'
  <2>1. /\ phase = "planning" /\ task.required /\ task.consent = "true"
        /\ Scope \in Scopes /\ ~clone.pinned
    BY <1>a, <1>d DEF GateInv
  <2>2. phase' = phase /\ task' = task /\ clone' = clone /\ Scope' = Scope
    BY <1>d DEF taskVars, Scope
  <2> QED
    BY <1>d, <2>1, <2>2 DEF GateInv
<1>11. CASE DetectGateTargets
  <2>1. GoesOn("gates")
    BY <1>11, StopSets DEF DetectGateTargets, GoesOn
  <2>2. /\ pc = "targets" /\ UNCHANGED <<taskVars, clone, target>>
        /\ pc' = "gates" => /\ clone.targets # <<>> /\ task.advisory # "malformed"
                            /\ table' = AdvisoryRows
    BY <1>11, StopSets DEF DetectGateTargets, Stopped
  <2>3. pc' \in {"gates", "deliver"}
    BY <2>1 DEF GoesOn, Goto, Stopped
  <2>4. GateInv'
    BY <1>d, <2>2, <2>3
  <2>5. TableInv'
    <3>1. CASE pc' = "deliver"
      BY <3>1 DEF TableInv
    <3>2. CASE pc' = "gates"
      <4>1. target = 0 /\ target' = 0
        BY <1>a, <2>2 DEF TableInv
      <4>2. clone.targets \in Seq(Outputs)
        BY <1>1, CloneTargets
      <4>3. target' < Len(clone'.targets)
        BY <2>2, <3>2, <4>1, <4>2
      <4>4. /\ task' = task /\ clone' = clone /\ table' = AdvisoryRows
        BY <2>2, <3>2 DEF taskVars
      <4>5. IdsOf(AdvisoryRows) = {task.advisory} \cap Ids /\ ExternalComesFirst(AdvisoryRows)
        BY DEF IdsOf, ToSet, AdvisoryRows, ExternalComesFirst
      <4>6. FoundBy(0) = {task.advisory} \cap Ids
        <5>1. 1..0 = {}
          OBVIOUS
        <5> QED
          BY <5>1 DEF FoundBy
      <4>7. IdsOf(table)' = FoundBy(0)' /\ ExternalComesFirst(table)'
        <5>1. IdsOf(table') = FoundBy(0)
          BY <4>4, <4>5, <4>6
        <5>2. FoundBy(0)' = FoundBy(0)
          BY <4>4 DEF FoundBy
        <5>3. ExternalComesFirst(table)'
          BY <4>4, <4>5 DEF ExternalComesFirst
        <5> QED
          BY <5>1, <5>2, <5>3
      <4> QED
        BY <3>2, <4>1, <4>3, <4>7 DEF TableInv
    <3> QED
      BY <2>3, <3>1, <3>2
  <2> QED
    BY <1>b, <2>1, <2>2, <2>4, <2>5
<1>12. CASE RunGateTarget
  <2> DEFINE t == table \o clone.targets[target + 1].rows
  <2>1. GoesOn("gates") \/ GoesOn("suppress")
    BY <1>12, StopSets DEF RunGateTarget, GoesOn
  <2>2. pc = "gates" /\ UNCHANGED <<taskVars, clone>>
    BY <1>12 DEF RunGateTarget
  <2>3. \/ pc' = "deliver"
        \/ /\ pc' = "gates" /\ target' = target + 1 /\ table' = t
           /\ target' < Len(clone.targets)
        \/ /\ pc' = "suppress" /\ target' = target + 1
           /\ table' = CollapseExternalDuplicates(t)
           /\ ~(target' < Len(clone.targets))
    BY <1>12, StopSets DEF RunGateTarget, Goto, Stopped
  <2>4. clone.targets # <<>> /\ task.advisory # "malformed"
    BY <1>a, <2>2 DEF GateInv
  <2>5. GateInv'
    BY <1>d, <2>2, <2>3, <2>4
  <2>6. /\ t \in Seq(Rows) /\ target + 1 \in 0..Len(clone.targets)
        /\ IdsOf(t) = FoundBy(target + 1) /\ ExternalComesFirst(t)
    BY <1>1, <1>a, <2>2, OneMoreTarget
  <2> HIDE DEF t
  <2>7. clone' = clone /\ task' = task
    BY <2>2 DEF taskVars
  <2>8. TableInv'
    <3>1. CASE pc' = "deliver"
      BY <3>1 DEF TableInv
    <3>2. CASE /\ pc' = "gates" /\ target' = target + 1 /\ table' = t
               /\ target' < Len(clone.targets)
      <4>1. IdsOf(table)' = FoundBy(target)' /\ ExternalComesFirst(table)'
        <5>1. IdsOf(table') = FoundBy(target')
          BY <2>6, <3>2
        <5>2. FoundBy(target)' = FoundBy(target')
          BY <2>7 DEF FoundBy
        <5>3. ExternalComesFirst(table)'
          BY <2>6, <2>7, <3>2 DEF ExternalComesFirst
        <5> QED
          BY <5>1, <5>2, <5>3
      <4> QED
        BY <2>7, <3>2, <4>1 DEF TableInv
    <3>3. CASE /\ pc' = "suppress" /\ target' = target + 1
               /\ table' = CollapseExternalDuplicates(t)
               /\ ~(target' < Len(clone.targets))
      <4>1. target + 1 = Len(clone.targets)
        <5>1. target \in Nat /\ Len(clone.targets) \in Nat
          BY <1>1, CloneTargets
        <5> QED
          BY <2>6, <3>3, <5>1
      <4>2. task.advisory \in IdsOf(t) => task.advisory \in Ids
        <5>1. IdsOf(t) = {t[i].id : i \in 1..Len(t)} /\ t \in Seq(Rows)
          BY <2>6, IdsOfRows
        <5>2. \A i \in 1..Len(t) : t[i] \in Rows
          BY <5>1
        <5>3. \A r \in Rows : r.id \in Ids
          BY DEF Rows
        <5> QED
          BY <5>1, <5>2, <5>3
      <4>3. /\ IdsOf(table') = IdsOf(t) /\ AdvisoryIsUnique(table')
        BY <2>6, <3>3, <4>2, CollapsedTable
      <4>4. IdsOf(table)' = FoundBy(Len(clone.targets))' /\ AdvisoryIsUnique(table)'
        <5>1. IdsOf(table') = FoundBy(Len(clone.targets))
          BY <2>6, <4>1, <4>3
        <5>2. FoundBy(Len(clone.targets))' = FoundBy(Len(clone.targets))
          BY <2>7 DEF FoundBy
        <5>3. AdvisoryIsUnique(table)'
          BY <2>7, <4>3 DEF AdvisoryIsUnique
        <5> QED
          BY <5>1, <5>2, <5>3
      <4> QED
        BY <3>3, <4>4 DEF TableInv
    <3> QED
      BY <2>3, <3>1, <3>2, <3>3
  <2> QED
    BY <1>b, <2>1, <2>2, <2>5, <2>8
<1>13. CASE Suppress
  <2>1. /\ pc = "suppress" /\ pc' = "inspect" /\ GoesOn("inspect")
        /\ UNCHANGED <<taskVars, clone>>
        /\ table' = FilterSuppressed(table, clone.suppressed)
    BY <1>13 DEF Suppress, Goto, GoesOn
  <2>2. GateInv'
    BY <1>a, <1>d, <2>1 DEF GateInv
  <2>3. TableInv'
    <3>1. table \in Seq(Rows) /\ AdvisoryIsUnique(table)
          /\ IdsOf(table) = FoundBy(Len(clone.targets))
      BY <1>1, <1>a, <2>1 DEF TypeOK, TableInv
    <3>2. IdsOf(table') = FoundBy(Len(clone.targets)) \ clone.suppressed
          /\ AdvisoryIsUnique(table')
      BY <2>1, <3>1, FilterIsComplete, FilteredTable
    <3>3. clone' = clone /\ task' = task
      BY <2>1 DEF taskVars
    <3>4. /\ IdsOf(table)' = FoundBy(Len(clone.targets))' \ clone'.suppressed
          /\ AdvisoryIsUnique(table)'
      <4>1. FoundBy(Len(clone.targets))' = FoundBy(Len(clone.targets))
        BY <3>3 DEF FoundBy
      <4>2. AdvisoryIsUnique(table)'
        BY <3>2, <3>3 DEF AdvisoryIsUnique
      <4> QED
        BY <3>2, <3>3, <4>1, <4>2
    <3> QED
      BY <2>1, <3>4 DEF TableInv
  <2> QED
    BY <1>b, <2>1, <2>2, <2>3
<1>14. CASE Inspect
  <2>1. pc = "inspect" /\ UNCHANGED <<taskVars, scanVars, outsideVars>>
    BY <1>14 DEF Inspect
  <2>2. /\ phase = "planning" /\ task.required /\ task.consent = "true" /\ Scope \in Scopes
        /\ ~clone.pinned /\ clone.targets # <<>> /\ task.advisory # "malformed"
    BY <1>a, <2>1 DEF GateInv
  <2>3. CASE Failed
    <3>1. Stopped("failed") /\ GoesOn("gates")
      BY <2>3, StopSets DEF GoesOn
    <3>2. GateInv' /\ TableInv'
      BY <2>1, <2>2, <3>1 DEF GateInv, TableInv, Stopped, taskVars
    <3> QED
      BY <1>b, <2>1, <3>1, <3>2
  <2>4. CASE \E answer \in Answers : /\ IsGrounded(Inspected(answer))
                                     /\ ~Failed
                                     /\ Classify(InScope(Inspected(answer)))
    <3>1. PICK answer \in Answers : /\ IsGrounded(Inspected(answer))
                                    /\ ~Failed
                                    /\ Classify(InScope(Inspected(answer)))
      BY <2>4
    <3> DEFINE p == Inspected(answer)
               q == InScope(p)
    <3>2. /\ p \in PlanType /\ Grounded(p) /\ p.gates = Len(clone.targets) /\ p.on = clone
      BY <1>1, <1>a, <2>1, <3>1, InspectedIsGrounded
    <3>3. /\ q.vulns \subseteq p.vulns /\ q.gates = Len(clone.targets) /\ q.on = clone
          /\ q.on = p.on /\ q.advisory = p.advisory
      BY <2>2, <3>2, InScopeKeeps
    <3>4. Len(clone.targets) > 0
      <4>1. clone.targets \in Seq(Outputs)
        BY <1>1, CloneTargets
      <4> QED
        BY <2>2, <4>1
    <3>5. \/ section' = q /\ Return("needs_input", "none")
          \/ section' = q /\ ParkFindings(q) = {} /\ ~HasWork(q) /\ Return("done", "done")
          \/ section' = q /\ ParkFindings(q) = {} /\ HasWork(q) /\ Return("done", "execution")
      BY <3>1 DEF Classify, ShouldClose
    <3> HIDE DEF p, q
    <3>6. Grounded(q)
      BY <3>2, <3>3 DEF Grounded
    <3>7. Grounded(plan)' /\ Grounded(section)'
      <4>1. section' = q /\ plan' = plan
        BY <2>1, <3>5 DEF taskVars
      <4> QED
        BY <1>a, <3>6, <4>1, GroundedMoves
    <3>8. pc' = "deliver" /\ stamped' = FALSE
          /\ \/ next' = "none"
             \/ next' = "done" /\ Closing(q)
             \/ next' = "execution" /\ Ready(q)
      BY <2>2, <3>3, <3>4, <3>5, ReturnSets DEF Closing, Ready
    <3>9. RoutingInv'
      <4>1. section' = q /\ task' = task
        BY <2>1, <3>5 DEF taskVars
      <4>2. (Closing(q) => Closing(section)') /\ (Ready(q) => Ready(section)')
        BY <4>1 DEF Closing, Ready, HasWork, Scope, Shape, ParkFindings
      <4> QED
        BY <3>8, <4>2 DEF RoutingInv
    <3>10. GateInv' /\ TableInv' /\ PhaseInv'
      BY <2>1, <2>2, <3>8 DEF GateInv, TableInv, PhaseInv, taskVars
    <3> QED
      BY <3>7, <3>9, <3>10
  <2> QED
    BY <1>14, <2>3, <2>4 DEF Inspect
<1>15. CASE Deliver
  <2>1. /\ pc = "deliver" /\ pc' = "idle" /\ plan' = section /\ section' = NoPlan
        /\ next' = "none" /\ stamped' = FALSE /\ target' = 0 /\ task' = task
        /\ phase' = IF next = "none" THEN phase ELSE next
        /\ assignee' = IF stamped THEN "owner"
                       ELSE IF status = "needs_input" \/ next = "human_review" THEN "none"
                       ELSE assignee
    BY <1>15 DEF Deliver, JobOver
  <2>2. GateInv' /\ TableInv' /\ RoutingInv'
    BY <2>1 DEF GateInv, TableInv, RoutingInv
  <2>3. Grounded(plan)' /\ Grounded(section)'
    BY <1>a, <2>1, GroundedMoves
  <2>4. PhaseInv'
    <3>1. phase = "planning"
      BY <1>a, <2>1 DEF GateInv
    <3>2. /\ phase' = "execution" => Ready(section)
          /\ phase' = "done" => Closing(section)
          /\ phase' = "human_review" => Refused(section) /\ stamped = HasOwner
      BY <1>a, <2>1, <3>1 DEF RoutingInv
    <3>3. phase' = "human_review" => assignee' = (IF HasOwner THEN "owner" ELSE "none")
      BY <2>1, <3>1, <3>2
    <3>4. /\ Ready(section) => Ready(plan)'
          /\ Closing(section) => Closing(plan)'
          /\ Refused(section) => Refused(plan)'
      BY <2>1 DEF Ready, Closing, Refused, HasWork, Scope, Shape, ParkFindings
    <3> QED
      BY <3>2, <3>3, <3>4 DEF PhaseInv
  <2> QED
    BY <2>2, <2>3, <2>4
<1>16. CASE Crash
  <2>1. /\ pc' = "idle" /\ section' = NoPlan /\ next' = "none" /\ stamped' = FALSE
        /\ target' = 0 /\ pc # "idle"
        /\ UNCHANGED <<task, phase, plan, assignee>>
    BY <1>16 DEF Crash, JobOver, taskVars
  <2>2. GateInv' /\ TableInv' /\ RoutingInv'
    BY <2>1 DEF GateInv, TableInv, RoutingInv
  <2>3. Grounded(plan)' /\ Grounded(section)'
    BY <1>a, <2>1, GroundedMoves
  <2>4. PhaseInv'
    BY <1>a, <2>1 DEF PhaseInv, GateInv
  <2> QED
    BY <2>2, <2>3, <2>4
(* Outside a Job, and when nothing a Job looks at changes.                 *)
<1>e. ASSUME UNCHANGED <<task, phase, plan, assignee, pc, returnVars, scanVars>>
      PROVE  Rest'
  <2>1. GateInv' /\ RoutingInv' /\ PhaseInv'
    BY <1>a, <1>e DEF GateInv, RoutingInv, PhaseInv, Ready, Closing, Refused, HasWork, Scope,
                      Shape, ParkFindings, returnVars, scanVars
  <2>2. TableInv'
    <3>1. /\ pc' = pc /\ task' = task /\ clone' = clone /\ target' = target /\ table' = table
      BY <1>e DEF scanVars
    <3>2. \A n : FoundBy(n)' = FoundBy(n)
      BY <3>1 DEF FoundBy
    <3>3. /\ ExternalComesFirst(table) => ExternalComesFirst(table)'
          /\ AdvisoryIsUnique(table) => AdvisoryIsUnique(table)'
      BY <3>1 DEF ExternalComesFirst, AdvisoryIsUnique
    <3> QED
      BY <1>a, <3>1, <3>2, <3>3 DEF TableInv
  <2>3. Grounded(plan)' /\ Grounded(section)'
    BY <1>a, <1>e, GroundedMoves DEF returnVars
  <2> QED
    BY <2>1, <2>2, <2>3
<1>17. CASE People
  <2>1. CASE PushToDefaultBranch \/ ChangeInstallation
    BY <1>e, <2>1 DEF PushToDefaultBranch, ChangeInstallation, Act, taskVars
  <2>2. CASE Redelegate
    <3>1. /\ pc = "idle" /\ phase' = "planning"
          /\ UNCHANGED <<pc, plan, returnVars, scanVars>>
      BY <2>2 DEF Redelegate, Act
    <3>2. next = "none" /\ stamped = FALSE
      BY <1>a, <1>s, <3>1 DEF RoutingInv
    <3>3. GateInv' /\ TableInv' /\ PhaseInv'
      BY <1>a, <3>1 DEF GateInv, TableInv, PhaseInv, scanVars
    <3>4. RoutingInv'
      BY <3>1, <3>2 DEF RoutingInv, returnVars
    <3>5. Grounded(plan)' /\ Grounded(section)'
      BY <1>a, <3>1, GroundedMoves DEF returnVars
    <3> QED
      BY <3>3, <3>4, <3>5
  <2> QED
    BY <1>17, <2>1, <2>2 DEF People
<1>18. CASE UNCHANGED vars
  BY <1>e, <1>18 DEF vars, taskVars
<1> QED
  BY <1>2, <1>3, <1>4, <1>5, <1>6, <1>7, <1>8, <1>9, <1>10, <1>11, <1>12, <1>13, <1>14,
     <1>15, <1>16, <1>17, <1>18 DEF Next, Job, Settled

(* The strengthened invariant holds of every reachable state.              *)
THEOREM Inductive == Spec => []IInv
<1> QED
  BY InitIInv, NextIInv, PTL DEF Spec

-----------------------------------------------------------------------------
(* The safety properties the runs check, for every value of the constants. *)

(* Every variable has its type, and only an invalid configuration reaches  *)
(* human_review, with its owner.                                           *)
THEOREM HandOffsAreActionable == Spec => []WellFormed
<1>1. IInv => WellFormed
  BY DEF IInv, WellFormed, HandOffIsActionable, PhaseInv, Refused
<1> QED
  BY <1>1, Inductive, PTL

(* The table the model gets loses no finding and invents none, however     *)
(* many targets there are and whatever they print.                         *)
THEOREM TablesAreComplete == Spec => []TableIsComplete
<1>1. IInv => TableIsComplete
  BY DEF IInv, TableIsComplete, TableInv, FoundBy, Reported, AdvisoryIsUnique
<1> QED
  BY <1>1, Inductive, PTL

(* No plan names a finding nobody reported, or a suppressed one.           *)
THEOREM PlansAreGrounded == Spec => []VulnsAreGroundTruth
<1>1. IInv => VulnsAreGroundTruth
  BY DEF IInv, VulnsAreGroundTruth, Grounded
<1> QED
  BY <1>1, Inductive, PTL

(* Execution accepts every task planning sends it.                         *)
THEOREM PlansAreAccepted == Spec => []ExecutionAcceptsPlan
<1>1. IInv => ExecutionAcceptsPlan
  BY DEF IInv, PhaseInv, Ready, ExecutionAcceptsPlan
<1> QED
  BY <1>1, Inductive, PTL

(* Execution is reached with consent, without a workflow pin and with      *)
(* nothing left for a person to decide.                                    *)
THEOREM ExecutionsAreVetted == Spec => []ExecutionIsVetted
<1>1. IInv => ExecutionIsVetted
  BY DEF IInv, PhaseInv, Ready, ExecutionIsVetted
<1> QED
  BY <1>1, Inductive, PTL

(* A task planning closes refused the update or has no work in its scope.  *)
THEOREM ClosedHasNoWork == Spec => []NoWorkIsClosed
<1>1. IInv => NoWorkIsClosed
  BY DEF IInv, PhaseInv, Closing, NoWorkIsClosed
<1> QED
  BY <1>1, Inductive, PTL
=============================================================================
