--------------------------- MODULE ReadersProofs ----------------------------
(***************************************************************************)
(* Proofs about Readers.tla, for inputs of every size: what planning reads *)
(* in a clone, what the CHANGELOG writer leaves behind, the object found   *)
(* in a model's answer, the verdict on an advisory and the evidence of a   *)
(* red build.                                                              *)
(*                                                                         *)
(* The readers share no variable, so each has an inductive invariant of    *)
(* its own, which a step of another one leaves alone.                      *)
(***************************************************************************)
EXTENDS Readers, SelectionProofs, FiniteSetTheorems, SequenceTheorems

-----------------------------------------------------------------------------
(* Sets of numbers.                                                        *)

(* A finite set of naturals that is not empty has a greatest element.      *)
LEMMA GreatestNatural ==
    ASSUME NEW T \in SUBSET Nat, IsFiniteSet(T), T # {}
    PROVE  \E m \in T : \A k \in T : k <= m
<1> DEFINE Sized(n) == {S \in SUBSET Nat : IsFiniteSet(S) /\ Cardinality(S) = n /\ S # {}}
           P == {n \in Nat : \A S \in Sized(n) : \E m \in S : \A k \in S : k <= m}
           L == Cardinality(T)
<1>1. 0 \in P
  <2>1. Sized(0) = {}
    BY FS_EmptySet
  <2> QED
    BY <2>1
<1>2. ASSUME NEW n \in 1..L, n - 1 \in P
      PROVE  n \in P
  <2> SUFFICES ASSUME NEW S \in Sized(n)
               PROVE  \E m \in S : \A k \in S : k <= m
    BY <1>2
  <2>1. PICK x \in S : TRUE
    OBVIOUS
  <2> DEFINE R == S \ {x}
  <2>2. IsFiniteSet(R) /\ Cardinality(R) = n - 1 /\ R \in SUBSET Nat
    BY <2>1, FS_RemoveElement
  <2>3. CASE R = {}
    <3>1. \A k \in S : k = x
      BY <2>3
    <3> QED
      BY <2>1, <3>1
  <2>4. CASE R # {}
    <3>1. R \in Sized(n - 1)
      BY <2>2, <2>4
    <3>2. PICK m \in R : \A k \in R : k <= m
      BY <1>2, <3>1
    <3>3. CASE x <= m
      BY <2>1, <3>2, <3>3
    <3>4. CASE ~(x <= m)
      <4>1. \A k \in S : k <= x
        BY <2>1, <3>2, <3>4
      <4> QED
        BY <2>1, <4>1
    <3> QED
      BY <3>3, <3>4
  <2> QED
    BY <2>3, <2>4
<1>3. L \in Nat
  BY FS_CardinalityType
<1>4. 0..L \subseteq P
  <2>1. P \subseteq Nat
    OBVIOUS
  <2> HIDE DEF P, L
  <2> QED
    BY <1>1, <1>2, <1>3, <2>1, InductionUpTo
<1>5. L \in P
  BY <1>3, <1>4
<1> QED
  BY <1>5

(* Max of such a set is its greatest element.                              *)
LEMMA MaxIsGreatest ==
    ASSUME NEW T \in SUBSET Nat, IsFiniteSet(T), T # {}
    PROVE  Max(T) \in T /\ \A k \in T : k <= Max(T)
<1>1. \E m \in T : \A k \in T : m >= k
  BY GreatestNatural
<1> QED
  BY <1>1 DEF Max

-----------------------------------------------------------------------------
(* AdvisoryCheck.tla.                                                      *)

(* The module with the longest path that is a prefix of a package's is the *)
(* one that provides the package.  The go command resolves an import path  *)
(* that way among the modules that hold it; a module may also end in front *)
(* of the package, see ProviderIsJudged.                                   *)
LongestPathProvides ==
    \A g \in Graphs, p \in Paths : \A m \in ModuleForPackage(g, p) : p \in m.packages

(* A verdict that clears goes by the block the task has.                   *)
ClearedByTheBlock ==
    advisoryStage = "verdict" /\ clear =>
        /\ ~IsMalformed(entry) /\ judged = entry.map
        /\ entry.kind = "mapping" => IsSatisfied(graph, entry.map)

AdvisoryIInv == AdvisoryTypeOK /\ ClearedByTheBlock

(* The blocks a frontmatter may have.                                      *)
LEMMA BlockTypes ==
    /\ NoBlock \in MappingType
    /\ \A e \in Entries : e.map \in MappingType /\ e.kind \in {"none", "list", "mapping"}
    /\ \A e \in Entries : e.kind = "none" => e.map = NoBlock
    /\ \A e \in Entries : ~IsMalformed(e) => e.map = NoBlock \/ IsAdvisoryBlock(e.map)
<1>1. NoBlock \in MappingType
  BY DEF NoBlock, MappingType
<1>2. \A e \in Entries : \/ e.kind \in {"none", "list"} /\ e.map = NoBlock
                         \/ e.kind = "mapping" /\ e.map \in MappingType
  BY DEF Entries
<1> QED
  BY <1>1, <1>2 DEF IsMalformed

(* A task starts with what its frontmatter says.                           *)
LEMMA InitAdvisory == Init => AdvisoryIInv
<1> SUFFICES ASSUME Init PROVE AdvisoryIInv
  OBVIOUS
<1>1. /\ entry \in Entries \cup [kind : {"none"}, map : {NoBlock}]
      /\ graph \in Graphs \cup {CHOOSE g \in Graphs : TRUE}
      /\ advisoryStage = "planning" /\ row = NoBlock /\ judged = NoBlock
      /\ clear = FALSE /\ edits = 0
  BY DEF Init, AdvisoryInit, Idle
<1>2. graph \in Graphs
  BY <1>1, AdvisoryCheckAssumption
<1>3. entry \in Entries
  BY <1>1 DEF Entries
<1>4. 0 \in 0..MaxEdits
  BY AdvisoryCheckAssumption
<1> QED
  BY <1>1, <1>2, <1>3, <1>4, BlockTypes
     DEF AdvisoryIInv, AdvisoryTypeOK, ClearedByTheBlock

(* Planning, review and a person who edits keep it.                        *)
LEMMA StepAdvisory == AdvisoryIInv /\ AdvisoryNext => AdvisoryIInv'
<1> SUFFICES ASSUME AdvisoryIInv, AdvisoryNext PROVE AdvisoryIInv'
  OBVIOUS
<1> USE DEF AdvisoryIInv, AdvisoryTypeOK, ClearedByTheBlock, advisoryVars
<1>1. CASE Admit
  BY <1>1, BlockTypes DEF Admit
<1>2. CASE CheckAdvisories
  BY <1>2, BlockTypes DEF CheckAdvisories
<1>3. CASE Edit
  <2>1. edits' \in 0..MaxEdits
    BY <1>3, AdvisoryCheckAssumption DEF Edit
  <2> QED
    BY <1>3, <2>1 DEF Edit
<1>4. CASE AdvisoryOver
  BY <1>4 DEF AdvisoryOver
<1> QED
  BY <1>1, <1>2, <1>3, <1>4 DEF AdvisoryNext

-----------------------------------------------------------------------------
(* Diagnosis.tla.                                                          *)

(* Until something was read there is no evidence, and only a task whose    *)
(* body has none is handed back without.                                   *)
EvidenceSoFar ==
    /\ diagnosisStage \in {"list", "view", "body"} => evidence = NoEvidence
    /\ diagnosisStage = "needs_input" => evidence # NoEvidence \/ ~body

DiagnosisIInv == EvidenceIsKept /\ EvidenceSoFar

(* The end of a log that is not empty stays.                               *)
LEMMA TruncationKeepsTheEnd ==
    ASSUME NEW l \in Logs
    PROVE  LET e == TruncateToLines(l) IN
           /\ e.lines \in Seq(LogLines) /\ Len(e.lines) <= Bound
           /\ e.from = "gh" /\ e # NoEvidence
           /\ e.dropped + Len(e.lines) = Len(l)
           /\ l[Len(l)] = "error" => \E i \in DOMAIN e.lines : e.lines[i] = "error"
<1>1. Bound \in Nat /\ Bound > 0 /\ MaxLog \in Nat
  BY DiagnosisAssumption
<1>2. l \in Seq(LogLines) /\ Len(l) \in Nat /\ Len(l) > 0
  <2>1. PICK n \in 1..MaxLog : l \in [1..n -> LogLines]
    BY DEF Logs
  <2> QED
    BY <1>1, <2>1
<1> HIDE DEF LogLines
<1> DEFINE e == TruncateToLines(l)
<1>3. CASE Len(l) <= Bound
  <2>1. e = [from |-> "gh", lines |-> l, dropped |-> 0]
    BY <1>3 DEF TruncateToLines
  <2> QED
    BY <1>2, <1>3, <2>1 DEF NoEvidence
<1>4. CASE Len(l) > Bound
  <2> DEFINE s == SubSeq(l, Len(l) - Bound + 1, Len(l))
  <2>1. e = [from |-> "gh", lines |-> s, dropped |-> Len(l) - Bound]
    BY <1>1, <1>2, <1>4 DEF TruncateToLines
  <2>2. s \in Seq(LogLines) /\ Len(s) = Bound /\ s[Bound] = l[Len(l)]
    BY <1>1, <1>2, <1>4
  <2> HIDE DEF s
  <2> QED
    BY <1>1, <1>2, <2>1, <2>2 DEF NoEvidence
<1> QED
  BY <1>1, <1>2, <1>3, <1>4

(* The runs there are have a latest one.                                   *)
LEMMA LatestRun ==
    ASSUME NEW S \in SUBSET RunIds, S # {}
    PROVE  Max(S) \in S
<1>1. S \in SUBSET Nat /\ IsFiniteSet(S)
  BY DiagnosisAssumption, FS_Subset
<1> QED
  BY <1>1, MaxIsGreatest

(* A diagnosis starts without evidence.                                    *)
LEMMA InitDiagnosis == Init => DiagnosisIInv
<1> SUFFICES ASSUME Init PROVE DiagnosisIInv
  OBVIOUS
<1>1. /\ \E e \in Episodes \cup {<<[r \in {} |-> Unfinished], <<"error">>, "green", FALSE>>} :
            conclusion = e[1] /\ log = e[2] /\ head = e[3] /\ body = e[4]
      /\ diagnosisStage = "list" /\ picked = 0
      /\ evidence = NoEvidence /\ ci = 0
  BY DEF Init, DiagnosisInit, Idle
<1>2. /\ conclusion \in UNION {[S -> Conclusions] : S \in SUBSET RunIds}
      /\ log \in Logs /\ head \in {"green", "red"} /\ body \in BOOLEAN
  <2>1. CASE \E e \in Episodes : conclusion = e[1] /\ log = e[2] /\ head = e[3] /\ body = e[4]
    BY <2>1 DEF Episodes
  <2>2. CASE /\ conclusion = [r \in {} |-> Unfinished] /\ log = <<"error">>
             /\ head = "green" /\ body = FALSE
    <3>1. conclusion \in [{} -> Conclusions] /\ {} \in SUBSET RunIds
      BY <2>2
    <3>2. log \in [1..1 -> LogLines] /\ 1 \in 1..MaxLog
      BY <2>2, DiagnosisAssumption DEF LogLines
    <3> QED
      BY <2>2, <3>1, <3>2 DEF Logs
  <2>3. PICK e \in Episodes \cup {<<[r \in {} |-> Unfinished], <<"error">>, "green", FALSE>>} :
           conclusion = e[1] /\ log = e[2] /\ head = e[3] /\ body = e[4]
    BY <1>1
  <2>4. CASE e \in Episodes
    BY <2>1, <2>3, <2>4
  <2>5. CASE e = <<[r \in {} |-> Unfinished], <<"error">>, "green", FALSE>>
    <3>1. /\ e[1] = [r \in {} |-> Unfinished] /\ e[2] = <<"error">>
          /\ e[3] = "green" /\ e[4] = FALSE
      BY <2>5
    <3> QED
      BY <2>2, <2>3, <3>1
  <2> QED
    BY <2>3, <2>4, <2>5
<1>3. evidence.from = "nowhere" /\ evidence.lines \in Seq(LogLines) /\ Len(evidence.lines) <= Bound
  BY <1>1, DiagnosisAssumption DEF NoEvidence
<1>4. 0 \in 0..MaxCI
  BY DiagnosisAssumption
<1> QED
  BY <1>1, <1>2, <1>3, <1>4
     DEF DiagnosisIInv, EvidenceIsKept, DiagnosisTypeOK, EndOfLogIsSeen, BodyIsTheFallback,
         EvidenceSoFar

(* The diagnosis, and CI beside it, keep it.                               *)
LEMMA StepDiagnosis == DiagnosisIInv /\ DiagnosisNext => DiagnosisIInv'
<1> SUFFICES ASSUME DiagnosisIInv, DiagnosisNext PROVE DiagnosisIInv'
  OBVIOUS
<1> USE DEF DiagnosisIInv, EvidenceIsKept, DiagnosisTypeOK, EndOfLogIsSeen, BodyIsTheFallback,
            EvidenceSoFar, repoVars, diagnosisVars
<1>0. PICK S \in SUBSET RunIds : conclusion \in [S -> Conclusions]
  OBVIOUS
<1>1. CASE ListRuns
  <2> DEFINE red == {r \in DOMAIN conclusion : conclusion[r] \notin {"success", "skipped"}}
  <2>1. red # {} => Max(red) \in RunIds
    <3>1. red \in SUBSET RunIds
      BY <1>0
    <3> HIDE DEF red
    <3> QED
      BY <3>1, LatestRun
  <2>2. picked' \in RunIds \cup {0}
    BY <1>1, <2>1 DEF ListRuns
  <2> QED
    BY <1>1, <2>2 DEF ListRuns
<1>2. CASE ViewRun
  <2>1. CASE evidence' = TruncateToLines(log) /\ diagnosisStage' = "diagnose"
    BY <1>2, <2>1, TruncationKeepsTheEnd DEF ViewRun
  <2>2. CASE evidence' = evidence /\ diagnosisStage' = "body"
    BY <1>2, <2>2 DEF ViewRun
  <2> QED
    BY <1>2, <2>1, <2>2 DEF ViewRun
<1>3. CASE ReadBody
  <2>1. CASE body
    <3>1. /\ evidence' = [from |-> "body", lines |-> <<>>, dropped |-> 0]
          /\ diagnosisStage' = "diagnose"
      BY <1>3, <2>1 DEF ReadBody
    <3>2. /\ evidence' # NoEvidence /\ evidence'.from # "gh" /\ evidence'.lines \in Seq(LogLines)
          /\ Len(evidence'.lines) <= Bound
      BY <3>1, DiagnosisAssumption DEF NoEvidence
    <3> QED
      BY <1>3, <3>1, <3>2 DEF ReadBody
  <2>2. CASE ~body
    BY <1>3, <2>2 DEF ReadBody
  <2> QED
    BY <2>1, <2>2
<1>4. CASE Diagnose
  BY <1>4 DEF Diagnose, Verdicts
<1>5. CASE DiagnosisOver
  BY <1>5 DEF DiagnosisOver
<1>6. CASE RunEnds
  <2>1. ci' \in 0..MaxCI
    BY <1>6, DiagnosisAssumption DEF RunEnds
  <2>2. conclusion' \in [S -> Conclusions]
    BY <1>0, <1>6 DEF RunEnds
  <2> QED
    BY <1>6, <2>1, <2>2 DEF RunEnds
<1>7. CASE RunStarts
  <2>1. ci' \in 0..MaxCI
    BY <1>7, DiagnosisAssumption DEF RunStarts
  <2>2. PICK r \in RunIds \ DOMAIN conclusion :
          conclusion' = [s \in DOMAIN conclusion \cup {r} |-> IF s = r THEN Unfinished ELSE conclusion[s]]
    BY <1>7 DEF RunStarts
  <2>3. Unfinished \in Conclusions
    BY DEF Conclusions
  <2>4. conclusion' \in [S \cup {r} -> Conclusions] /\ S \cup {r} \in SUBSET RunIds
    BY <1>0, <2>2, <2>3
  <2>5. conclusion' \in UNION {[R -> Conclusions] : R \in SUBSET RunIds}
    BY <2>4
  <2> QED
    BY <1>7, <2>1, <2>5 DEF RunStarts
<1> QED
  BY <1>1, <1>2, <1>3, <1>4, <1>5, <1>6, <1>7 DEF DiagnosisNext

-----------------------------------------------------------------------------
(* RepoFacts.tla.                                                          *)

(* The first ID of every line a target printed has a row.                  *)
EveryLineHasARow ==
    \A t \in 1..done : \A k \in DOMAIN repo.output[t] :
        repo.output[t][k].ids # <<>> => InTable(repo.output[t][k].ids[1])

FactsIInv == /\ FactsTypeOK
             /\ repo \in Repos
             /\ factsStage = "pins" => done = 0
             /\ factsStage = "gates" => done < Len(Targets)
             /\ factsStage = "suppress" => done = Len(Targets)
             /\ factsStage # "model" => EveryLineHasARow
             /\ FixIsReported
             /\ LiveFindingIsKept
             /\ ApprovedIsSuppressed

(* A bounded sequence is a sequence.                                       *)
LEMMA UpToIsSeq ==
    ASSUME NEW n \in Nat, NEW S, NEW s \in UpTo(n, S)
    PROVE  s \in Seq(S)
<1>1. PICK k \in 0..n : s \in [1..k -> S]
  BY DEF UpTo
<1> QED
  BY <1>1

(* A row says of its line what it may.                                     *)
LEMMA RowOfLine ==
    ASSUME NEW target \in Scanners, NEW l \in ScannerLines, l.ids # <<>>
    PROVE  LET found == ScannerFindingForLine(target, l) IN
           found \in Rows /\ Tells(l, found)
<1>1. /\ l.layout \in {"osv", "govulncheck", "legacy", "current", "plain"}
      /\ l.ids \in Seq(Ids) /\ l.fix \in BOOLEAN
  BY RepoFactsAssumption DEF LineType
<1>2. l.ids[1] \in Ids
  BY <1>1
<1> DEFINE fix == IF l.fix THEN "fix" ELSE "none"
           Row(fixed, scanner) == [id |-> l.ids[1], fixed |-> fixed, scanner |-> scanner]
           Says(f) == /\ f \in {"fix", "installed", "none"}
                      /\ f = "fix" => l.fix
                      /\ f = "installed" => /\ l.layout = "current"
                                            /\ l.status \notin TrivyStatusValues
                      /\ f = "none" => ~l.fix \/ l.layout = "plain"
<1>3. Says(fix) /\ (l.layout = "plain" => Says("none"))
  BY <1>1
<1>4. ASSUME l.layout \in {"legacy", "current"}
      PROVE  Says(FixedCell(Cells(l)))
  <2>1. CASE l.layout = "legacy"
    <3>1. Cells(l) = <<"severity", "installed", fix, "title">>
      BY <2>1 DEF Cells
    <3> HIDE DEF fix, Says
    <3>2. Cells(l)[2] = "installed" /\ Cells(l)[3] = fix
      BY <3>1
    <3> QED
      BY <1>3, <3>2 DEF FixedCell, TrivyStatusValues
  <2>2. CASE l.layout = "current"
    <3>1. Cells(l) = <<"severity", l.status, "installed", fix, "title">>
      BY <2>2 DEF Cells
    <3>2. l.status \notin TrivyStatusValues => Says("installed")
      BY <2>2
    <3> HIDE DEF fix, Says
    <3>3. Cells(l)[2] = l.status /\ Cells(l)[3] = "installed" /\ Cells(l)[4] = fix
      BY <3>1
    <3>4. CASE l.status \in TrivyStatusValues
      BY <1>3, <3>3, <3>4 DEF FixedCell
    <3>5. CASE l.status \notin TrivyStatusValues
      BY <3>2, <3>3, <3>5 DEF FixedCell
    <3> QED
      BY <3>4, <3>5
  <2> QED
    BY <1>4, <2>1, <2>2
<1>s. "osv-scanner" \in Scanners /\ "govulncheck" \in Scanners /\ "trivy" \in Scanners
  BY DEF Scanners
<1>5. \E f, scanner : /\ Says(f) /\ scanner \in Scanners
                      /\ ScannerFindingForLine(target, l) = Row(f, scanner)
  <2>1. CASE l.layout = "osv"
    <3>1. ScannerFindingForLine(target, l) = Row(fix, "osv-scanner")
      BY <2>1 DEF ScannerFindingForLine
    <3> HIDE DEF fix, Row, Says
    <3> QED
      BY <1>3, <1>s, <3>1
  <2>2. CASE l.layout = "govulncheck"
    <3>1. ScannerFindingForLine(target, l) = Row(fix, "govulncheck")
      BY <2>2 DEF ScannerFindingForLine
    <3> HIDE DEF fix, Row, Says
    <3> QED
      BY <1>3, <1>s, <3>1
  <2>3. CASE l.layout \in {"legacy", "current"}
    <3>1. ScannerFindingForLine(target, l) = Row(FixedCell(Cells(l)), "trivy")
      BY <2>3 DEF ScannerFindingForLine
    <3> HIDE DEF fix, Row, Says
    <3> QED
      BY <1>4, <1>s, <2>3, <3>1
  <2>4. CASE l.layout = "plain"
    <3>1. ScannerFindingForLine(target, l) = Row("none", ScannerForTarget(target))
      BY <2>4 DEF ScannerFindingForLine
    <3>2. ScannerForTarget(target) \in Scanners
      BY <1>s DEF ScannerForTarget
    <3> HIDE DEF fix, Row, Says
    <3> QED
      BY <1>3, <2>4, <3>1, <3>2
  <2> QED
    BY <1>1, <2>1, <2>2, <2>3, <2>4
<1>6. ASSUME NEW f, NEW scanner \in Scanners, Says(f)
      PROVE  Row(f, scanner) \in Rows /\ Tells(l, Row(f, scanner))
  <2> DEFINE made == Row(f, scanner)
  <2>1. made \in Rows /\ made.id = l.ids[1] /\ made.fixed = f
    BY <1>2, <1>6 DEF Rows
  <2> HIDE DEF made
  <2>2. Tells(l, made)
    BY <1>6, <2>1 DEF Tells
  <2> QED
    BY <2>1, <2>2 DEF made
<1> HIDE DEF Row, Says
<1> QED
  BY <1>5, <1>6

(* The rows of a target are those of its lines that name an ID.            *)
LEMMA RowsOfLines ==
    ASSUME NEW target \in Scanners, NEW lines \in Seq(ScannerLines)
    PROVE  LET rows == ParseScannerOutput(target, lines) IN
           /\ rows \in Seq(Rows)
           /\ \A i \in DOMAIN rows : \E k \in DOMAIN lines : Tells(lines[k], rows[i])
           /\ \A k \in DOMAIN lines :
                 lines[k].ids # <<>> => \E i \in DOMAIN rows : rows[i].id = lines[k].ids[1]
<1> DEFINE found == KeepAt(lines, NamesAnId(lines))
           rows == ParseScannerOutput(target, lines)
<1>1. found \in Seq(ScannerLines)
  BY KeepAtSelects
<1>2. PICK h : Enumerates(h, found, lines, NamesAnId(lines) \cap (1..Len(lines)))
  BY KeepAtSelects
<1>3. rows = [i \in DOMAIN found |-> ScannerFindingForLine(target, found[i])]
  BY DEF ParseScannerOutput
<1> HIDE DEF found, rows
<1>4. \A i \in 1..Len(found) : /\ h[i] \in DOMAIN lines /\ lines[h[i]].ids # <<>>
                               /\ found[i] = lines[h[i]] /\ lines[h[i]] \in ScannerLines
  BY <1>2 DEF Enumerates, NamesAnId
<1>5. \A i \in 1..Len(found) : rows[i] \in Rows /\ Tells(lines[h[i]], rows[i])
  <2> SUFFICES ASSUME NEW i \in 1..Len(found)
               PROVE  rows[i] \in Rows /\ Tells(lines[h[i]], rows[i])
    OBVIOUS
  <2>1. rows[i] = ScannerFindingForLine(target, lines[h[i]])
    BY <1>1, <1>3, <1>4
  <2> QED
    BY <1>4, <2>1, RowOfLine
<1>6. rows \in Seq(Rows) /\ DOMAIN rows = 1..Len(found)
  <2>1. DOMAIN found = 1..Len(found) /\ Len(found) \in Nat
    BY <1>1
  <2>2. rows = [i \in 1..Len(found) |-> rows[i]]
    BY <1>3, <2>1
  <2> QED
    BY <1>5, <2>1, <2>2
<1>7. \A k \in DOMAIN lines : lines[k].ids # <<>> => \E i \in 1..Len(found) : h[i] = k
  BY <1>2 DEF Enumerates, NamesAnId
<1>8. \A i \in DOMAIN rows : \E k \in DOMAIN lines : Tells(lines[k], rows[i])
  BY <1>4, <1>5, <1>6
<1>9. \A k \in DOMAIN lines :
         lines[k].ids # <<>> => \E i \in DOMAIN rows : rows[i].id = lines[k].ids[1]
  <2>1. \A i \in 1..Len(found) : rows[i].id = lines[h[i]].ids[1]
    BY <1>5 DEF Tells
  <2> SUFFICES ASSUME NEW k \in DOMAIN lines, lines[k].ids # <<>>
               PROVE  \E i \in DOMAIN rows : rows[i].id = lines[k].ids[1]
    OBVIOUS
  <2>2. PICK i \in 1..Len(found) : h[i] = k
    BY <1>7
  <2> QED
    BY <1>6, <2>1, <2>2
<1> QED
  BY <1>6, <1>8, <1>9 DEF rows

(* Where the value that starts at a line ends.                             *)
LEMMA LastLineOf ==
    ASSUME NEW ls \in Seq(MakeLineType), NEW i \in DOMAIN ls
    PROVE  /\ LastLine(ls, i) \in i..Len(ls)
           /\ \A k \in i..(LastLine(ls, i) - 1) : ls[k].more
           /\ ls[LastLine(ls, i)].more => LastLine(ls, i) = Len(ls)
<1> DEFINE T == {j \in i..Len(ls) : ls[j].more => j = Len(ls)}
           Ends(j) == /\ \A k \in i..(j - 1) : ls[k].more
                      /\ ls[j].more => j = Len(ls)
<1>1. Len(ls) \in Nat /\ i \in 1..Len(ls)
  OBVIOUS
<1>2. Len(ls) \in T /\ T \in SUBSET Nat
  BY <1>1
<1>3. PICK m \in T : \A k \in T : m <= k
  <2> HIDE DEF T
  <2> QED
    BY <1>2, LeastNatural
<1>4. \A k \in i..(m - 1) : ls[k].more
  BY <1>1, <1>3
<1>5. \E j \in i..Len(ls) : Ends(j)
  BY <1>3, <1>4
<1> QED
  BY <1>5 DEF LastLine

(* Where the value a line belongs to starts.                               *)
LEMMA FirstLineOf ==
    ASSUME NEW ls \in Seq(MakeLineType), NEW j \in DOMAIN ls
    PROVE  /\ FirstLine(ls, j) \in 1..j
           /\ \A k \in FirstLine(ls, j)..(j - 1) : ls[k].more
           /\ FirstLine(ls, j) = 1 \/ ~ls[FirstLine(ls, j) - 1].more
<1> DEFINE T == {d \in 0..(j - 1) : j - d = 1 \/ ~ls[(j - d) - 1].more}
           Starts(i) == /\ \A k \in i..(j - 1) : ls[k].more
                        /\ i = 1 \/ ~ls[i - 1].more
<1>1. Len(ls) \in Nat /\ j \in 1..Len(ls)
  OBVIOUS
<1>2. j - 1 \in T /\ T \in SUBSET Nat
  BY <1>1
<1>3. PICK d \in T : \A e \in T : d <= e
  <2> HIDE DEF T
  <2> QED
    BY <1>2, LeastNatural
<1> DEFINE i == j - d
<1>4. d \in 0..(j - 1) /\ i \in 1..j /\ (i = 1 \/ ~ls[i - 1].more)
  <2>1. d \in 0..(j - 1) /\ (j - d = 1 \/ ~ls[(j - d) - 1].more)
    BY <1>3
  <2>2. j \in Int /\ d \in Int /\ 0 <= d /\ d <= j - 1
    BY <1>1, <2>1
  <2>3. ASSUME NEW x \in Int, NEW y \in Int, 0 <= y, y <= x - 1
        PROVE  x - y \in 1..x
    BY <2>3
  <2>4. j - d \in 1..j
    <3> HIDE DEF T
    <3> QED
      BY <2>2, <2>3
  <2> QED
    BY <2>1, <2>4
<1>5. \A k \in i..(j - 1) : ls[k].more
  <2> SUFFICES ASSUME NEW k \in i..(j - 1), ~ls[k].more PROVE FALSE
    OBVIOUS
  <2> DEFINE e == (j - k) - 1
  <2>1. e \in 0..(j - 1) /\ e < d /\ (j - e) - 1 = k
    <3>1. j \in Int /\ d \in Int /\ k \in Int /\ j - d <= k /\ k <= j - 1 /\ 1 <= j - d /\ 0 <= d
      BY <1>1, <1>4
    <3> QED
      BY <3>1
  <2>2. e \in T
    BY <2>1
  <2> HIDE DEF T
  <2>3. d <= e
    BY <1>3, <2>2
  <2>4. d \in Int /\ e \in Int
    BY <1>4, <2>1
  <2> QED
    BY <2>1, <2>3, <2>4
<1>6. \E f \in 1..j : Starts(f)
  <2> HIDE DEF i
  <2> QED
    BY <1>4, <1>5
<1> QED
  BY <1>6 DEF FirstLine

(* What is read is what is named, and all that is approved.                *)
LEMMA NamedIsExtracted ==
    ASSUME repo \in Repos
    PROVE  /\ ExtractVulnCheckIgnore(repo.make) \cup ExtractListed(repo.lists) = Named
           /\ Approved \subseteq Named
<1> DEFINE ls == repo.make
           begin == {k \in DOMAIN ls : ls[k].kind \in {"assign", "comment"}}
           named == {k \in DOMAIN ls :
                       \E i \in 1..k : /\ ls[i].kind # "other"
                                       /\ \A m \in i..(k - 1) : ls[m].more}
           assigned == {k \in DOMAIN ls : ls[FirstLine(ls, k)].kind = "assign"}
           read == UNION {IdsIn(SubSeq(ls, i, LastLine(ls, i))) : i \in begin}
           shown == UNION {IdsIn(<<ls[j]>>) : j \in named}
           meant == UNION {IdsIn(<<ls[j]>>) : j \in assigned}
<1>1. ls \in Seq(MakeLineType) /\ Len(ls) \in Nat
  <2>1. MaxMakeLines \in Nat /\ MakeLines \subseteq MakeLineType
    BY RepoFactsAssumption
  <2>2. ls \in UpTo(MaxMakeLines, MakeLines)
    BY DEF Repos
  <2>3. ls \in Seq(MakeLines)
    BY <2>1, <2>2, UpToIsSeq
  <2> QED
    BY <2>1, <2>3
<1>2. \A k \in DOMAIN ls : ls[k].kind # "other" <=> k \in begin
  <2>1. \A k \in DOMAIN ls : ls[k] \in MakeLineType
    BY <1>1
  <2> QED
    BY <2>1 DEF MakeLineType
<1> HIDE DEF ls
<1>3. \A id : id \in read <=>
         \E i \in begin : \E k \in i..LastLine(ls, i) : \E n \in DOMAIN ls[k].ids : ls[k].ids[n] = id
  <2> SUFFICES ASSUME NEW id, NEW i \in begin
               PROVE  id \in IdsIn(SubSeq(ls, i, LastLine(ls, i))) <=>
                        \E k \in i..LastLine(ls, i) : \E n \in DOMAIN ls[k].ids : ls[k].ids[n] = id
    OBVIOUS
  <2> DEFINE l == LastLine(ls, i)
             s == SubSeq(ls, i, l)
  <2>1. i \in 1..Len(ls) /\ l \in i..Len(ls)
    BY <1>1, LastLineOf
  <2> HIDE DEF l
  <2>2. /\ DOMAIN s = 1..(l - i + 1)
        /\ \A k \in i..l : s[k - i + 1] = ls[k] /\ k - i + 1 \in DOMAIN s
        /\ \A m \in DOMAIN s : s[m] = ls[m + i - 1] /\ m + i - 1 \in i..l
    <3>1. s \in Seq(MakeLineType) /\ Len(s) = l - i + 1
      BY <1>1, <2>1
    <3>2. DOMAIN s = 1..(l - i + 1)
      BY <3>1
    <3>3. \A m \in 1..(l - i + 1) : s[m] = ls[m + i - 1] /\ m + i - 1 \in i..l
      BY <1>1, <2>1
    <3> HIDE DEF s
    <3>4. \A k \in i..l : k - i + 1 \in 1..(l - i + 1) /\ (k - i + 1) + i - 1 = k
      BY <2>1
    <3> QED
      BY <3>2, <3>3, <3>4
  <2> HIDE DEF s
  <2>3. id \in IdsIn(s) <=> \E m \in DOMAIN s : \E n \in DOMAIN s[m].ids : s[m].ids[n] = id
    BY DEF IdsIn
  <2>4. (\E m \in DOMAIN s : \E n \in DOMAIN s[m].ids : s[m].ids[n] = id)
          <=> \E k \in i..l : \E n \in DOMAIN ls[k].ids : ls[k].ids[n] = id
    BY <2>2
  <2> QED
    BY <2>3, <2>4 DEF s, l
<1>4. \A id : id \in shown <=>
         \E j \in named : \E n \in DOMAIN ls[j].ids : ls[j].ids[n] = id
  <2>1. \A id, l : id \in IdsIn(<<l>>) <=> \E n \in DOMAIN l.ids : l.ids[n] = id
    BY DEF IdsIn
  <2> HIDE DEF named
  <2> SUFFICES ASSUME NEW id
               PROVE  id \in shown <=>
                        \E j \in named : \E n \in DOMAIN ls[j].ids : ls[j].ids[n] = id
    OBVIOUS
  <2>2. id \in shown <=> \E j \in named : id \in IdsIn(<<ls[j]>>)
    OBVIOUS
  <2>3. \A j : id \in IdsIn(<<ls[j]>>) <=> \E n \in DOMAIN ls[j].ids : ls[j].ids[n] = id
    BY <2>1
  <2> HIDE DEF shown
  <2> QED
    BY <2>2, <2>3
<1>5. ASSUME NEW i \in begin, NEW k \in i..LastLine(ls, i)
      PROVE  k \in named
  <2>1. /\ i \in 1..k /\ i \in DOMAIN ls /\ k \in DOMAIN ls
        /\ \A m \in i..(k - 1) : ls[m].more
    BY <1>1, LastLineOf
  <2> QED
    BY <1>2, <2>1
<1>6. ASSUME NEW j \in named
      PROVE  \E i \in begin : j \in i..LastLine(ls, i)
  <2>1. j \in 1..Len(ls)
    BY <1>1
  <2>2. PICK i \in 1..j : ls[i].kind # "other" /\ \A m \in i..(j - 1) : ls[m].more
    OBVIOUS
  <2>3. i \in DOMAIN ls /\ i \in begin
    BY <1>1, <1>2, <2>1, <2>2
  <2>4. LastLine(ls, i) \in i..Len(ls) /\ (ls[LastLine(ls, i)].more => LastLine(ls, i) = Len(ls))
    BY <1>1, <2>3, LastLineOf
  <2>5. j <= LastLine(ls, i)
    BY <1>1, <2>1, <2>2, <2>4
  <2>6. j \in i..LastLine(ls, i)
    BY <2>1, <2>2, <2>4, <2>5
  <2> QED
    BY <2>3, <2>6
<1>7. read = shown
  <2> HIDE DEF read, shown, begin, named
  <2> QED
    BY <1>3, <1>4, <1>5, <1>6
<1>8. assigned \subseteq named
  <2> SUFFICES ASSUME NEW k \in assigned PROVE k \in named
    OBVIOUS
  <2>1. FirstLine(ls, k) \in 1..k /\ \A m \in FirstLine(ls, k)..(k - 1) : ls[m].more
    BY <1>1, FirstLineOf
  <2>2. ls[FirstLine(ls, k)].kind # "other"
    OBVIOUS
  <2> QED
    BY <2>1, <2>2
<1>9. meant \subseteq shown
  <2> HIDE DEF assigned, named
  <2> QED
    BY <1>8
<1>10. ExtractVulnCheckIgnore(repo.make) = read
  BY DEF ExtractVulnCheckIgnore, ls
<1>11. Named = shown \cup ExtractListed(repo.lists)
  BY DEF Named, ls
<1>12. Approved = meant \cup ExtractListed(repo.lists)
  BY DEF Approved, ls
<1> HIDE DEF read, meant, shown
<1> QED
  BY <1>7, <1>9, <1>10, <1>11, <1>12

(* A clone nobody has read has no facts.                                   *)
LEMMA InitFacts == Init => FactsIInv
<1> SUFFICES ASSUME Init PROVE FactsIInv
  OBVIOUS
<1> DEFINE none == [pins |-> {}, output |-> [t \in DOMAIN Targets |-> <<>>],
                    green |-> [t \in DOMAIN Targets |-> TRUE], make |-> <<>>, lists |-> <<>>]
<1>1. /\ repo \in Repos \cup {none}
      /\ factsStage = "pins" /\ table = <<>> /\ suppressed = {} /\ done = 0
  BY DEF Init, FactsInit, Idle
<1>2. none \in Repos
  <2>1. ASSUME NEW S, NEW n \in Nat PROVE <<>> \in UpTo(n, S)
    <3>1. <<>> \in [1..0 -> S] /\ 0 \in 0..n
      OBVIOUS
    <3> QED
      BY <3>1 DEF UpTo
  <2>2. [t \in DOMAIN Targets |-> <<>>] \in [DOMAIN Targets -> UpTo(MaxOutput, ScannerLines)]
    BY <2>1, RepoFactsAssumption
  <2>3. <<>> \in UpTo(MaxMakeLines, MakeLines) /\ <<>> \in UpTo(1, ListLines)
    BY <2>1, RepoFactsAssumption
  <2> QED
    BY <2>2, <2>3 DEF Repos
<1>3. repo \in Repos
  BY <1>1, <1>2
<1>4. Len(Targets) \in Nat /\ <<>> \in Seq(Rows)
  BY RepoFactsAssumption
<1> QED
  BY <1>1, <1>3, <1>4
     DEF FactsIInv, FactsTypeOK, EveryLineHasARow, FixIsReported, LiveFindingIsKept,
         ApprovedIsSuppressed

(* What the rows behind a table add to it.                                 *)
LEMMA RowsAreAdded ==
    ASSUME NEW t \in Seq(Rows), NEW rows \in Seq(Rows)
    PROVE  /\ t \o rows \in Seq(Rows)
           /\ \A i \in DOMAIN (t \o rows) :
                 \/ \E k \in DOMAIN t : (t \o rows)[i] = t[k]
                 \/ \E k \in DOMAIN rows : (t \o rows)[i] = rows[k]
           /\ \A k \in DOMAIN t : \E i \in DOMAIN (t \o rows) : (t \o rows)[i] = t[k]
           /\ \A k \in DOMAIN rows : \E i \in DOMAIN (t \o rows) : (t \o rows)[i] = rows[k]
<1> DEFINE c == t \o rows
           L == Len(t)
           M == Len(rows)
<1>1. /\ c \in Seq(Rows) /\ DOMAIN c = 1..(L + M)
      /\ \A i \in 1..(L + M) : c[i] = IF i <= L THEN t[i] ELSE rows[i - L]
  <2>1. /\ c \in Seq(Rows) /\ Len(c) = L + M
        /\ \A i \in 1..(L + M) : c[i] = IF i <= L THEN t[i] ELSE rows[i - L]
    BY ConcatProperties
  <2> HIDE DEF c
  <2> QED
    BY <2>1
<1>2. L \in Nat /\ M \in Nat /\ DOMAIN t = 1..L /\ DOMAIN rows = 1..M
  OBVIOUS
<1> HIDE DEF c, L, M
<1>3. \A i \in 1..(L + M) : i <= L \/ i - L \in 1..M
  BY <1>2
<1>4. \A k \in 1..L : k \in 1..(L + M) /\ c[k] = t[k]
  BY <1>1, <1>2
<1>5. \A k \in 1..M : k + L \in 1..(L + M) /\ c[k + L] = rows[k]
  BY <1>1, <1>2
<1>6. \A i \in DOMAIN c : \/ \E k \in DOMAIN t : c[i] = t[k]
                          \/ \E k \in DOMAIN rows : c[i] = rows[k]
  BY <1>1, <1>2, <1>3
<1> QED
  BY <1>1, <1>2, <1>4, <1>5, <1>6 DEF c

(* The loop over the gate targets keeps it.                                *)
LEMMA StepRunTarget ==
    FactsIInv /\ RunTarget => FactsIInv'
<1> SUFFICES ASSUME FactsIInv, RunTarget PROVE FactsIInv'
  OBVIOUS
<1> DEFINE n == done + 1
           lines == repo.output[n]
           rows == ParseScannerOutput(Targets[n], lines)
<1>1. /\ factsStage = "gates" /\ table \in Seq(Rows) /\ suppressed \in SUBSET Ids
      /\ done \in 0..Len(Targets) /\ done < Len(Targets) /\ repo \in Repos
      /\ EveryLineHasARow /\ FixIsReported
  BY DEF FactsIInv, FactsTypeOK, RunTarget
<1>2. Len(Targets) \in Nat /\ DOMAIN Targets = 1..Len(Targets) /\ MaxOutput \in Nat
  BY RepoFactsAssumption
<1>3. n \in 1..Len(Targets) /\ n \in Int /\ \A t \in 1..n : t \in 1..done \/ t = n
  BY <1>1, <1>2
<1>4. Targets[n] \in Scanners /\ lines \in Seq(ScannerLines)
  <2>1. Targets[n] \in Scanners
    BY <1>2, <1>3 DEF Scanners
  <2>2. lines \in UpTo(MaxOutput, ScannerLines)
    BY <1>1, <1>2, <1>3 DEF Repos
  <2> HIDE DEF lines
  <2> QED
    BY <1>2, <2>1, <2>2, UpToIsSeq
<1> HIDE DEF n, lines
<1>5. /\ rows \in Seq(Rows)
      /\ \A i \in DOMAIN rows : \E k \in DOMAIN lines : Tells(lines[k], rows[i])
      /\ \A k \in DOMAIN lines :
            lines[k].ids # <<>> => \E i \in DOMAIN rows : rows[i].id = lines[k].ids[1]
  BY <1>4, RowsOfLines
<1> HIDE DEF rows
<1>6. /\ UNCHANGED <<repo, suppressed>>
      /\ \/ factsStage' = "parked" /\ UNCHANGED <<table, done>>
         \/ /\ table' = table \o rows
            /\ done' = n
            /\ factsStage' = IF done' = Len(Targets) THEN "suppress" ELSE "gates"
  BY DEF RunTarget, n, lines, rows
<1>7. CASE factsStage' = "parked" /\ UNCHANGED <<table, done>>
  BY <1>1, <1>6, <1>7
     DEF FactsIInv, FactsTypeOK, EveryLineHasARow, FixIsReported, LiveFindingIsKept,
         ApprovedIsSuppressed, InTable
<1>8. CASE /\ table' = table \o rows
           /\ done' = n
           /\ factsStage' = IF done' = Len(Targets) THEN "suppress" ELSE "gates"
  <2>1. /\ table' \in Seq(Rows)
        /\ \A i \in DOMAIN table' : \/ \E k \in DOMAIN table : table'[i] = table[k]
                                    \/ \E k \in DOMAIN rows : table'[i] = rows[k]
        /\ \A k \in DOMAIN table : \E i \in DOMAIN table' : table'[i] = table[k]
        /\ \A k \in DOMAIN rows : \E i \in DOMAIN table' : table'[i] = rows[k]
    <3>1. table' = table \o rows
      BY <1>8
    <3>2. /\ table \o rows \in Seq(Rows)
          /\ \A i \in DOMAIN (table \o rows) :
                \/ \E k \in DOMAIN table : (table \o rows)[i] = table[k]
                \/ \E k \in DOMAIN rows : (table \o rows)[i] = rows[k]
          /\ \A k \in DOMAIN table :
                \E i \in DOMAIN (table \o rows) : (table \o rows)[i] = table[k]
          /\ \A k \in DOMAIN rows :
                \E i \in DOMAIN (table \o rows) : (table \o rows)[i] = rows[k]
      BY <1>1, <1>5, RowsAreAdded, Zenon
    <3> QED
      BY <3>1, <3>2, Zenon
  <2>2. FactsTypeOK'
    <3>1. factsStage' \in {"gates", "suppress"} /\ suppressed' = suppressed /\ done' = n
      BY <1>6, <1>8
    <3> QED
      BY <1>1, <1>3, <2>1, <3>1 DEF FactsTypeOK
  <2>3. /\ factsStage' = "gates" => done' < Len(Targets)
        /\ factsStage' = "suppress" => done' = Len(Targets)
        /\ factsStage' \in {"gates", "suppress"}
    <3>1. CASE n = Len(Targets)
      BY <1>8, <3>1
    <3>2. CASE n # Len(Targets)
      <4>1. ASSUME NEW x \in Nat, NEW k \in 1..x, k # x PROVE k < x
        BY <4>1
      <4>2. n < Len(Targets)
        BY <1>2, <1>3, <3>2, <4>1
      <4> QED
        BY <1>8, <3>2, <4>2
    <3> QED
      BY <3>1, <3>2
  <2>4. EveryLineHasARow'
    <3> SUFFICES ASSUME NEW t \in 1..n, NEW k \in DOMAIN repo.output[t],
                        repo.output[t][k].ids # <<>>
                 PROVE  \E i \in DOMAIN table' : table'[i].id = repo.output[t][k].ids[1]
      BY <1>6, <1>8 DEF EveryLineHasARow, InTable
    <3>1. CASE t \in 1..done
      <4>1. PICK j \in DOMAIN table : table[j].id = repo.output[t][k].ids[1]
        BY <1>1, <3>1 DEF EveryLineHasARow, InTable
      <4>2. PICK i \in DOMAIN table' : table'[i] = table[j]
        BY <2>1
      <4> QED
        BY <4>1, <4>2
    <3>2. CASE t = n
      <4>1. k \in DOMAIN lines /\ lines[k].ids # <<>> /\ lines[k] = repo.output[t][k]
        BY <3>2 DEF lines
      <4>2. PICK j \in DOMAIN rows : rows[j].id = lines[k].ids[1]
        BY <1>5, <4>1
      <4>3. PICK i \in DOMAIN table' : table'[i] = rows[j]
        BY <2>1
      <4> QED
        BY <4>1, <4>2, <4>3
    <3> QED
      BY <1>3, <3>1, <3>2
  <2>5. FixIsReported'
    <3> SUFFICES ASSUME NEW i \in DOMAIN table'
                 PROVE  \E t \in 1..n : \E k \in DOMAIN repo.output[t] :
                            Tells(repo.output[t][k], table'[i])
      BY <1>6, <1>8 DEF FixIsReported
    <3>1. 1..done \subseteq 1..n /\ n \in 1..n
      BY <1>1, <1>3 DEF n
    <3>2. CASE \E k \in DOMAIN table : table'[i] = table[k]
      BY <1>1, <3>1, <3>2 DEF FixIsReported
    <3>3. CASE \E k \in DOMAIN rows : table'[i] = rows[k]
      <4>1. PICK k \in DOMAIN rows : table'[i] = rows[k]
        BY <3>3
      <4>2. PICK l \in DOMAIN lines : Tells(lines[l], rows[k])
        BY <1>5
      <4>3. l \in DOMAIN repo.output[n] /\ Tells(repo.output[n][l], table'[i])
        BY <4>1, <4>2 DEF lines
      <4> QED
        BY <3>1, <4>3
    <3> QED
      BY <2>1, <3>2, <3>3
  <2> QED
    BY <1>1, <1>6, <2>2, <2>3, <2>4, <2>5
       DEF FactsIInv, LiveFindingIsKept, ApprovedIsSuppressed
<1> QED
  BY <1>6, <1>7, <1>8

(* The filter over the suppressions keeps it.                              *)
LEMMA StepSuppress ==
    FactsIInv /\ LoadSuppressedVulnIDs => FactsIInv'
<1> SUFFICES ASSUME FactsIInv, LoadSuppressedVulnIDs PROVE FactsIInv'
  OBVIOUS
<1>1. /\ table \in Seq(Rows) /\ done \in 0..Len(Targets) /\ repo \in Repos
      /\ done = Len(Targets) /\ EveryLineHasARow /\ FixIsReported
  BY DEF FactsIInv, FactsTypeOK, LoadSuppressedVulnIDs
<1> DEFINE live == {i \in DOMAIN table : table[i].id \notin Named}
<1>2. /\ suppressed' = Named
      /\ table' = KeepAt(table, live)
      /\ factsStage' = "model" /\ UNCHANGED <<repo, done>>
  BY <1>1, NamedIsExtracted DEF LoadSuppressedVulnIDs
<1>3. Named' = Named /\ Approved' = Approved /\ Approved \subseteq Named
  BY <1>1, <1>2, NamedIsExtracted DEF Named, Approved
<1>4. Named \in SUBSET Ids
  <2>1. /\ \A l \in MakeLines : l.ids \in Seq(Ids)
        /\ \A l \in ListLines : l.ids \in Seq(Ids)
    BY RepoFactsAssumption DEF MakeLineType, ListLineType
  <2>2. repo.make \in Seq(MakeLines) /\ repo.lists \in Seq(ListLines)
    BY <1>1, RepoFactsAssumption, UpToIsSeq DEF Repos
  <2>3. \A j \in DOMAIN repo.make : repo.make[j].ids \in Seq(Ids)
    BY <2>1, <2>2
  <2>4. \A j \in DOMAIN repo.make : IdsIn(<<repo.make[j]>>) \subseteq Ids
    BY <2>3 DEF IdsIn
  <2>5. ExtractListed(repo.lists) \subseteq Ids
    <3> SUFFICES ASSUME NEW i \in DOMAIN repo.lists, repo.lists[i].ids # <<>>
                 PROVE  repo.lists[i].ids[1] \in Ids
      BY DEF ExtractListed
    <3>1. repo.lists[i].ids \in Seq(Ids)
      BY <2>1, <2>2
    <3> QED
      BY <3>1
  <2> QED
    BY <2>4, <2>5 DEF Named
<1> HIDE DEF live
<1>5. PICK h : Enumerates(h, table', table, live \cap (1..Len(table)))
  BY <1>1, <1>2, KeepAtSelects
<1>6. /\ table' \in Seq(Rows)
      /\ \A i \in DOMAIN table' : \E k \in live : table'[i] = table[k]
      /\ \A k \in live : \E i \in DOMAIN table' : table'[i] = table[k]
      /\ live \subseteq DOMAIN table
  <2>1. table' \in Seq(Rows)
    BY <1>1, <1>2, KeepAtSelects
  <2>2. live \subseteq DOMAIN table /\ DOMAIN table = 1..Len(table)
    BY <1>1 DEF live
  <2>3. /\ DOMAIN table' = 1..Len(table')
        /\ live \cap (1..Len(table)) = live
    BY <2>1, <2>2
  <2>4. /\ \A i \in DOMAIN table' : h[i] \in live /\ table'[i] = table[h[i]]
        /\ \A k \in live : \E i \in DOMAIN table' : h[i] = k
    BY <1>5, <2>3 DEF Enumerates
  <2> QED
    BY <2>1, <2>2, <2>4
<1>7. FactsTypeOK'
  BY <1>1, <1>2, <1>4, <1>6 DEF FactsTypeOK
<1>8. FixIsReported'
  <2>1. done' = done /\ repo' = repo
    BY <1>2
  <2> SUFFICES ASSUME NEW i \in DOMAIN table'
               PROVE  \E t \in 1..done : \E k \in DOMAIN repo.output[t] :
                          Tells(repo.output[t][k], table'[i])
    BY <2>1 DEF FixIsReported
  <2>2. PICK k \in DOMAIN table : table'[i] = table[k]
    BY <1>6
  <2> QED
    BY <1>1, <2>2 DEF FixIsReported
<1>9. ApprovedIsSuppressed'
  <2> SUFFICES ASSUME NEW i \in DOMAIN table', table'[i].id \in Approved
               PROVE  FALSE
    BY <1>2, <1>3 DEF ApprovedIsSuppressed, InTable
  <2> QED
    BY <1>3, <1>6 DEF live
<1>10. LiveFindingIsKept'
  <2>1. FirstIds' = FirstIds
    BY <1>2 DEF FirstIds
  <2> SUFFICES ASSUME NEW id \in FirstIds \ Named
               PROVE  \E i \in DOMAIN table' : table'[i].id = id
    BY <1>3, <2>1 DEF LiveFindingIsKept, InTable
  <2>2. PICK t \in DOMAIN Targets :
           \E k \in DOMAIN repo.output[t] :
              repo.output[t][k].ids # <<>> /\ repo.output[t][k].ids[1] = id
    BY DEF FirstIds
  <2>3. t \in 1..done
    BY <1>1, <2>2, RepoFactsAssumption
  <2>4. PICK i \in DOMAIN table : table[i].id = id
    BY <1>1, <2>2, <2>3 DEF EveryLineHasARow, InTable
  <2> QED
    BY <1>6, <2>4 DEF live
<1> QED
  BY <1>1, <1>2, <1>7, <1>8, <1>9, <1>10 DEF FactsIInv

(* Every step of planning's reading keeps it.                              *)
LEMMA StepFacts ==
    FactsIInv /\ FactsNext => FactsIInv'
<1> SUFFICES ASSUME FactsIInv, FactsNext
             PROVE  FactsIInv'
  OBVIOUS
<1> USE DEF FactsIInv, FactsTypeOK, EveryLineHasARow, FixIsReported, LiveFindingIsKept,
            ApprovedIsSuppressed, InTable
<1>1. CASE ScanWorkflowGoVersionPins
  <2>1. Len(Targets) \in Nat /\ Len(Targets) > 0
    BY RepoFactsAssumption
  <2> QED
    BY <1>1, <2>1 DEF ScanWorkflowGoVersionPins
<1>2. CASE RunTarget
  BY <1>2, StepRunTarget
<1>3. CASE LoadSuppressedVulnIDs
  BY <1>3, StepSuppress
<1>4. CASE FailToLoad
  BY <1>4 DEF FailToLoad
<1>5. CASE FactsOver
  <2>1. /\ UNCHANGED factsVars /\ FirstIds' = FirstIds
        /\ Named' = Named /\ Approved' = Approved
    BY <1>5 DEF FactsOver, factsVars, FirstIds, Named, Approved
  <2> QED
    BY <2>1 DEF factsVars
<1> QED
  BY <1>1, <1>2, <1>3, <1>4, <1>5 DEF FactsNext

-----------------------------------------------------------------------------
(* LLMJson.tla.                                                            *)

(* No string of an answer holds a brace; NoObjectIsTrue has one that does. *)
BracesInStrings == {"openInString", "closeInString"}

NoStringHoldsABrace == Tokens \cap BracesInStrings = {}

(* l is the nesting after every token of s.                                *)
IsLevel(l, s) == /\ l \in [0..Len(s) -> Int]
                 /\ l[0] = 0
                 /\ \A k \in 1..Len(s) : l[k] = l[k - 1] + Nesting(s[k])

(* f adds up w.                                                            *)
IsSum(f, w, n) == f[0] = 0 /\ \A k \in 1..n : f[k] = f[k - 1] + w[k]

(* A recursion over the tokens has one solution.                           *)
LEMMA SumsAgree ==
    ASSUME NEW n \in Nat, NEW w, NEW f, NEW g, IsSum(f, w, n), IsSum(g, w, n)
    PROVE  \A k \in 0..n : f[k] = g[k]
<1> DEFINE P == {k \in Nat : f[k] = g[k]}
<1>1. 0 \in P /\ \A k \in 1..n : k - 1 \in P => k \in P
  BY DEF IsSum
<1>2. 0..n \subseteq P
  <2>1. P \in SUBSET Nat
    OBVIOUS
  <2> HIDE DEF P
  <2> QED
    BY <1>1, <2>1, InductionUpTo
<1> QED
  BY <1>2

(* Every answer has a nesting.                                             *)
LEMMA LevelExists ==
    ASSUME NEW s \in Seq(Tokens)
    PROVE  \E l : IsLevel(l, s)
<1> DEFINE L == Len(s)
           Upto(m, l) == /\ l \in [0..m -> Int] /\ l[0] = 0
                         /\ \A k \in 1..m : l[k] = l[k - 1] + Nesting(s[k])
           P == {m \in Nat : \E l : Upto(m, l)}
<1>1. L \in Nat /\ \A c : Nesting(c) \in Int
  BY DEF Nesting
<1>2. 0 \in P
  <2>1. Upto(0, [k \in 0..0 |-> 0])
    OBVIOUS
  <2> QED
    BY <2>1
<1>3. ASSUME NEW m \in 1..L, m - 1 \in P
      PROVE  m \in P
  <2>1. PICK l : Upto(m - 1, l)
    BY <1>3
  <2> DEFINE e == [k \in 0..m |-> IF k = m THEN l[m - 1] + Nesting(s[m]) ELSE l[k]]
  <2>2. m \in Nat /\ m # 0 /\ m - 1 \in 0..(m - 1)
    BY <1>1
  <2>3. \A k \in 0..(m - 1) : e[k] = l[k] /\ l[k] \in Int
    BY <2>1, <2>2
  <2>4. e[m] = l[m - 1] + Nesting(s[m]) /\ e[m - 1] = l[m - 1]
    BY <2>2, <2>3
  <2>5. e \in [0..m -> Int]
    <3>1. \A k \in 0..m : e[k] \in Int
      <4> SUFFICES ASSUME NEW k \in 0..m PROVE e[k] \in Int
        OBVIOUS
      <4>1. CASE k = m
        <5>1. l[m - 1] \in Int
          BY <2>1, <2>2
        <5> HIDE DEF e
        <5> QED
          BY <1>1, <2>4, <4>1, <5>1
      <4>2. CASE k # m
        <5>1. k \in 0..(m - 1)
          BY <2>2, <4>2
        <5> HIDE DEF e
        <5> QED
          BY <2>3, <5>1
      <4> QED
        BY <4>1, <4>2
    <3>2. e = [k \in 0..m |-> e[k]]
      OBVIOUS
    <3> HIDE DEF e
    <3> QED
      BY <3>1, <3>2
  <2>6. \A k \in 1..m : e[k] = e[k - 1] + Nesting(s[k])
    <3> SUFFICES ASSUME NEW k \in 1..m PROVE e[k] = e[k - 1] + Nesting(s[k])
      OBVIOUS
    <3>1. CASE k = m
      BY <2>4, <3>1
    <3>2. CASE k # m
      <4>1. k \in 1..(m - 1) /\ k \in 0..(m - 1) /\ k - 1 \in 0..(m - 1)
        BY <2>2, <3>2
      <4> HIDE DEF e
      <4> QED
        BY <2>1, <2>3, <4>1
    <3> QED
      BY <3>1, <3>2
  <2>7. Upto(m, e)
    <3>1. e[0] = 0
      BY <2>1, <2>2, <2>3
    <3> HIDE DEF e
    <3> QED
      BY <2>5, <2>6, <3>1
  <2> QED
    BY <2>2, <2>7
<1>4. 0..L \subseteq P
  <2>1. P \in SUBSET Nat
    OBVIOUS
  <2> HIDE DEF P, L
  <2> QED
    BY <1>1, <1>2, <1>3, <2>1, InductionUpTo
<1>5. L \in P
  <2> HIDE DEF P, L
  <2> QED
    BY <1>1, <1>4
<1> QED
  BY <1>5 DEF IsLevel

(* The sum Depth is defined by.                                            *)
LEMMA DepthIs ==
    ASSUME NEW s, NEW i \in Nat, NEW g \in [0..i -> Int], g[0] = 0,
           \A k \in 1..i : g[k] = g[k - 1] + Nesting(s[k])
    PROVE  Depth(s, i) = g[i]
<1> DEFINE Sum(d) == d = [k \in 0..i |-> IF k = 0 THEN 0
                                         ELSE d[k - 1] + Nesting(s[k])]
           d == CHOOSE d : Sum(d)
<1>1. Sum(g)
  <2>1. \A k \in 0..i : g[k] = IF k = 0 THEN 0 ELSE g[k - 1] + Nesting(s[k])
    <3>1. \A k \in 0..i : k = 0 \/ k \in 1..i
      OBVIOUS
    <3> QED
      BY <3>1
  <2> QED
    BY <2>1
<1>2. Sum(d)
  <2> HIDE DEF Sum
  <2> QED
    BY <1>1
<1>3. Depth(s, i) = d[i]
  BY DEF Depth, Nesting
<1> DEFINE w == [k \in 1..i |-> Nesting(s[k])]
<1>4. IsSum(d, w, i)
  <2> HIDE DEF d
  <2> QED
    BY <1>2 DEF IsSum
<1>5. IsSum(g, w, i)
  BY DEF IsSum
<1>6. \A k \in 0..i : d[k] = g[k]
  <2> HIDE DEF d, w
  <2> QED
    BY <1>4, <1>5, SumsAgree
<1> QED
  BY <1>3, <1>6

IsBalance(g, s, e, n) == /\ g \in [0..n -> Int]
                         /\ g[0] = 0
                         /\ \A k \in 1..n : g[k] = g[k - 1] + Balance(s[e - k + 1])

(* The sum OpenBraces is defined by.                                       *)
LEMMA OpenBracesIs ==
    ASSUME NEW s, NEW i, NEW e, e - i + 1 \in Nat, NEW g, IsBalance(g, s, e, e - i + 1)
    PROVE  OpenBraces(s, i, e) = g[e - i + 1]
<1> DEFINE n == e - i + 1
           Sum(d) == d = [k \in 0..n |-> IF k = 0 THEN 0
                                         ELSE LET c == s[e - k + 1] IN d[k - 1] + Balance(c)]
           d == CHOOSE d : Sum(d)
<1>n. /\ n \in Nat
      /\ g \in [0..n -> Int] /\ g[0] = 0
      /\ \A k \in 1..n : g[k] = g[k - 1] + Balance(s[e - k + 1])
  BY DEF IsBalance
<1>1. Sum(g)
  <2>1. \A k \in 0..n : g[k] = IF k = 0 THEN 0 ELSE g[k - 1] + Balance(s[e - k + 1])
    <3>1. \A k \in 0..n : k = 0 \/ k \in 1..n
      BY <1>n
    <3> QED
      BY <1>n, <3>1
  <2> QED
    BY <1>n, <2>1
<1>2. Sum(d)
  <2> HIDE DEF Sum
  <2> QED
    BY <1>1
<1>3. OpenBraces(s, i, e) = d[n]
  BY DEF OpenBraces, Balance
<1> DEFINE w == [k \in 1..n |-> Balance(s[e - k + 1])]
<1>4. IsSum(d, w, n)
  <2> HIDE DEF d, n
  <2> QED
    BY <1>2, <1>n DEF IsSum
<1>5. IsSum(g, w, n)
  <2> HIDE DEF d
  <2> QED
    BY <1>n DEF IsSum
<1>6. \A k \in 0..n : d[k] = g[k]
  <2> HIDE DEF d, w, n
  <2> QED
    BY <1>n, <1>4, <1>5, SumsAgree
<1>7. n \in 0..n
  BY <1>n
<1> HIDE DEF d
<1> QED
  BY <1>3, <1>6, <1>7

(* The nesting of a part is what the whole adds from there on.             *)
LEMMA DepthOfPart ==
    ASSUME NEW s \in Seq(Tokens), NEW l, IsLevel(l, s),
           NEW i \in 1..Len(s), NEW j \in i..Len(s), NEW m \in 0..(j - i + 1)
    PROVE  Depth(SubSeq(s, i, j), m) = l[i - 1 + m] - l[i - 1]
<1> DEFINE p == SubSeq(s, i, j)
           g == [k \in 0..m |-> l[i - 1 + k] - l[i - 1]]
<1>1. /\ Len(s) \in Nat /\ i \in Nat /\ j \in Nat /\ m \in Nat
      /\ 1 <= i /\ i <= j /\ j <= Len(s) /\ m <= j - i + 1
  OBVIOUS
<1>2. \A k \in 1..m : p[k] = s[i - 1 + k]
  <2>1. \A k \in 1..m : k \in 1..(j - i + 1)
    BY <1>1
  <2>2. \A k \in 1..(j - i + 1) : p[k] = s[i + k - 1]
    BY <1>1
  <2> QED
    BY <1>1, <2>1, <2>2
<1>3. l \in [0..Len(s) -> Int] /\ \A k \in 1..Len(s) : l[k] = l[k - 1] + Nesting(s[k])
  BY DEF IsLevel
<1> HIDE DEF p
<1>4. \A k \in 0..m : i - 1 + k \in 0..Len(s) /\ l[i - 1 + k] \in Int
  <2>1. \A k \in 0..m : i - 1 + k \in 0..Len(s)
    BY <1>1
  <2> QED
    BY <1>3, <2>1
<1>5. i - 1 \in 0..Len(s) /\ l[i - 1] \in Int
  BY <1>1, <1>3
<1>6. g \in [0..m -> Int] /\ g[0] = 0
  <2>1. \A k \in 0..m : g[k] = l[i - 1 + k] - l[i - 1]
    OBVIOUS
  <2>2. \A x, y \in Int : x - y \in Int /\ x - x = 0
    OBVIOUS
  <2>3. \A k \in 0..m : g[k] \in Int
    <3> SUFFICES ASSUME NEW k \in 0..m PROVE g[k] \in Int
      OBVIOUS
    <3>1. l[i - 1 + k] \in Int /\ g[k] = l[i - 1 + k] - l[i - 1]
      BY <1>4, <2>1
    <3> HIDE DEF g
    <3> QED
      BY <1>5, <2>2, <3>1
  <2>4. 0 \in 0..m /\ i - 1 + 0 = i - 1
    BY <1>1
  <2>5. g[0] = l[i - 1] - l[i - 1]
    BY <2>1, <2>4
  <2>6. g = [k \in 0..m |-> g[k]]
    OBVIOUS
  <2> HIDE DEF g
  <2> QED
    BY <1>5, <2>2, <2>3, <2>5, <2>6
<1>7. \A k \in 1..m : g[k] = g[k - 1] + Nesting(p[k])
  <2> SUFFICES ASSUME NEW k \in 1..m PROVE g[k] = g[k - 1] + Nesting(p[k])
    OBVIOUS
  <2>1. /\ k \in 0..m /\ k - 1 \in 0..m /\ i - 1 + k \in 1..Len(s)
        /\ i - 1 + (k - 1) = (i - 1 + k) - 1
    BY <1>1
  <2>2. l[i - 1 + k] = l[i - 1 + (k - 1)] + Nesting(p[k])
    BY <1>2, <1>3, <2>1
  <2>3. g[k] = l[i - 1 + k] - l[i - 1] /\ g[k - 1] = l[i - 1 + (k - 1)] - l[i - 1]
    BY <2>1
  <2>4. Nesting(p[k]) \in Int
    BY DEF Nesting
  <2>5. ASSUME NEW x \in Int, NEW y \in Int, NEW z \in Int, NEW w \in Int, x = y + w
        PROVE  x - z = (y - z) + w
    BY <2>5
  <2>6. l[i - 1 + k] \in Int /\ l[i - 1 + (k - 1)] \in Int
    BY <1>4, <2>1
  <2> HIDE DEF g
  <2> QED
    BY <1>5, <2>2, <2>3, <2>4, <2>5, <2>6
<1>8. Depth(p, m) = g[m]
  <2> HIDE DEF g
  <2> QED
    BY <1>1, <1>6, <1>7, DepthIs
<1> QED
  BY <1>1, <1>8 DEF p

(* Without quoted braces lastJSONBlock counts the nesting, backwards.      *)
LEMMA OpenBracesOfPart ==
    ASSUME NoStringHoldsABrace, NEW s \in Seq(Tokens), NEW l, IsLevel(l, s),
           NEW e \in 1..Len(s), NEW i \in 1..e
    PROVE  OpenBraces(s, i, e) = l[i - 1] - l[e]
<1> DEFINE n == e - i + 1
           g == [k \in 0..n |-> l[e - k] - l[e]]
<1>1. /\ Len(s) \in Nat /\ i \in Nat /\ e \in Nat /\ n \in Nat
      /\ 1 <= i /\ i <= e /\ e <= Len(s) /\ n \in 0..n /\ e - n = i - 1
  OBVIOUS
<1>2. l \in [0..Len(s) -> Int] /\ \A k \in 1..Len(s) : l[k] = l[k - 1] + Nesting(s[k])
  BY DEF IsLevel
<1>3. \A k \in 1..Len(s) : Balance(s[k]) = 0 - Nesting(s[k]) /\ Nesting(s[k]) \in Int
  <2>1. \A k \in 1..Len(s) : s[k] \notin BracesInStrings
    BY DEF NoStringHoldsABrace
  <2>2. \A c : c \notin BracesInStrings => Balance(c) = 0 - Nesting(c) /\ Nesting(c) \in Int
    <3> SUFFICES ASSUME NEW c, c \notin BracesInStrings
                 PROVE  Balance(c) = 0 - Nesting(c) /\ Nesting(c) \in Int
      OBVIOUS
    <3>1. CASE c = "close"
      BY <3>1 DEF Balance, Nesting, OpeningBraces, ClosingBraces
    <3>2. CASE c = "open"
      BY <3>2 DEF Balance, Nesting, OpeningBraces, ClosingBraces
    <3>3. CASE c # "open" /\ c # "close"
      BY <3>3 DEF Balance, Nesting, OpeningBraces, ClosingBraces, BracesInStrings
    <3> QED
      BY <3>1, <3>2, <3>3
  <2> QED
    BY <2>1, <2>2
<1>4. \A k \in 0..n : e - k \in 0..Len(s) /\ l[e - k] \in Int
  <2>1. \A k \in 0..n : e - k \in 0..Len(s)
    BY <1>1
  <2> QED
    BY <1>2, <2>1
<1>5. l[e] \in Int
  BY <1>1, <1>2
<1>6. g \in [0..n -> Int] /\ g[0] = 0
  <2>1. 0 \in 0..n /\ e - 0 = e
    BY <1>1
  <2> HIDE DEF n
  <2>2. \A k \in 0..n : l[e - k] - l[e] \in Int
    BY <1>4, <1>5
  <2> QED
    BY <1>5, <2>1, <2>2
<1>7. \A k \in 1..n : g[k] = g[k - 1] + Balance(s[e - k + 1])
  <2> SUFFICES ASSUME NEW k \in 1..n PROVE g[k] = g[k - 1] + Balance(s[e - k + 1])
    OBVIOUS
  <2> DEFINE x == e - k
  <2>1. /\ k \in 0..n /\ k - 1 \in 0..n /\ x + 1 \in 1..Len(s) /\ x \in Int
        /\ e - (k - 1) = x + 1 /\ (x + 1) - 1 = x /\ e - k + 1 = x + 1
    BY <1>1
  <2>2. l[x + 1] = l[x] + Nesting(s[x + 1])
    BY <1>2, <2>1
  <2>3. g[k] = l[x] - l[e] /\ g[k - 1] = l[x + 1] - l[e]
    BY <2>1
  <2>4. /\ l[x] \in Int /\ l[x + 1] \in Int /\ Balance(s[x + 1]) = 0 - Nesting(s[x + 1])
        /\ Nesting(s[x + 1]) \in Int
    BY <1>3, <1>4, <2>1
  <2>5. g[k] = g[k - 1] + Balance(s[x + 1])
    <3> HIDE DEF g, x
    <3> QED
      BY <1>5, <2>2, <2>3, <2>4
  <2> QED
    BY <2>1, <2>5
<1>8. OpenBraces(s, i, e) = g[n]
  <2> HIDE DEF g
  <2> QED
    <3>1. IsBalance(g, s, e, n)
      BY <1>6, <1>7 DEF IsBalance
    <3> QED
      BY <1>1, <3>1, OpenBracesIs
<1> QED
  BY <1>1, <1>8

(* The tokens of a part.                                                   *)
LEMMA PartIs ==
    ASSUME NEW s \in Seq(Tokens), NEW i \in 1..Len(s), NEW j \in i..Len(s)
    PROVE  \A m \in 1..(j - i + 1) : SubSeq(s, i, j)[m] = s[i + m - 1]
OBVIOUS

(* A part that unmarshals: its nesting is back where it was for the first  *)
(* time at its end, which is a brace.                                      *)
LEMMA ObjectIs ==
    ASSUME NoStringHoldsABrace, NEW s \in Seq(Tokens), NEW l, IsLevel(l, s),
           NEW i \in DOMAIN s, NEW j \in DOMAIN s, IsObject(SubSeq(s, i, j))
    PROVE  /\ i < j /\ l[j] = l[i - 1] /\ s[j] = "close"
           /\ \A k \in i..(j - 1) : l[k] > l[i - 1]
           /\ \A k \in i..j : s[k] # "fence"
<1> DEFINE p == SubSeq(s, i, j)
<1>1. Len(s) \in Nat /\ i \in 1..Len(s) /\ j \in 1..Len(s)
  OBVIOUS
<1>2. i < j
  <2>1. Len(p) >= 2
    BY DEF IsObject
  <2> SUFFICES ASSUME j <= i PROVE FALSE
    BY <1>1
  <2>2. Len(p) <= 1
    BY <1>1
  <2> HIDE DEF p
  <2> QED
    BY <1>1, <2>1, <2>2
<1>3. p \in Seq(Tokens) /\ Len(p) = j - i + 1
  BY <1>1, <1>2
<1>4. \A k \in i..j : s[k] = p[k - i + 1] /\ k - i + 1 \in 1..Len(p)
  <2>1. \A m \in 1..(j - i + 1) : p[m] = s[i + m - 1]
    <3>1. i \in 1..Len(s) /\ j \in i..Len(s)
      BY <1>1, <1>2
    <3> QED
      BY <3>1, PartIs
  <2>2. \A k \in i..j : k - i + 1 \in 1..(j - i + 1) /\ i + (k - i + 1) - 1 = k
    BY <1>1
  <2> HIDE DEF p
  <2> QED
    BY <1>3, <2>1, <2>2
<1> HIDE DEF p
<1>5. \A k \in i..j : s[k] # "fence"
  BY <1>4 DEF IsObject, p
<1>6. \A m \in 0..(j - i + 1) : Depth(p, m) = l[i - 1 + m] - l[i - 1]
  <2> SUFFICES ASSUME NEW m \in 0..(j - i + 1)
               PROVE  Depth(SubSeq(s, i, j), m) = l[i - 1 + m] - l[i - 1]
    BY DEF p
  <2>1. j \in i..Len(s)
    BY <1>1, <1>2
  <2> QED
    BY <1>1, <2>1, DepthOfPart
<1>7. l \in [0..Len(s) -> Int] /\ \A k \in 1..Len(s) : l[k] = l[k - 1] + Nesting(s[k])
  BY DEF IsLevel
<1>8. \A m \in 1..(j - i) : l[i - 1 + m] > l[i - 1]
  <2>1. \A m \in 1..(Len(p) - 1) : Depth(p, m) > 0
    BY DEF IsObject, p
  <2> SUFFICES ASSUME NEW m \in 1..(j - i) PROVE l[i - 1 + m] > l[i - 1]
    OBVIOUS
  <2>2. /\ m \in 1..(Len(p) - 1) /\ m \in 0..(j - i + 1)
        /\ i - 1 + m \in 0..Len(s) /\ i - 1 \in 0..Len(s)
    BY <1>1, <1>2, <1>3
  <2>3. l[i - 1 + m] \in Int /\ l[i - 1] \in Int
    BY <1>7, <2>2
  <2>4. l[i - 1 + m] - l[i - 1] > 0
    BY <1>6, <2>1, <2>2
  <2> QED
    BY <2>3, <2>4
<1>9. l[j] = l[i - 1]
  <2>1. Depth(p, Len(p)) = 0
    BY DEF IsObject, p
  <2>2. /\ j - i + 1 \in 0..(j - i + 1) /\ i - 1 + (j - i + 1) = j
        /\ j \in 0..Len(s) /\ i - 1 \in 0..Len(s)
    BY <1>1, <1>2
  <2>3. l[j] \in Int /\ l[i - 1] \in Int
    BY <1>7, <2>2
  <2>4. l[j] - l[i - 1] = 0
    BY <1>3, <1>6, <2>1, <2>2
  <2> QED
    BY <2>3, <2>4
<1>10. \A k \in i..(j - 1) : l[k] > l[i - 1]
  <2> SUFFICES ASSUME NEW k \in i..(j - 1) PROVE l[k] > l[i - 1]
    OBVIOUS
  <2>1. i \in Nat /\ j \in Nat /\ k \in Int /\ i <= k /\ k <= j - 1
    BY <1>1
  <2>2. k - i + 1 \in 1..(j - i) /\ i - 1 + (k - i + 1) = k
    BY <2>1
  <2> QED
    BY <1>8, <2>2
<1>11. s[j] = "close"
  <2>1. j - 1 \in i..(j - 1) /\ j - 1 \in 0..Len(s) /\ i - 1 \in 0..Len(s)
    BY <1>1, <1>2
  <2>2. l[j - 1] \in Int /\ l[i - 1] \in Int
    BY <1>7, <2>1
  <2>3. l[j] = l[j - 1] + Nesting(s[j])
    BY <1>1, <1>7
  <2>4. Nesting(s[j]) < 0
    <3>1. Nesting(s[j]) \in Int
      BY DEF Nesting
    <3>2. l[j - 1] > l[j]
      BY <1>9, <1>10, <2>1
    <3> QED
      BY <1>9, <2>2, <2>3, <3>1, <3>2
  <2> SUFFICES ASSUME s[j] # "close" PROVE FALSE
    OBVIOUS
  <2>5. Nesting(s[j]) \in {0, 1}
    BY DEF Nesting
  <2> QED
    BY <2>4, <2>5
<1> QED
  BY <1>2, <1>5, <1>9, <1>10, <1>11

(* The greatest of some positions is one of them, or 0.                    *)
LEMMA LatestIs ==
    ASSUME NEW n \in Nat, NEW S, S \subseteq 1..n
    PROVE  /\ Latest(S) \in 0..n
           /\ Latest(S) # 0 => Latest(S) \in S
           /\ \A k \in S : k <= Latest(S)
<1> DEFINE R == S \cup {0}
<1>1. R \subseteq 0..n
  OBVIOUS
<1>2. IsFiniteSet(R)
  <2>1. IsFiniteSet(0..n)
    BY FS_Interval
  <2> HIDE DEF R
  <2> QED
    BY <1>1, <2>1, FS_Subset
<1>3. R \in SUBSET Nat /\ R # {}
  BY <1>1
<1>4. Latest(S) = Max(R)
  BY DEF Latest
<1>5. \A k \in S : k \in R
  OBVIOUS
<1>6. Max(R) \in R /\ \A k \in R : k <= Max(R)
  <2> HIDE DEF R
  <2> QED
    BY <1>2, <1>3, MaxIsGreatest
<1>8. Max(R) # 0 => Max(R) \in S
  BY <1>6
<1> HIDE DEF R
<1>7. \A k \in S : k <= Latest(S)
  BY <1>4, <1>5, <1>6
<1>9. Max(R) \in 0..n
  BY <1>1, <1>6
<1> QED
  BY <1>4, <1>7, <1>8, <1>9

(* Nothing is not an object.                                               *)
LEMMA NothingIsNoObject == ~IsObject(<<>>)
BY DEF IsObject

(* The last brace is no earlier than where any object ends.                *)
LEMMA ObjectEnds ==
    ASSUME NoStringHoldsABrace, NEW s \in Seq(Tokens), NEW i \in DOMAIN s, NEW j \in DOMAIN s,
           IsObject(SubSeq(s, i, j))
    PROVE  LastBrace(s) \in DOMAIN s /\ i < j /\ j <= LastBrace(s)
<1> DEFINE S == {k \in DOMAIN s : s[k] \in ClosingBraces}
<1>1. PICK l : IsLevel(l, s)
  BY LevelExists
<1>2. i < j /\ s[j] = "close"
  BY <1>1, ObjectIs
<1>3. s[j] \in ClosingBraces
  BY <1>2 DEF ClosingBraces
<1>4. Len(s) \in Nat /\ S \subseteq 1..Len(s) /\ j \in S /\ 0 \notin S /\ S \subseteq DOMAIN s
  BY <1>3
<1>5. LastBrace(s) = Latest(S)
  BY DEF LastBrace
<1> HIDE DEF S
<1>6. Latest(S) \in 0..Len(s) /\ (Latest(S) # 0 => Latest(S) \in S) /\ j <= Latest(S)
  BY <1>4, LatestIs
<1>7. j > 0 /\ Latest(S) # 0
  BY <1>4, <1>6
<1> QED
  BY <1>2, <1>4, <1>5, <1>6, <1>7

(* Two objects that end at one place start at one place.                   *)
LEMMA OneObjectPerEnd ==
    ASSUME NoStringHoldsABrace, NEW s \in Seq(Tokens), NEW i \in DOMAIN s, NEW k \in DOMAIN s,
           NEW j \in DOMAIN s, IsObject(SubSeq(s, i, j)), IsObject(SubSeq(s, k, j))
    PROVE  i = k
<1>1. PICK l : IsLevel(l, s)
  BY LevelExists
<1>2. /\ i < j /\ l[j] = l[i - 1] /\ \A m \in i..(j - 1) : l[m] > l[i - 1]
  BY <1>1, ObjectIs
<1>3. /\ k < j /\ l[j] = l[k - 1] /\ \A m \in k..(j - 1) : l[m] > l[k - 1]
  BY <1>1, ObjectIs
<1>4. l[j] \in Int
  BY <1>1 DEF IsLevel
<1>5. i \in Int /\ k \in Int /\ j \in Int
  OBVIOUS
<1>6. ~(i < k)
  <2> SUFFICES ASSUME i < k PROVE FALSE
    OBVIOUS
  <2>1. k - 1 \in i..(j - 1)
    BY <1>3, <1>5
  <2>2. l[k - 1] > l[i - 1]
    BY <1>2, <2>1
  <2> QED
    BY <1>2, <1>3, <1>4, <2>2
<1>7. ~(k < i)
  <2> SUFFICES ASSUME k < i PROVE FALSE
    OBVIOUS
  <2>1. i - 1 \in k..(j - 1)
    BY <1>2, <1>5
  <2>2. l[i - 1] > l[k - 1]
    BY <1>3, <2>1
  <2> QED
    BY <1>2, <1>3, <1>4, <2>2
<1> QED
  BY <1>5, <1>6, <1>7

(* lastJSONBlock finds the object that ends at the last brace.             *)
LEMMA BlockIs ==
    ASSUME NoStringHoldsABrace, NEW s \in Seq(Tokens), NEW i \in DOMAIN s,
           LastBrace(s) \in DOMAIN s, IsObject(SubSeq(s, i, LastBrace(s)))
    PROVE  LastJSONBlock(s) = SubSeq(s, i, LastBrace(s))
<1> DEFINE e == LastBrace(s)
           S == {k \in 1..e : OpenBraces(s, k, e) = 0}
<1>1. PICK l : IsLevel(l, s)
  BY LevelExists
<1>2. i < e /\ l[e] = l[i - 1] /\ \A m \in i..(e - 1) : l[m] > l[i - 1]
  BY <1>1, ObjectIs
<1>3. e \in 1..Len(s) /\ i \in 1..e /\ Len(s) \in Nat /\ e \in Nat /\ e # 0 /\ i # 0
  BY <1>2
<1>4. LastJSONBlock(s) = IF e = 0 \/ Latest(S) = 0 THEN <<>> ELSE SubSeq(s, Latest(S), e)
  BY DEF LastJSONBlock
<1> HIDE DEF e
<1>5. \A k \in 1..e : OpenBraces(s, k, e) = l[k - 1] - l[e]
  BY <1>1, <1>3, OpenBracesOfPart
<1>6. \A k \in 0..e : l[k] \in Int
  BY <1>1, <1>3 DEF IsLevel
<1>7. \A k \in 1..e : k \in S <=> l[k - 1] = l[e]
  <2> SUFFICES ASSUME NEW k \in 1..e PROVE k \in S <=> l[k - 1] = l[e]
    OBVIOUS
  <2>1. l[k - 1] \in Int /\ l[e] \in Int
    BY <1>3, <1>6
  <2> QED
    BY <1>5, <2>1
<1>8. S \subseteq 1..e
  OBVIOUS
<1> HIDE DEF S
<1>9. Latest(S) \in 0..e /\ (Latest(S) # 0 => Latest(S) \in S) /\ \A k \in S : k <= Latest(S)
  BY <1>3, <1>8, LatestIs
<1>10. i \in S
  BY <1>2, <1>3, <1>7
<1>11. \A k \in S : ~(i < k)
  <2> SUFFICES ASSUME NEW k \in S, i < k PROVE FALSE
    OBVIOUS
  <2>1. k - 1 \in i..(e - 1) /\ k \in 1..e
    BY <1>3, <1>8
  <2>2. l[k - 1] > l[i - 1] /\ l[k - 1] = l[e]
    BY <1>2, <1>7, <2>1
  <2>3. l[e] \in Int
    BY <1>3, <1>6
  <2> QED
    BY <1>2, <2>2, <2>3
<1>12. Latest(S) = i
  <2>1. i <= Latest(S) /\ Latest(S) \in 0..e
    BY <1>3, <1>8, <1>9, <1>10
  <2>2. Latest(S) # 0 /\ Latest(S) \in S
    BY <1>3, <1>9, <2>1
  <2>3. ~(i < Latest(S))
    BY <1>11, <2>2
  <2> QED
    BY <1>3, <2>1, <2>3
<1>13. LastJSONBlock(s) = SubSeq(s, i, e)
  BY <1>3, <1>4, <1>12
<1> QED
  BY <1>13 DEF e

(* What it finds is nothing, or ends at the last brace.                    *)
LEMMA BlockShape ==
    ASSUME NEW s \in Seq(Tokens), LastJSONBlock(s) # <<>>
    PROVE  /\ LastBrace(s) \in DOMAIN s
           /\ \E i \in DOMAIN s : LastJSONBlock(s) = SubSeq(s, i, LastBrace(s))
<1> DEFINE e == LastBrace(s)
           B == {k \in DOMAIN s : s[k] \in ClosingBraces}
           S == {k \in 1..e : OpenBraces(s, k, e) = 0}
<1>1. Len(s) \in Nat /\ DOMAIN s = 1..Len(s) /\ B \subseteq 1..Len(s)
  OBVIOUS
<1>2. e = Latest(B)
  BY DEF LastBrace
<1>3. LastJSONBlock(s) = IF e = 0 \/ Latest(S) = 0 THEN <<>> ELSE SubSeq(s, Latest(S), e)
  BY DEF LastJSONBlock
<1> HIDE DEF B, e
<1>4. e \in 0..Len(s)
  BY <1>1, <1>2, LatestIs
<1>5. S \subseteq 1..e /\ e \in Nat
  BY <1>4
<1> HIDE DEF S
<1>6. Latest(S) \in 0..e
  BY <1>5, LatestIs
<1>7. e # 0 /\ Latest(S) # 0
  BY <1>3
<1>8. Latest(S) \in 1..e /\ e \in 1..Len(s)
  BY <1>4, <1>5, <1>6, <1>7
<1>9. Latest(S) \in 1..Len(s)
  BY <1>1, <1>8
<1> QED
  BY <1>1, <1>3, <1>7, <1>8, <1>9 DEF e

(* Some positions have a first one.                                        *)
LEMMA FirstPosition ==
    ASSUME NEW n \in Nat, NEW S, S \subseteq 1..n, S # {}
    PROVE  Min(S) \in S /\ Min(S) \in 1..n
<1>1. \E m \in S : \A k \in S : m <= k
  BY LeastNatural
<1> QED
  BY <1>1 DEF Min

(* The expression for the fences finds what stands between the first two.  *)
LEMMA FencedIs ==
    ASSUME NEW s \in Seq(Tokens)
    PROVE  /\ (\A k \in DOMAIN s : s[k] # "fence") => Fenced(s) = <<>>
           /\ \A i, j \in DOMAIN s :
                  i < j /\ {k \in 1..j : s[k] = "fence"} = {i, j} =>
                      Fenced(s) = SubSeq(s, i + 1, j - 1)
           /\ Fenced(s) \in Seq(Tokens)
<1> DEFINE F == {i \in DOMAIN s : s[i] = "fence"}
           R == F \ {Min(F)}
<1>1. Len(s) \in Nat /\ DOMAIN s = 1..Len(s) /\ F \subseteq 1..Len(s)
  OBVIOUS
<1>2. Fenced(s) = IF F = {} \/ R = {} THEN <<>> ELSE SubSeq(s, Min(F) + 1, Min(R) - 1)
  BY DEF Fenced
<1>3. (\A k \in DOMAIN s : s[k] # "fence") => F = {}
  OBVIOUS
<1>4. ASSUME NEW i \in DOMAIN s, NEW j \in DOMAIN s, i < j,
             {k \in 1..j : s[k] = "fence"} = {i, j}
      PROVE  i \in F /\ j \in F /\ \A k \in F : k = i \/ k >= j
  <2>1. \A k \in F : k <= j => k = i \/ k = j
    BY <1>1, <1>4
  <2>2. i \in F /\ j \in F
    BY <1>4
  <2>3. \A k \in F : k \in Int /\ j \in Int
    BY <1>1
  <2> QED
    BY <2>1, <2>2, <2>3
<1> HIDE DEF F
<1>5. ASSUME NEW i \in DOMAIN s, NEW j \in DOMAIN s, i < j,
             {k \in 1..j : s[k] = "fence"} = {i, j}
      PROVE  Fenced(s) = SubSeq(s, i + 1, j - 1)
  <2>1. i \in F /\ j \in F /\ \A k \in F : k = i \/ k >= j
    BY <1>4, <1>5
  <2>2. i \in Int /\ j \in Int /\ \A k \in F : k \in Int
    BY <1>1
  <2>3. Min(F) = i
    <3>1. \A k \in F : i <= k
      BY <1>5, <2>1, <2>2
    <3>2. \A x \in F : (\A y \in F : x <= y) => x = i
      <4> SUFFICES ASSUME NEW x \in F, \A y \in F : x <= y PROVE x = i
        OBVIOUS
      <4>1. x <= i /\ i <= x
        BY <2>1, <3>1
      <4> QED
        BY <2>2, <4>1
    <3> QED
      BY <2>1, <3>1, <3>2 DEF Min
  <2>4. R = F \ {i}
    BY <2>3
  <2> HIDE DEF R
  <2>5. Min(R) = j
    <3>1. \A k \in R : j <= k
      BY <2>1, <2>2, <2>4
    <3>2. j \in R
      BY <1>5, <2>1, <2>2, <2>4
    <3>3. \A x \in R : (\A y \in R : x <= y) => x = j
      <4> SUFFICES ASSUME NEW x \in R, \A y \in R : x <= y PROVE x = j
        OBVIOUS
      <4>1. x <= j /\ j <= x /\ x \in F
        BY <2>4, <3>1, <3>2
      <4> QED
        BY <2>2, <4>1
    <3> QED
      BY <3>1, <3>2, <3>3 DEF Min
  <2>6. F # {} /\ R # {}
    BY <1>5, <2>1, <2>2, <2>4
  <2> QED
    BY <1>2, <2>3, <2>5, <2>6
<1>6. Fenced(s) \in Seq(Tokens)
  <2>1. CASE F = {} \/ R = {}
    BY <1>2, <2>1
  <2>2. CASE F # {} /\ R # {}
    <3>1. Min(F) \in 1..Len(s)
      BY <1>1, <2>2, FirstPosition
    <3>2. R \subseteq 1..Len(s)
      BY <1>1
    <3> HIDE DEF R
    <3>3. Min(R) \in 1..Len(s)
      BY <1>1, <2>2, <3>2, FirstPosition
    <3>4. Min(F) + 1 \in Int /\ Min(R) - 1 \in Int /\ Min(F) + 1 >= 1 /\ Min(R) - 1 <= Len(s)
      BY <1>1, <3>1, <3>2, <3>3
    <3> DEFINE a == Min(F) + 1
               b == Min(R) - 1
    <3>5. \A k \in a..b : s[k] \in Tokens
      <4>1. a \in Int /\ b \in Int /\ a >= 1 /\ b <= Len(s)
        BY <3>4
      <4> HIDE DEF a, b
      <4> QED
        BY <1>1, <4>1
    <3>6. SubSeq(s, a, b) \in Seq(Tokens)
      <4>1. a \in Int /\ b \in Int
        BY <3>4
      <4> HIDE DEF a, b
      <4> QED
        BY <3>5, <4>1, SubSeqProperties
    <3> QED
      BY <1>2, <2>2, <3>6
  <2> QED
    BY <2>1, <2>2
<1> QED
  BY <1>2, <1>3, <1>5, <1>6

(* What parseJSONResponse has tried before it took an object, or gave up.  *)
Tried == /\ jsonStage \in {"fence", "block", "failed"} => ~IsObject(response)
         /\ jsonStage \in {"block", "failed"} => ~IsObject(Fenced(response))
         /\ jsonStage = "failed" => ~IsObject(LastJSONBlock(response))
         /\ jsonStage = "parsed" =>
              \/ object = response
              \/ object = Fenced(response) /\ ~IsObject(response)
              \/ /\ object = LastJSONBlock(response)
                 /\ ~IsObject(response)
                 /\ ~IsObject(Fenced(response))

(* The inductive invariant of the extraction.                              *)
JsonIInv == /\ response \in Seq(Tokens)
            /\ jsonStage \in {"direct", "fence", "block", "parsed", "failed"}
            /\ jsonStage # "parsed" => object = <<>>
            /\ jsonStage = "parsed" => IsObject(object)
            /\ Tried

(* An answer nobody has looked at.                                         *)
LEMMA InitJson == Init => JsonIInv
<1> SUFFICES ASSUME Init PROVE JsonIInv
  OBVIOUS
<1>1. response \in Responses \cup {<<>>} /\ jsonStage = "direct" /\ object = <<>>
  BY DEF Init, JsonInit, Idle
<1>2. response \in Seq(Tokens)
  <2>1. CASE response \in Responses
    <3>1. PICK n \in 0..MaxTokens : response \in [1..n -> Tokens]
      BY <2>1 DEF Responses
    <3>2. n \in Nat
      BY LLMJsonAssumption
    <3> QED
      BY <3>1, <3>2
  <2>2. CASE response = <<>>
    BY <2>2
  <2> QED
    BY <1>1, <2>1, <2>2
<1> QED
  BY <1>1, <1>2 DEF JsonIInv, Tried

(* Every strategy keeps it.                                                *)
LEMMA StepJson == JsonIInv /\ JsonNext => JsonIInv'
<1> SUFFICES ASSUME JsonIInv, JsonNext PROVE JsonIInv'
  OBVIOUS
<1> USE DEF JsonIInv, Tried, Take
<1>1. CASE Direct
  BY <1>1 DEF Direct
<1>2. CASE Fence
  BY <1>2 DEF Fence
<1>3. CASE Block
  BY <1>3 DEF Block
<1>4. CASE JsonOver
  BY <1>4 DEF JsonOver, jsonVars
<1> QED
  BY <1>1, <1>2, <1>3, <1>4 DEF JsonNext

(* An object that ends the answer is the one that is taken.                *)
LEMMA FinalIsParsed == NoStringHoldsABrace /\ JsonIInv => FinalObjectIsParsed
<1> DEFINE r == response
           L == Len(response)
           o == ObjectAt(L)
<1> SUFFICES ASSUME NoStringHoldsABrace, JsonIInv, jsonStage \in {"parsed", "failed"}, ~HasFence,
                    o # 0
             PROVE  object = SubSeq(r, o, L)
  BY DEF FinalObjectIsParsed
<1>1. r \in Seq(Tokens) /\ L \in Nat /\ DOMAIN r = 1..L
  BY DEF JsonIInv
<1> DEFINE S == {i \in 1..L : IsObject(SubSeq(r, i, L))}
<1>2. o = Latest(S)
  BY DEF ObjectAt
<1>3. o \in S
  <2>1. S \subseteq 1..L
    OBVIOUS
  <2> HIDE DEF S, L, o
  <2> QED
    BY <1>1, <1>2, <2>1, LatestIs
<1>4. o \in DOMAIN r /\ IsObject(SubSeq(r, o, L)) /\ L \in DOMAIN r
  <2>1. o \in 1..L /\ IsObject(SubSeq(r, o, L))
    BY <1>3
  <2> HIDE DEF o, L, r
  <2> QED
    BY <1>1, <2>1
<1> HIDE DEF S, o
<1>5. LastJSONBlock(r) = SubSeq(r, o, L)
  <2>1. LastBrace(r) \in DOMAIN r /\ L <= LastBrace(r)
    <3> HIDE DEF L, r
    <3> QED
      BY <1>1, <1>4, ObjectEnds
  <2>2. LastBrace(r) = L
    <3> HIDE DEF L, r
    <3> QED
      BY <1>1, <2>1
  <2> HIDE DEF L, r
  <2> QED
    BY <1>1, <1>4, <2>1, <2>2, BlockIs
<1>6. Fenced(r) = <<>>
  BY <1>1, FencedIs DEF HasFence
<1>7. SubSeq(r, 1, L) = r /\ 1 \in DOMAIN r
  <2>1. SubSeq(r, 1, L) = r
    BY <1>1, SubSeqFull
  <2> HIDE DEF r, L
  <2> QED
    BY <1>1, <1>4, <2>1
<1>8. CASE jsonStage = "failed"
  BY <1>4, <1>5, <1>8 DEF JsonIInv, Tried
<1>9. CASE object = r /\ jsonStage = "parsed"
  <2>1. IsObject(SubSeq(r, 1, L))
    BY <1>7, <1>9 DEF JsonIInv
  <2>2. o = 1
    <3> HIDE DEF r, L
    <3> QED
      BY <1>1, <1>4, <1>7, <2>1, OneObjectPerEnd
  <2> HIDE DEF r, L
  <2> QED
    BY <1>7, <1>9, <2>2
<1>10. CASE object = Fenced(r) /\ jsonStage = "parsed"
  BY <1>6, <1>10, NothingIsNoObject DEF JsonIInv
<1>11. CASE object = LastJSONBlock(r)
  BY <1>5, <1>11
<1> QED
  BY <1>8, <1>9, <1>10, <1>11 DEF JsonIInv, Tried

(* What is taken is not inside of another object.                          *)
LEMMA NoMemberIsTaken == NoStringHoldsABrace /\ JsonIInv => NeverAMember
<1> DEFINE r == response
           L == Len(response)
<1> SUFFICES ASSUME NoStringHoldsABrace, JsonIInv, jsonStage = "parsed", ~HasFence
             PROVE  \E i, j \in DOMAIN r :
                       /\ object = SubSeq(r, i, j)
                       /\ \A k, m \in DOMAIN r :
                             k <= i /\ j <= m /\ IsObject(SubSeq(r, k, m)) => k = i /\ m = j
  BY DEF NeverAMember
<1>1. r \in Seq(Tokens) /\ L \in Nat /\ DOMAIN r = 1..L /\ IsObject(object)
  BY DEF JsonIInv
<1>2. CASE object = r
  <2>1. SubSeq(r, 1, L) = r
    BY <1>1, SubSeqFull
  <2>2. L >= 2
    BY <1>1, <1>2 DEF IsObject
  <2> HIDE DEF r, L
  <2>3. 1 \in DOMAIN r /\ L \in DOMAIN r
    BY <1>1, <2>2
  <2>4. \A k, m \in DOMAIN r : k <= 1 /\ L <= m => k = 1 /\ m = L
    BY <1>1
  <2> QED
    BY <1>2, <2>1, <2>3, <2>4
<1>3. CASE object = Fenced(r)
  BY <1>1, <1>3, FencedIs, NothingIsNoObject DEF HasFence
<1>4. CASE object = LastJSONBlock(r)
  <2> HIDE DEF r, L
  <2> DEFINE e == LastBrace(r)
  <2>1. PICK i \in DOMAIN r : e \in DOMAIN r /\ LastJSONBlock(r) = SubSeq(r, i, e)
    BY <1>1, <1>4, BlockShape, NothingIsNoObject
  <2>2. ASSUME NEW k \in DOMAIN r, NEW m \in DOMAIN r, k <= i, e <= m, IsObject(SubSeq(r, k, m))
        PROVE  k = i /\ m = e
    <3>1. m <= e
      BY <1>1, <2>2, ObjectEnds
    <3>2. m = e
      <4> HIDE DEF e
      <4> QED
        BY <1>1, <2>1, <2>2, <3>1
    <3>3. IsObject(SubSeq(r, i, e)) /\ IsObject(SubSeq(r, k, e))
      BY <1>1, <1>4, <2>1, <2>2, <3>2
    <3> HIDE DEF e
    <3> QED
      BY <1>1, <2>1, <3>2, <3>3, OneObjectPerEnd
  <2> QED
    BY <1>4, <2>1, <2>2
<1> QED
  BY <1>2, <1>3, <1>4 DEF JsonIInv, Tried

(* An object between the first two fences is the one that is taken.        *)
LEMMA FencedIsParsed == JsonIInv => FencedObjectIsParsed
<1> SUFFICES ASSUME JsonIInv, jsonStage \in {"parsed", "failed"},
                    NEW i \in DOMAIN response, NEW j \in DOMAIN response, i < j,
                    {k \in 1..j : response[k] = "fence"} = {i, j},
                    IsObject(SubSeq(response, i + 1, j - 1))
             PROVE  object = SubSeq(response, i + 1, j - 1)
  BY DEF FencedObjectIsParsed
<1>1. response \in Seq(Tokens)
  BY DEF JsonIInv
<1>2. Fenced(response) = SubSeq(response, i + 1, j - 1)
  BY <1>1, FencedIs
<1>3. ~IsObject(response)
  <2>1. response[i] = "fence" /\ i \in 1..Len(response)
    BY <1>1
  <2> QED
    BY <2>1 DEF IsObject
<1> QED
  BY <1>2, <1>3 DEF JsonIInv, Tried

(* What is taken is made of tokens.                                        *)
LEMMA JsonTypes == JsonIInv => JsonTypeOK
<1> SUFFICES ASSUME JsonIInv PROVE JsonTypeOK
  OBVIOUS
<1>1. response \in Seq(Tokens) /\ Tokens \subseteq TokenKinds
  BY LLMJsonAssumption DEF JsonIInv
<1>2. object \in Seq(Tokens)
  <2>1. CASE object = <<>> \/ object = response \/ object = Fenced(response)
    <3>1. Fenced(response) \in Seq(Tokens)
      BY <1>1, FencedIs
    <3>2. <<>> \in Seq(Tokens)
      OBVIOUS
    <3> QED
      BY <1>1, <2>1, <3>1, <3>2, Zenon
  <2>2. CASE object = LastJSONBlock(response) /\ object # <<>>
    <3>1. PICK i \in DOMAIN response :
             /\ LastBrace(response) \in DOMAIN response
             /\ LastJSONBlock(response) = SubSeq(response, i, LastBrace(response))
      BY <1>1, <2>2, BlockShape
    <3> DEFINE e == LastBrace(response)
    <3>2. \A k \in i..e : response[k] \in Tokens
      <4>1. e \in 1..Len(response) /\ i \in 1..Len(response)
        BY <1>1, <3>1
      <4> HIDE DEF e
      <4> QED
        BY <1>1, <4>1
    <3>3. i \in Int /\ e \in Int
      BY <1>1, <3>1
    <3> HIDE DEF e
    <3>4. SubSeq(response, i, e) \in Seq(Tokens)
      BY <3>2, <3>3, SubSeqProperties
    <3> QED
      BY <2>2, <3>1, <3>4 DEF e
  <2> QED
    BY <2>1, <2>2 DEF JsonIInv, Tried
<1>3. \A s \in Seq(Tokens) : s \in Seq(TokenKinds)
  BY <1>1
<1> QED
  BY <1>1, <1>2, <1>3 DEF JsonIInv, JsonTypeOK

-----------------------------------------------------------------------------
(* Changelog.tla.                                                          *)

(* How the kinds of lines relate that EnsureChangelog writes and looks for. *)
LEMMA KindsAre ==
    /\ UnreleasedKinds \subseteq HeadingKinds /\ Versions \subseteq HeadingKinds
    /\ HeadingKinds \subseteq LineKinds /\ BulletKinds \subseteq LineKinds
    /\ Versions \cap UnreleasedKinds = {} /\ Versions \cap BulletKinds = {}
    /\ {"ours", "blank", "text", "bullet"} \cap HeadingKinds = {}
    /\ {"ours", "blank", "text", "bullet"} \subseteq LineKinds
    /\ "unreleased" \in UnreleasedKinds /\ "ours" \in PrefixedKinds
    /\ PrefixedKinds \subseteq BulletKinds /\ PrefixedKinds \cap UnreleasedKinds = {}
    /\ "mention" \notin HeadingKinds
<1>1. /\ UnreleasedKinds \subseteq HeadingKinds /\ Versions \subseteq HeadingKinds
      /\ HeadingKinds \subseteq LineKinds /\ BulletKinds \subseteq LineKinds
  BY DEF HeadingKinds, LineKinds
<1>2. /\ "ours" \notin Versions /\ "blank" \notin Versions /\ "text" \notin Versions
      /\ "bullet" \notin Versions /\ "mention" \notin Versions
      /\ Versions \cap UnreleasedKinds = {} /\ Versions \cap BulletKinds = {}
  BY ChangelogAssumption DEF BulletKinds, PrefixedKinds
<1>3. /\ "ours" \notin UnreleasedKinds /\ "blank" \notin UnreleasedKinds
      /\ "text" \notin UnreleasedKinds /\ "bullet" \notin UnreleasedKinds
      /\ "mention" \notin UnreleasedKinds
  BY DEF UnreleasedKinds
<1>4. /\ "ours" \notin HeadingKinds /\ "blank" \notin HeadingKinds
      /\ "text" \notin HeadingKinds /\ "bullet" \notin HeadingKinds
      /\ "mention" \notin HeadingKinds
  BY <1>2, <1>3 DEF HeadingKinds
<1>5. {"ours", "blank", "text", "bullet"} \subseteq LineKinds
  BY DEF LineKinds, BulletKinds, PrefixedKinds
<1>6. /\ "unreleased" \in UnreleasedKinds /\ "ours" \in PrefixedKinds
      /\ PrefixedKinds \subseteq BulletKinds /\ PrefixedKinds \cap UnreleasedKinds = {}
  BY DEF UnreleasedKinds, PrefixedKinds, BulletKinds
<1> QED
  BY <1>1, <1>2, <1>4, <1>5, <1>6

(* What EnsureChangelog writes into a file ...                             *)
LEMMA BulletIs ==
    /\ Bullet \in Seq(LineKinds) /\ Len(Bullet) = 2
    /\ Bullet[1] = "ours" /\ Bullet[2] = "blank"
BY KindsAre DEF Bullet

(* ... with a section ...                                                  *)
LEMMA SectionIs ==
    /\ Section \in Seq(LineKinds) /\ Len(Section) = 4
    /\ Section[1] = "unreleased" /\ Section[2] = "blank"
    /\ Section[3] = "ours" /\ Section[4] = "blank"
<1> DEFINE lead == <<"unreleased", "blank">>
<1>1. lead \in Seq(LineKinds) /\ Len(lead) = 2 /\ lead[1] = "unreleased" /\ lead[2] = "blank"
  BY KindsAre
<1> HIDE DEF lead
<1>2. /\ lead \o Bullet \in Seq(LineKinds) /\ Len(lead \o Bullet) = 4
      /\ \A k \in 1..4 : (lead \o Bullet)[k] = IF k <= 2 THEN lead[k] ELSE Bullet[k - 2]
  <2>1. /\ lead \o Bullet \in Seq(LineKinds) /\ Len(lead \o Bullet) = Len(lead) + Len(Bullet)
        /\ \A k \in 1..(Len(lead) + Len(Bullet)) :
              (lead \o Bullet)[k] = IF k <= Len(lead) THEN lead[k] ELSE Bullet[k - Len(lead)]
    BY <1>1, BulletIs, ConcatProperties
  <2> QED
    BY <1>1, <2>1, BulletIs
<1>3. Section = lead \o Bullet
  BY DEF Section, lead
<1> QED
  BY <1>1, <1>2, <1>3, BulletIs

(* ... and into a new one.                                                 *)
LEMMA NewFileIs ==
    /\ NewFile.closed /\ NewFile.lines \in Seq(LineKinds) /\ Len(NewFile.lines) = 14
    /\ NewFile.lines[12] = "unreleased" /\ NewFile.lines[13] = "blank"
    /\ NewFile.lines[14] = "ours"
    /\ \A k \in 1..11 : NewFile.lines[k] \in {"text", "blank", "bullet"}
<1> DEFINE end == <<"unreleased", "blank", "ours">>
           c == Preamble \o end
<1>1. /\ end \in Seq(LineKinds) /\ Len(end) = 3
      /\ end[1] = "unreleased" /\ end[2] = "blank" /\ end[3] = "ours"
  BY KindsAre
<1>2. Preamble \in Seq({"text", "blank", "bullet"}) /\ Len(Preamble) = 11
  BY DEF Preamble
<1>3. Preamble \in Seq(LineKinds)
  <2>1. {"text", "blank", "bullet"} \subseteq LineKinds
    BY KindsAre
  <2> QED
    BY <1>2, <2>1
<1> HIDE DEF end
<1>4. /\ c \in Seq(LineKinds) /\ Len(c) = 14
      /\ \A k \in 1..14 : c[k] = IF k <= 11 THEN Preamble[k] ELSE end[k - 11]
  <2>1. /\ c \in Seq(LineKinds) /\ Len(c) = Len(Preamble) + Len(end)
        /\ \A k \in 1..(Len(Preamble) + Len(end)) :
              c[k] = IF k <= Len(Preamble) THEN Preamble[k] ELSE end[k - Len(Preamble)]
    BY <1>1, <1>3, ConcatProperties
  <2> HIDE DEF c
  <2> QED
    BY <1>1, <1>2, <2>1
<1>5. NewFile.closed /\ NewFile.lines = c
  BY DEF NewFile, end
<1> HIDE DEF c
<1>6. \A k \in 1..11 : c[k] \in {"text", "blank", "bullet"}
  <2>1. \A k \in 1..11 : Preamble[k] \in {"text", "blank", "bullet"}
    <3>1. ASSUME NEW S, NEW x \in Seq(S), Len(x) = 11
          PROVE  \A k \in 1..11 : x[k] \in S
      <4>1. \A k \in 1..Len(x) : x[k] \in S
        OBVIOUS
      <4> QED
        BY <3>1, <4>1, Zenon
    <3> QED
      BY <1>2, <3>1
  <2>2. \A k \in 1..11 : k \in 1..14 /\ k <= 11
    OBVIOUS
  <2> QED
    BY <1>4, <2>1, <2>2
<1>7. c[12] = "unreleased" /\ c[13] = "blank" /\ c[14] = "ours"
  BY <1>1, <1>4
<1> QED
  BY <1>4, <1>5, <1>6, <1>7

(* r is s with new in front of its position i.                             *)
Inserts(r, s, i, new) ==
    /\ r \in Seq(LineKinds) /\ Len(r) = Len(s) + Len(new)
    /\ \A k \in 1..(i - 1) : r[k] = s[k]
    /\ \A k \in 1..Len(new) : r[i - 1 + k] = new[k]
    /\ \A k \in i..Len(s) : r[k + Len(new)] = s[k]

(* A splice has what was in front, what is new and what was behind.        *)
LEMMA SpliceIs ==
    ASSUME NEW s \in Seq(LineKinds), NEW new \in Seq(LineKinds), NEW i \in 1..(Len(s) + 1)
    PROVE  Inserts(SubSeq(s, 1, i - 1) \o new \o SubSeq(s, i, Len(s)), s, i, new)
<1> DEFINE a == SubSeq(s, 1, i - 1)
           b == SubSeq(s, i, Len(s))
           c == a \o new
           r == c \o b
           n == Len(s)
           m == Len(new)
<1>1. n \in Nat /\ m \in Nat /\ i \in Nat /\ 1 <= i /\ i <= n + 1
  OBVIOUS
<1>2. /\ a \in Seq(LineKinds) /\ Len(a) = i - 1
      /\ \A k \in 1..(i - 1) : a[k] = s[k]
  OBVIOUS
<1>3. /\ b \in Seq(LineKinds) /\ Len(b) = n - i + 1
      /\ \A k \in 1..(n - i + 1) : b[k] = s[i + k - 1]
  OBVIOUS
<1> HIDE DEF a, b
<1>4. /\ c \in Seq(LineKinds) /\ Len(c) = i - 1 + m
      /\ \A k \in 1..(i - 1 + m) : c[k] = IF k <= i - 1 THEN a[k] ELSE new[k - (i - 1)]
  <2>1. /\ c \in Seq(LineKinds) /\ Len(c) = Len(a) + Len(new)
        /\ \A k \in 1..(Len(a) + Len(new)) :
              c[k] = IF k <= Len(a) THEN a[k] ELSE new[k - Len(a)]
    BY <1>2, ConcatProperties
  <2> HIDE DEF c
  <2> QED
    BY <1>2, <2>1
<1> HIDE DEF c
<1>5. /\ r \in Seq(LineKinds) /\ Len(r) = n + m
      /\ \A k \in 1..(n + m) : r[k] = IF k <= i - 1 + m THEN c[k] ELSE b[k - (i - 1 + m)]
  <2>1. /\ r \in Seq(LineKinds) /\ Len(r) = Len(c) + Len(b)
        /\ \A k \in 1..(Len(c) + Len(b)) :
              r[k] = IF k <= Len(c) THEN c[k] ELSE b[k - Len(c)]
    BY <1>3, <1>4, ConcatProperties
  <2>2. Len(c) + Len(b) = n + m
    BY <1>1, <1>3, <1>4
  <2> HIDE DEF r
  <2> QED
    BY <1>4, <2>1, <2>2
<1> HIDE DEF r, n, m
<1>6. \A k \in 1..(i - 1) : r[k] = s[k]
  <2> SUFFICES ASSUME NEW k \in 1..(i - 1) PROVE r[k] = s[k]
    OBVIOUS
  <2>1. k \in 1..(n + m) /\ k <= i - 1 + m /\ k \in 1..(i - 1 + m) /\ k <= i - 1
    BY <1>1
  <2> QED
    BY <1>2, <1>4, <1>5, <2>1
<1>7. \A k \in 1..m : r[i - 1 + k] = new[k]
  <2> SUFFICES ASSUME NEW k \in 1..m PROVE r[i - 1 + k] = new[k]
    OBVIOUS
  <2> DEFINE x == i - 1 + k
  <2>1. /\ x \in 1..(n + m) /\ x <= i - 1 + m /\ x \in 1..(i - 1 + m) /\ ~(x <= i - 1)
        /\ x - (i - 1) = k
    BY <1>1
  <2> HIDE DEF x
  <2>2. r[x] = new[k]
    BY <1>4, <1>5, <2>1
  <2> QED
    BY <2>2 DEF x
<1>8. \A k \in i..n : r[k + m] = s[k]
  <2> SUFFICES ASSUME NEW k \in i..n PROVE r[k + m] = s[k]
    OBVIOUS
  <2> DEFINE x == k + m
             y == x - (i - 1 + m)
  <2>1. /\ x \in 1..(n + m) /\ ~(x <= i - 1 + m) /\ y \in 1..(n - i + 1) /\ i + y - 1 = k
    BY <1>1
  <2> HIDE DEF x
  <2>2. r[x] = b[y] /\ b[y] = s[i + y - 1]
    BY <1>3, <1>5, <2>1
  <2> QED
    BY <2>1, <2>2 DEF x
<1>9. Inserts(r, s, i, new)
  BY <1>5, <1>6, <1>7, <1>8 DEF Inserts, n, m
<1> QED
  BY <1>9 DEF r, c, a, b

(* p is where the section after position i ends.                           *)
IsNext(ls, i, p) ==
    /\ p \in (i + 1)..(Len(ls) + 1)
    /\ \A k \in (i + 1)..(p - 1) : ls[k] \notin HeadingKinds
    /\ p = Len(ls) + 1 \/ ls[p] \in HeadingKinds

(* h is the first Unreleased header.                                       *)
IsUnreleased(ls, h) ==
    /\ h \in DOMAIN ls /\ ls[h] \in UnreleasedKinds
    /\ \A k \in 1..(h - 1) : ls[k] \notin UnreleasedKinds

(* The first of some positions.                                            *)
LEMMA FirstIs ==
    ASSUME NEW n \in Nat, NEW S, S \subseteq 1..n, S # {}
    PROVE  /\ First(S) \in S /\ \A j \in S : First(S) <= j
           /\ \A i \in S : (\A j \in S : i <= j) => First(S) = i
<1>1. \E m \in S : \A k \in S : m <= k
  BY LeastNatural
<1>2. First(S) \in S /\ \A j \in S : First(S) <= j
  BY <1>1 DEF First
<1>3. ASSUME NEW i \in S, \A j \in S : i <= j
      PROVE  First(S) = i
  <2>1. First(S) <= i /\ i <= First(S)
    BY <1>2, <1>3
  <2>2. \A x \in S : x \in Int
    OBVIOUS
  <2>3. First(S) \in Int /\ i \in Int
    BY <1>2, <2>2
  <2> QED
    BY <2>1, <2>3
<1> QED
  BY <1>2, <1>3

(* The next heading is where the section ends, and nowhere else.           *)
LEMMA NextHeadingIs ==
    ASSUME NEW ls \in Seq(LineKinds), NEW i \in 0..Len(ls)
    PROVE  /\ IsNext(ls, i, NextHeading(ls, i))
           /\ \A p : IsNext(ls, i, p) => NextHeading(ls, i) = p
<1> DEFINE n == Len(ls)
           S == {j \in HeadingsOf(ls) : j > i} \cup {n + 1}
<1>1. n \in Nat /\ DOMAIN ls = 1..n /\ i \in 0..n
  OBVIOUS
<1>2. \A j : j \in S <=> \/ j \in 1..n /\ ls[j] \in HeadingKinds /\ j > i
                         \/ j = n + 1
  BY <1>1 DEF HeadingsOf
<1>3. NextHeading(ls, i) = First(S)
  BY DEF NextHeading
<1> HIDE DEF S
<1>4. S \subseteq 1..(n + 1) /\ S # {} /\ n + 1 \in Nat /\ n + 1 \in S
  BY <1>1, <1>2
<1> HIDE DEF n
<1>5. /\ First(S) \in S /\ \A j \in S : First(S) <= j
      /\ \A x \in S : (\A j \in S : x <= j) => First(S) = x
  BY <1>4, FirstIs
<1>6. IsNext(ls, i, First(S))
  <2> DEFINE p == First(S)
  <2>1. p \in S /\ \A j \in S : p <= j
    BY <1>5
  <2> HIDE DEF p
  <2>2. p \in (i + 1)..(n + 1) /\ (p = n + 1 \/ ls[p] \in HeadingKinds)
    BY <1>1, <1>2, <2>1
  <2>3. ASSUME NEW k \in (i + 1)..(p - 1), ls[k] \in HeadingKinds
        PROVE  FALSE
    <3>1. k \in 1..n /\ k > i /\ ~(p <= k)
      BY <1>1, <2>2
    <3> QED
      BY <1>2, <2>1, <2>3, <3>1
  <2> QED
    BY <2>2, <2>3 DEF IsNext, p, n
<1>7. ASSUME NEW p, IsNext(ls, i, p)
      PROVE  First(S) = p
  <2>1. /\ p \in (i + 1)..(n + 1) /\ (p = n + 1 \/ ls[p] \in HeadingKinds)
        /\ \A k \in (i + 1)..(p - 1) : ls[k] \notin HeadingKinds
    BY <1>7 DEF IsNext, n
  <2>2. p \in S
    BY <1>1, <1>2, <2>1
  <2>3. ASSUME NEW j \in S PROVE p <= j
    <3>1. CASE j = n + 1
      BY <1>1, <2>1, <3>1
    <3>2. CASE j # n + 1
      <4>1. j \in 1..n /\ ls[j] \in HeadingKinds /\ j > i
        BY <1>2, <3>2
      <4>2. j \notin (i + 1)..(p - 1)
        BY <2>1, <4>1
      <4> QED
        BY <1>1, <2>1, <4>1, <4>2
    <3> QED
      BY <3>1, <3>2
  <2> QED
    BY <1>5, <2>2, <2>3
<1> QED
  BY <1>3, <1>6, <1>7

(* The first Unreleased header is the one that is found.                   *)
LEMMA UnreleasedIs ==
    ASSUME NEW ls \in Seq(LineKinds)
    PROVE  /\ UnreleasedOf(ls) # {} => IsUnreleased(ls, First(UnreleasedOf(ls)))
           /\ \A h : IsUnreleased(ls, h) => /\ UnreleasedOf(ls) # {}
                                            /\ First(UnreleasedOf(ls)) = h
<1> DEFINE S == UnreleasedOf(ls)
<1>1. Len(ls) \in Nat /\ DOMAIN ls = 1..Len(ls)
  OBVIOUS
<1>2. S \subseteq 1..Len(ls) /\ \A j \in 1..Len(ls) : j \in S <=> ls[j] \in UnreleasedKinds
  BY <1>1 DEF UnreleasedOf
<1> HIDE DEF S
<1>3. ASSUME S # {} PROVE IsUnreleased(ls, First(S))
  <2>1. First(S) \in S /\ \A j \in S : First(S) <= j
    BY <1>1, <1>2, <1>3, FirstIs
  <2>2. First(S) \in 1..Len(ls)
    BY <1>2, <2>1
  <2>3. ASSUME NEW k \in 1..(First(S) - 1), ls[k] \in UnreleasedKinds
        PROVE  FALSE
    <3>1. k \in 1..Len(ls) /\ ~(First(S) <= k)
      BY <1>1, <2>2
    <3> QED
      BY <1>2, <2>1, <2>3, <3>1
  <2> QED
    BY <1>1, <1>2, <2>1, <2>2, <2>3 DEF IsUnreleased
<1>4. ASSUME NEW h, IsUnreleased(ls, h) PROVE S # {} /\ First(S) = h
  <2>1. /\ h \in 1..Len(ls) /\ ls[h] \in UnreleasedKinds
        /\ \A k \in 1..(h - 1) : ls[k] \notin UnreleasedKinds
    BY <1>1, <1>4 DEF IsUnreleased
  <2>2. h \in S
    BY <1>2, <2>1
  <2>3. ASSUME NEW j \in S PROVE h <= j
    <3>1. j \in 1..Len(ls) /\ j \notin 1..(h - 1)
      BY <1>2, <2>1
    <3> QED
      BY <1>1, <2>1, <3>1
  <2> QED
    BY <1>1, <1>2, <2>2, <2>3, FirstIs
<1> QED
  BY <1>3, <1>4 DEF S

(* The lines of a section.                                                 *)
LEMMA CutIs ==
    ASSUME NEW s \in Seq(LineKinds), NEW i \in 1..Len(s), NEW j \in i..Len(s)
    PROVE  /\ SubSeq(s, i, j) \in Seq(LineKinds) /\ Len(SubSeq(s, i, j)) = j - i + 1
           /\ \A k \in 1..(j - i + 1) : SubSeq(s, i, j)[k] = s[i + k - 1]
OBVIOUS

(* A section behind the place of an insertion moves ...                    *)
LEMMA SectionMoves ==
    ASSUME NEW s \in Seq(LineKinds), NEW new \in Seq(LineKinds), NEW r,
           NEW p \in 1..(Len(s) + 1), Inserts(r, s, p, new), NEW i \in p..Len(s)
    PROVE  /\ i + Len(new) \in DOMAIN r
           /\ SectionAt(r, i + Len(new)) = SectionAt(s, i)
<1> DEFINE n == Len(s)
           m == Len(new)
           q == NextHeading(s, i)
<1>1. n \in Nat /\ m \in Nat /\ p \in 1..(n + 1) /\ i \in p..n /\ i \in 0..n
  OBVIOUS
<1>2. /\ r \in Seq(LineKinds) /\ Len(r) = n + m
      /\ \A k \in p..n : r[k + m] = s[k]
  BY DEF Inserts
<1>3. /\ q \in (i + 1)..(n + 1)
      /\ \A k \in (i + 1)..(q - 1) : s[k] \notin HeadingKinds
      /\ q = n + 1 \/ s[q] \in HeadingKinds
  <2>1. IsNext(s, i, q)
    BY <1>1, NextHeadingIs
  <2> HIDE DEF q
  <2> QED
    BY <2>1 DEF IsNext
<1> HIDE DEF n, m, q
<1> DEFINE x == i + m
           y == q + m
<1>4. IsNext(r, x, y)
  <2>1. y \in (x + 1)..(Len(r) + 1)
    BY <1>1, <1>2, <1>3
  <2>2. ASSUME NEW k \in (x + 1)..(y - 1)
        PROVE  r[k] \notin HeadingKinds
    <3>1. k - m \in (i + 1)..(q - 1) /\ k - m \in p..n /\ (k - m) + m = k
      BY <1>1, <1>3
    <3>2. r[(k - m) + m] = s[k - m]
      BY <1>2, <3>1
    <3> QED
      BY <1>3, <3>1, <3>2
  <2>3. y = Len(r) + 1 \/ r[y] \in HeadingKinds
    <3>1. CASE q = n + 1
      BY <1>1, <1>2, <3>1
    <3>2. CASE q # n + 1
      <4>1. q \in p..n
        BY <1>1, <1>3, <3>2
      <4> QED
        BY <1>2, <1>3, <3>2, <4>1
    <3> QED
      BY <3>1, <3>2
  <2> HIDE DEF x, y
  <2> QED
    BY <2>1, <2>2, <2>3 DEF IsNext
<1>5. x \in 1..Len(r) /\ x \in 0..Len(r)
  BY <1>1, <1>2
<1>6. NextHeading(r, x) = y
  <2> HIDE DEF x, y
  <2> QED
    BY <1>2, <1>4, <1>5, NextHeadingIs
<1>7. SubSeq(r, x, y - 1) = SubSeq(s, i, q - 1)
  <2> DEFINE a == SubSeq(r, x, y - 1)
             b == SubSeq(s, i, q - 1)
  <2>1. /\ i + m \in 1..Len(r) /\ q + m - 1 \in (i + m)..Len(r)
        /\ i \in 1..n /\ q - 1 \in i..n
    <3>1. /\ n \in Int /\ m \in Int /\ i \in Int /\ q \in Int /\ Len(r) = n + m
          /\ 0 <= m /\ 1 <= i /\ i + 1 <= q /\ q <= n + 1
      BY <1>1, <1>2, <1>3
    <3>2. ASSUME NEW a1 \in Int, NEW a2 \in Int, NEW a3 \in Int, NEW a4 \in Int,
                 0 <= a2, 1 <= a3, a3 + 1 <= a4, a4 <= a1 + 1
          PROVE  /\ a3 + a2 \in 1..(a1 + a2) /\ a4 + a2 - 1 \in (a3 + a2)..(a1 + a2)
                 /\ a3 \in 1..a1 /\ a4 - 1 \in a3..a1
      BY <3>2
    <3> QED
      BY <3>1, <3>2
  <2>2. /\ a \in Seq(LineKinds) /\ Len(a) = q - i
        /\ \A k \in 1..(q - i) : a[k] = r[x + k - 1]
    <3>1. x \in 1..Len(r) /\ y - 1 \in x..Len(r) /\ (y - 1) - x + 1 = q - i
      BY <1>1, <1>2, <1>3, <2>1
    <3> HIDE DEF x, y
    <3> QED
      BY <1>2, <3>1, CutIs
  <2>3. /\ b \in Seq(LineKinds) /\ Len(b) = q - i
        /\ \A k \in 1..(q - i) : b[k] = s[i + k - 1]
    <3>1. i \in 1..Len(s) /\ q - 1 \in i..Len(s) /\ (q - 1) - i + 1 = q - i
      BY <1>1, <1>3, <2>1 DEF n
    <3> QED
      BY <3>1, CutIs
  <2> HIDE DEF a, b
  <2>4. \A k \in 1..(q - i) : a[k] = b[k]
    <3> SUFFICES ASSUME NEW k \in 1..(q - i) PROVE a[k] = b[k]
      OBVIOUS
    <3>1. i + k - 1 \in p..n /\ (i + k - 1) + m = x + k - 1
      BY <1>1, <1>3
    <3>2. r[(i + k - 1) + m] = s[i + k - 1]
      BY <1>2, <3>1
    <3> QED
      BY <2>2, <2>3, <3>1, <3>2
  <2>5. a = b
    BY <2>2, <2>3, <2>4
  <2> QED
    BY <2>5 DEF a, b
<1>8. SectionAt(r, x) = SectionAt(s, i)
  <2> HIDE DEF x, y
  <2>1. SectionAt(r, x) = SubSeq(r, x, y - 1)
    BY <1>6 DEF SectionAt
  <2>2. SectionAt(s, i) = SubSeq(s, i, q - 1)
    BY DEF SectionAt, q
  <2> QED
    BY <1>7, <2>1, <2>2
<1> QED
  BY <1>2, <1>5, <1>8 DEF m

(* ... and one that ends before it stays.                                  *)
LEMMA SectionStays ==
    ASSUME NEW s \in Seq(LineKinds), NEW new \in Seq(LineKinds), NEW r,
           NEW p \in 1..(Len(s) + 1), Inserts(r, s, p, new), NEW i \in 1..Len(s),
           NextHeading(s, i) < p
    PROVE  /\ i \in DOMAIN r
           /\ SectionAt(r, i) = SectionAt(s, i)
<1> DEFINE n == Len(s)
           q == NextHeading(s, i)
<1>1. n \in Nat /\ Len(new) \in Nat /\ p \in 1..(n + 1) /\ i \in 1..n /\ i \in 0..n
  OBVIOUS
<1>2. /\ r \in Seq(LineKinds) /\ Len(r) = n + Len(new)
      /\ \A k \in 1..(p - 1) : r[k] = s[k]
  BY DEF Inserts
<1>3. /\ q \in (i + 1)..(n + 1) /\ q < p
      /\ \A k \in (i + 1)..(q - 1) : s[k] \notin HeadingKinds
      /\ q = n + 1 \/ s[q] \in HeadingKinds
  <2>1. IsNext(s, i, q)
    BY <1>1, NextHeadingIs
  <2> HIDE DEF q
  <2> QED
    BY <2>1 DEF IsNext, q
<1> HIDE DEF n, q
<1>4. IsNext(r, i, q)
  <2>1. q \in (i + 1)..(Len(r) + 1) /\ q \in 1..(p - 1) /\ q # n + 1
    BY <1>1, <1>2, <1>3
  <2>2. \A k \in (i + 1)..(q - 1) : k \in 1..(p - 1)
    BY <1>1, <1>3
  <2> QED
    BY <1>2, <1>3, <2>1, <2>2 DEF IsNext
<1>5. i \in 1..Len(r) /\ i \in 0..Len(r)
  BY <1>1, <1>2
<1>6. NextHeading(r, i) = q
  BY <1>2, <1>4, <1>5, NextHeadingIs
<1>7. SubSeq(r, i, q - 1) = SubSeq(s, i, q - 1)
  <2> DEFINE a == SubSeq(r, i, q - 1)
             b == SubSeq(s, i, q - 1)
  <2>1. i \in 1..Len(r) /\ q - 1 \in i..Len(r) /\ i \in 1..n /\ q - 1 \in i..n
    BY <1>1, <1>2, <1>3
  <2>2. /\ a \in Seq(LineKinds) /\ Len(a) = q - i
        /\ \A k \in 1..(q - i) : a[k] = r[i + k - 1]
    BY <1>1, <1>2, <1>3, <2>1
  <2>3. /\ b \in Seq(LineKinds) /\ Len(b) = q - i
        /\ \A k \in 1..(q - i) : b[k] = s[i + k - 1]
    <3>1. i \in 1..Len(s) /\ q - 1 \in i..Len(s) /\ (q - 1) - i + 1 = q - i
      BY <1>1, <1>3, <2>1 DEF n
    <3> QED
      BY <3>1, CutIs
  <2> HIDE DEF a, b
  <2>4. \A k \in 1..(q - i) : i + k - 1 \in 1..(p - 1)
    BY <1>1, <1>3
  <2>5. \A k \in 1..(q - i) : a[k] = b[k]
    BY <1>2, <2>2, <2>3, <2>4
  <2>6. a = b
    BY <2>2, <2>3, <2>5
  <2> QED
    BY <2>6 DEF a, b
<1>8. SectionAt(r, i) = SectionAt(s, i)
  BY <1>6, <1>7 DEF SectionAt, q
<1> QED
  BY <1>2, <1>5, <1>8

(* The Unreleased section of ls names a kind of change.                    *)
GuaranteedIn(ls) ==
    LET h == First(UnreleasedOf(ls))
    IN  /\ UnreleasedOf(ls) # {}
        /\ HasPrefixedBullet(ls, h, NextHeading(ls, h) - 1)

(* r keeps the preamble of s, and each of its released sections.           *)
Keeps(r, s) ==
    /\ \A i \in 1..(NextHeading(s, 0) - 1) : r[i] = s[i]
    /\ \A i \in DOMAIN s : s[i] \in Versions =>
          \E j \in DOMAIN r : SectionAt(r, j) = SectionAt(s, i)

(* A bullet of the first Unreleased section is one of the guaranteed kind. *)
LEMMA GuaranteedBy ==
    ASSUME NEW r \in Seq(LineKinds), NEW h \in Nat, NEW q, IsUnreleased(r, h), IsNext(r, h, q),
           NEW b \in h..(q - 1), r[b] \in PrefixedKinds
    PROVE  GuaranteedIn(r)
<1>1. UnreleasedOf(r) # {} /\ First(UnreleasedOf(r)) = h
  BY UnreleasedIs
<1>2. h \in 0..Len(r)
  BY DEF IsUnreleased
<1>3. NextHeading(r, h) = q
  BY <1>2, NextHeadingIs
<1>4. HasPrefixedBullet(r, h, q - 1)
  BY DEF HasPrefixedBullet
<1> QED
  BY <1>1, <1>3, <1>4 DEF GuaranteedIn

(* A section written in front of the first heading.                        *)
LEMMA SectionInserted ==
    ASSUME NEW s \in Seq(LineKinds), NEW r, UnreleasedOf(s) = {},
           Inserts(r, s, NextHeading(s, 0), Section)
    PROVE  GuaranteedIn(r) /\ Keeps(r, s)
<1> DEFINE n == Len(s)
           p == NextHeading(s, 0)
<1>1. /\ p \in 1..(n + 1) /\ n \in Nat
      /\ \A k \in 1..(p - 1) : s[k] \notin HeadingKinds
      /\ p = n + 1 \/ s[p] \in HeadingKinds
  <2>1. IsNext(s, 0, p)
    BY NextHeadingIs
  <2> HIDE DEF p
  <2> QED
    BY <2>1 DEF IsNext
<1>2. \A k \in 1..n : s[k] \notin UnreleasedKinds
  BY DEF UnreleasedOf
<1>3. Inserts(r, s, p, Section)
  OBVIOUS
<1> HIDE DEF p
<1>4. /\ r \in Seq(LineKinds) /\ Len(r) = n + 4
      /\ \A k \in 1..(p - 1) : r[k] = s[k]
      /\ \A k \in 1..4 : r[p - 1 + k] = Section[k]
      /\ \A k \in p..n : r[k + 4] = s[k]
  BY <1>3, SectionIs DEF Inserts
<1> HIDE DEF n
<1>5. /\ r[p] = "unreleased" /\ r[p + 1] = "blank" /\ r[p + 2] = "ours" /\ r[p + 3] = "blank"
  <2>1. /\ r[p - 1 + 1] = Section[1] /\ r[p - 1 + 2] = Section[2]
        /\ r[p - 1 + 3] = Section[3] /\ r[p - 1 + 4] = Section[4]
    BY <1>4
  <2>2. p - 1 + 1 = p /\ p - 1 + 2 = p + 1 /\ p - 1 + 3 = p + 2 /\ p - 1 + 4 = p + 3
    BY <1>1
  <2> QED
    BY <2>1, <2>2, SectionIs
<1>6. IsUnreleased(r, p)
  <2>1. p \in 1..Len(r) /\ \A k \in 1..(p - 1) : k \in 1..n
    BY <1>1, <1>4
  <2>2. \A k \in 1..(p - 1) : r[k] \notin UnreleasedKinds
    BY <1>2, <1>4, <2>1
  <2>3. r[p] \in UnreleasedKinds /\ DOMAIN r = 1..Len(r)
    BY <1>4, <1>5, KindsAre
  <2> QED
    BY <2>1, <2>2, <2>3 DEF IsUnreleased
<1>7. IsNext(r, p, p + 4)
  <2>1. PICK y \in Nat : y = p + 4
    BY <1>1
  <2>2. y \in (p + 1)..(Len(r) + 1)
    BY <1>1, <1>4, <2>1
  <2>3. \A k \in (p + 1)..(y - 1) : k = p + 1 \/ k = p + 2 \/ k = p + 3
    BY <1>1, <2>1
  <2>4. "ours" \notin HeadingKinds /\ "blank" \notin HeadingKinds
    BY KindsAre
  <2>5. \A k \in (p + 1)..(y - 1) : r[k] \notin HeadingKinds
    BY <1>5, <2>3, <2>4
  <2>6. y = Len(r) + 1 \/ r[y] \in HeadingKinds
    <3>1. CASE p = n + 1
      BY <1>1, <1>4, <2>1, <3>1
    <3>2. CASE p # n + 1
      <4>1. p \in p..n
        BY <1>1, <3>2
      <4> QED
        BY <1>1, <1>4, <2>1, <3>2, <4>1
    <3> QED
      BY <3>1, <3>2
  <2>7. IsNext(r, p, y)
    BY <2>2, <2>5, <2>6 DEF IsNext
  <2> QED
    BY <2>1, <2>7
<1>8. GuaranteedIn(r)
  <2>1. p \in Nat /\ p + 2 \in p..(p + 4 - 1)
    BY <1>1
  <2>2. r[p + 2] \in PrefixedKinds
    BY <1>5, KindsAre
  <2> QED
    BY <1>4, <1>6, <1>7, <2>1, <2>2, GuaranteedBy
<1>9. ASSUME NEW i \in DOMAIN s, s[i] \in Versions
      PROVE  \E j \in DOMAIN r : SectionAt(r, j) = SectionAt(s, i)
  <2>1. i \in 1..n /\ s[i] \in HeadingKinds
    BY <1>9, KindsAre DEF n
  <2>2. i \notin 1..(p - 1)
    BY <1>1, <2>1
  <2>3. i \in p..n
    BY <1>1, <2>1, <2>2
  <2>4. /\ i + Len(Section) \in DOMAIN r
        /\ SectionAt(r, i + Len(Section)) = SectionAt(s, i)
    <3>1. Section \in Seq(LineKinds) /\ i \in p..Len(s) /\ p \in 1..(Len(s) + 1)
      BY <1>1, <2>3, SectionIs DEF n
    <3> QED
      BY <1>3, <3>1, SectionMoves
  <2> QED
    BY <2>4
<1> QED
  BY <1>4, <1>8, <1>9 DEF Keeps, p

(* A bullet written at the end of the Unreleased section.                  *)
LEMMA BulletInserted ==
    ASSUME NEW s \in Seq(LineKinds), NEW r, NEW h \in Nat, IsUnreleased(s, h),
           Inserts(r, s, NextHeading(s, h), Bullet)
    PROVE  GuaranteedIn(r) /\ Keeps(r, s)
<1> DEFINE n == Len(s)
           p == NextHeading(s, h)
<1>1. /\ n \in Nat /\ h \in 1..n /\ s[h] \in UnreleasedKinds
      /\ \A k \in 1..(h - 1) : s[k] \notin UnreleasedKinds
  BY DEF IsUnreleased
<1>2. /\ p \in (h + 1)..(n + 1)
      /\ \A k \in (h + 1)..(p - 1) : s[k] \notin HeadingKinds
      /\ p = n + 1 \/ s[p] \in HeadingKinds
  <2>1. IsNext(s, h, p)
    BY <1>1, NextHeadingIs
  <2> HIDE DEF p
  <2> QED
    BY <2>1 DEF IsNext
<1>3. Inserts(r, s, p, Bullet)
  OBVIOUS
<1> HIDE DEF p
<1>4. /\ r \in Seq(LineKinds) /\ Len(r) = n + 2
      /\ \A k \in 1..(p - 1) : r[k] = s[k]
      /\ \A k \in 1..2 : r[p - 1 + k] = Bullet[k]
      /\ \A k \in p..n : r[k + 2] = s[k]
  BY <1>3, BulletIs DEF Inserts
<1> HIDE DEF n
<1>5. r[p] = "ours" /\ r[p + 1] = "blank"
  <2>1. r[p - 1 + 1] = Bullet[1] /\ r[p - 1 + 2] = Bullet[2]
    BY <1>4
  <2>2. p - 1 + 1 = p /\ p - 1 + 2 = p + 1
    BY <1>1, <1>2
  <2> QED
    BY <2>1, <2>2, BulletIs
<1>6. IsUnreleased(r, h)
  <2>1. h \in 1..Len(r) /\ h \in 1..(p - 1) /\ \A k \in 1..(h - 1) : k \in 1..(p - 1)
    BY <1>1, <1>2, <1>4
  <2>2. \A k \in 1..(h - 1) : r[k] \notin UnreleasedKinds
    BY <1>1, <1>4, <2>1
  <2>3. r[h] \in UnreleasedKinds /\ DOMAIN r = 1..Len(r)
    BY <1>1, <1>4, <2>1
  <2> QED
    BY <2>1, <2>2, <2>3 DEF IsUnreleased
<1>7. IsNext(r, h, p + 2)
  <2>1. PICK y \in Nat : y = p + 2
    BY <1>1, <1>2
  <2>2. y \in (h + 1)..(Len(r) + 1)
    BY <1>1, <1>2, <1>4, <2>1
  <2>3. \A k \in (h + 1)..(y - 1) : k = p \/ k = p + 1 \/ k \in (h + 1)..(p - 1)
    BY <1>1, <1>2, <2>1
  <2>4. \A k \in (h + 1)..(p - 1) : k \in 1..(p - 1)
    BY <1>1, <1>2
  <2>5. "ours" \notin HeadingKinds /\ "blank" \notin HeadingKinds
    BY KindsAre
  <2>6. ASSUME NEW k \in (h + 1)..(y - 1)
        PROVE  r[k] \notin HeadingKinds
    <3>1. CASE k \in (h + 1)..(p - 1)
      <4>1. r[k] = s[k]
        BY <1>4, <2>4, <3>1
      <4> QED
        BY <1>2, <3>1, <4>1
    <3>2. CASE k = p \/ k = p + 1
      BY <1>5, <2>5, <3>2
    <3> QED
      BY <2>3, <3>1, <3>2
  <2>7. y = Len(r) + 1 \/ r[y] \in HeadingKinds
    <3>1. CASE p = n + 1
      BY <1>1, <1>4, <2>1, <3>1
    <3>2. CASE p # n + 1
      <4>1. p \in p..n
        BY <1>1, <1>2, <3>2
      <4> QED
        BY <1>2, <1>4, <2>1, <3>2, <4>1
    <3> QED
      BY <3>1, <3>2
  <2>8. IsNext(r, h, y)
    BY <2>2, <2>6, <2>7 DEF IsNext
  <2> QED
    BY <2>1, <2>8
<1>8. GuaranteedIn(r)
  <2>1. p \in h..(p + 2 - 1)
    BY <1>1, <1>2
  <2>2. r[p] \in PrefixedKinds
    BY <1>5, KindsAre
  <2> QED
    BY <1>4, <1>6, <1>7, <2>1, <2>2, GuaranteedBy
<1>9. \A i \in 1..(NextHeading(s, 0) - 1) : r[i] = s[i]
  <2> DEFINE f == NextHeading(s, 0)
  <2>1. f \in 1..(n + 1) /\ \A k \in 1..(f - 1) : s[k] \notin HeadingKinds
    <3>1. IsNext(s, 0, f)
      BY NextHeadingIs
    <3> HIDE DEF f
    <3> QED
      BY <3>1 DEF IsNext, n
  <2> HIDE DEF f
  <2>2. s[h] \in HeadingKinds
    BY <1>1, KindsAre
  <2>3. h \notin 1..(f - 1)
    BY <2>1, <2>2
  <2>4. \A i \in 1..(f - 1) : i \in 1..(p - 1)
    BY <1>1, <1>2, <2>1, <2>3
  <2> QED
    BY <1>4, <2>4 DEF f
<1>10. ASSUME NEW i \in DOMAIN s, s[i] \in Versions
       PROVE  \E j \in DOMAIN r : SectionAt(r, j) = SectionAt(s, i)
  <2>1. i \in 1..n /\ s[i] \in HeadingKinds /\ s[i] \notin UnreleasedKinds
    BY <1>10, KindsAre DEF n
  <2>2. i \notin (h + 1)..(p - 1) /\ i # h
    BY <1>1, <1>2, <2>1
  <2>3. CASE i >= p
    <3>1. i \in p..n /\ p \in 1..(n + 1)
      BY <1>1, <1>2, <2>1, <2>3
    <3>2. /\ i + Len(Bullet) \in DOMAIN r
          /\ SectionAt(r, i + Len(Bullet)) = SectionAt(s, i)
      <4>1. Bullet \in Seq(LineKinds) /\ i \in p..Len(s) /\ p \in 1..(Len(s) + 1)
        BY <3>1, BulletIs DEF n
      <4> QED
        BY <1>3, <4>1, SectionMoves
    <3> QED
      BY <3>2
  <2>4. CASE i < h
    <3> DEFINE q == NextHeading(s, i)
    <3>1. q \in (i + 1)..(n + 1) /\ \A k \in (i + 1)..(q - 1) : s[k] \notin HeadingKinds
      <4>1. i \in 0..Len(s)
        BY <1>1, <2>1 DEF n
      <4>2. IsNext(s, i, q)
        BY <4>1, NextHeadingIs
      <4> HIDE DEF q
      <4> QED
        BY <4>2 DEF IsNext, n
    <3> HIDE DEF q
    <3>2. s[h] \in HeadingKinds
      BY <1>1, KindsAre
    <3>3. h \notin (i + 1)..(q - 1)
      BY <3>1, <3>2
    <3>4. q < p /\ p \in 1..(n + 1)
      BY <1>1, <1>2, <2>1, <2>4, <3>1, <3>3
    <3>5. i \in DOMAIN r /\ SectionAt(r, i) = SectionAt(s, i)
      BY <1>3, <2>1, <3>4, BulletIs, SectionStays DEF n, q
    <3> QED
      BY <3>5
  <2>5. i >= p \/ i < h
    BY <1>1, <1>2, <2>1, <2>2
  <2> QED
    BY <2>3, <2>4, <2>5
<1> QED
  BY <1>8, <1>9, <1>10 DEF Keeps

(* A line that another is written behind is one of the kinds too.          *)
LEMMA GluedIs ==
    ASSUME NEW last \in LineKinds, NEW line \in LineKinds
    PROVE  Glued(last, line) \in LineKinds
<1>1. "mention" \in LineKinds /\ "glued" \in LineKinds
  BY DEF LineKinds, HeadingKinds, UnreleasedKinds
<1> QED
  BY <1>1 DEF Glued

(* What is written into a file whose last line ends, or in front of it.    *)
LEMMA InsertIs ==
    ASSUME NEW f \in FileType, NEW new \in Seq(LineKinds), NEW i \in 1..(Len(f.lines) + 1),
           f.closed \/ i <= Len(f.lines)
    PROVE  /\ Inserts(Insert(f, i, new).lines, f.lines, i, new)
           /\ Insert(f, i, new).closed = f.closed
           /\ Insert(f, i, new) \in FileType
<1> DEFINE s == f.lines
           r == SubSeq(s, 1, i - 1) \o new \o SubSeq(s, i, Len(s))
<1>1. s \in Seq(LineKinds) /\ f.closed \in BOOLEAN /\ i \in 1..(Len(s) + 1)
  BY DEF FileType
<1>2. Insert(f, i, new) = [lines |-> r, closed |-> f.closed]
  <2>1. ~(i > Len(s) /\ ~f.closed)
    BY <1>1
  <2> HIDE DEF r
  <2> QED
    BY <2>1 DEF Insert, r
<1> HIDE DEF s
<1>3. Inserts(r, s, i, new)
  BY <1>1, SpliceIs
<1> HIDE DEF r
<1>4. r \in Seq(LineKinds)
  BY <1>3 DEF Inserts
<1> QED
  BY <1>1, <1>2, <1>3, <1>4 DEF FileType, s

(* Writing into a file leaves a file.                                      *)
LEMMA InsertType ==
    ASSUME NEW f \in FileType, IsFile(f), NEW new \in Seq(LineKinds), Len(new) >= 1,
           NEW i \in 1..(Len(f.lines) + 1)
    PROVE  Insert(f, i, new) \in FileType /\ IsFile(Insert(f, i, new))
<1> DEFINE s == f.lines
           n == Len(s)
           g == Insert(f, i, new)
<1>1. s \in Seq(LineKinds) /\ f.closed \in BOOLEAN /\ n \in Nat /\ i \in 1..(n + 1)
  BY DEF FileType
<1>2. CASE f.closed \/ i <= n
  <2>1. Inserts(g.lines, s, i, new) /\ g.closed = f.closed /\ g \in FileType
    BY <1>2, InsertIs
  <2> HIDE DEF g
  <2>2. CASE f.closed
    <3>1. g.closed
      BY <2>1, <2>2
    <3> QED
      BY <2>1, <3>1, Zenon DEF IsFile, g
  <2>3. CASE ~f.closed
    <3>1. i <= n /\ s # <<>> /\ s[n] # "blank"
      BY <1>1, <1>2, <2>3 DEF IsFile
    <3>2. /\ g.lines \in Seq(LineKinds) /\ Len(g.lines) = n + Len(new)
          /\ n \in i..Len(s) => g.lines[n + Len(new)] = s[n]
      BY <2>1 DEF Inserts
    <3>3. n \in i..Len(s)
      BY <1>1, <3>1
    <3>4. g.lines # <<>> /\ g.lines[Len(g.lines)] # "blank"
      BY <1>1, <3>1, <3>2, <3>3
    <3> QED
      BY <2>1, <3>4, Zenon DEF IsFile, g
  <2> QED
    BY <1>1, <2>1, <2>2, <2>3 DEF g
<1>3. CASE ~f.closed /\ i > n
  <2> DEFINE a == SubSeq(s, 1, n - 1)
             b == <<Glued(s[n], new[1])>>
             c == SubSeq(new, 2, Len(new))
             d == a \o b
  <2>1. g = [lines |-> d \o c, closed |-> TRUE]
    BY <1>1, <1>3 DEF Insert
  <2>2. n \in 1..Len(s) /\ s[n] \in LineKinds /\ new[1] \in LineKinds
    BY <1>1, <1>3 DEF IsFile
  <2>3. Glued(s[n], new[1]) \in LineKinds
    BY <2>2, GluedIs
  <2>4. a \in Seq(LineKinds)
    BY <1>1, <2>2
  <2>5. b \in Seq(LineKinds)
    BY <2>3
  <2>6. c \in Seq(LineKinds)
    OBVIOUS
  <2> HIDE DEF a, b, c
  <2>7. d \in Seq(LineKinds)
    BY <2>4, <2>5, ConcatProperties
  <2> HIDE DEF d
  <2>8. d \o c \in Seq(LineKinds)
    BY <2>6, <2>7, ConcatProperties
  <2> HIDE DEF g
  <2>9. g \in FileType /\ g.closed
    BY <2>1, <2>8 DEF FileType
  <2> QED
    BY <2>9 DEF IsFile, g
<1> QED
  BY <1>1, <1>2, <1>3

(* No line of ls has "## Unreleased" in its middle.                        *)
Unmentioned(ls) == \A k \in DOMAIN ls : ls[k] # "mention"

(* Nothing that is written mentions the section.                           *)
LEMMA InsertUnmentioned ==
    ASSUME NEW s \in Seq(LineKinds), NEW new \in Seq(LineKinds), NEW r,
           NEW i \in 1..(Len(s) + 1), Inserts(r, s, i, new), Unmentioned(s), Unmentioned(new)
    PROVE  Unmentioned(r)
<1> DEFINE n == Len(s)
           m == Len(new)
<1>1. /\ n \in Nat /\ m \in Nat /\ i \in 1..(n + 1)
      /\ \A k \in 1..n : s[k] # "mention"
      /\ \A k \in 1..m : new[k] # "mention"
  BY DEF Unmentioned
<1>2. /\ DOMAIN r = 1..(n + m)
      /\ \A k \in 1..(i - 1) : r[k] = s[k]
      /\ \A k \in 1..m : r[i - 1 + k] = new[k]
      /\ \A k \in i..n : r[k + m] = s[k]
  BY DEF Inserts
<1> HIDE DEF n, m
<1>3. ASSUME NEW k \in 1..(n + m)
      PROVE  r[k] # "mention"
  <2>1. CASE k \in 1..(i - 1)
    <3>1. k \in 1..n
      BY <1>1, <2>1
    <3> QED
      BY <1>1, <1>2, <2>1, <3>1
  <2>2. CASE k \in i..(i - 1 + m)
    <3>1. PICK j \in 1..m : i - 1 + j = k
      <4>1. k - (i - 1) \in 1..m /\ i - 1 + (k - (i - 1)) = k
        BY <1>1, <2>2
      <4> QED
        BY <4>1
    <3>2. r[i - 1 + j] = new[j]
      BY <1>2
    <3> QED
      BY <1>1, <3>1, <3>2
  <2>3. CASE k \in (i + m)..(n + m)
    <3>1. PICK j \in i..n : j + m = k
      <4>1. k - m \in i..n /\ (k - m) + m = k
        BY <1>1, <2>3
      <4> QED
        BY <4>1
    <3>2. r[j + m] = s[j] /\ j \in 1..n
      BY <1>1, <1>2
    <3> QED
      BY <1>1, <3>1, <3>2
  <2> QED
    BY <1>1, <2>1, <2>2, <2>3
<1> QED
  BY <1>2, <1>3 DEF Unmentioned

(* Review finds the bullet of a section that is guaranteed.                *)
LEMMA ReviewReads ==
    ASSUME NEW ls \in Seq(LineKinds), GuaranteedIn(ls), Unmentioned(ls)
    PROVE  HasUnreleasedBullet(ls)
<1> DEFINE n == Len(ls)
           h == First(UnreleasedOf(ls))
           q == NextHeading(ls, h)
           found == {i \in DOMAIN ls : ls[i] \in UnreleasedKinds \cup {"mention"}}
           S == {j \in HeadingsOf(ls) : j > h /\ ls[j] # "indented"} \cup {n + 1}
<1>1. found = UnreleasedOf(ls)
  BY DEF UnreleasedOf, Unmentioned
<1>2. UnreleasedOf(ls) # {} /\ HasPrefixedBullet(ls, h, q - 1)
  BY DEF GuaranteedIn
<1>3. h \in 1..n /\ ls[h] \in UnreleasedKinds /\ n \in Nat
  <2>1. IsUnreleased(ls, h)
    BY <1>2, UnreleasedIs
  <2> HIDE DEF h
  <2> QED
    BY <2>1 DEF IsUnreleased
<1> HIDE DEF h
<1>4. PICK b \in h..(q - 1) : ls[b] \in PrefixedKinds
  BY <1>2 DEF HasPrefixedBullet
<1>5. /\ q \in (h + 1)..(n + 1)
      /\ \A k \in (h + 1)..(q - 1) : ls[k] \notin HeadingKinds
  <2>1. h \in 0..Len(ls)
    BY <1>3
  <2>2. IsNext(ls, h, q)
    BY <2>1, NextHeadingIs
  <2> HIDE DEF q
  <2> QED
    BY <2>2 DEF IsNext
<1> HIDE DEF q
<1>6. First(S) \in Int /\ q <= First(S)
  <2>1. \A j \in S : j \in 1..(n + 1) /\ (j = n + 1 \/ (j > h /\ ls[j] \in HeadingKinds))
    BY <1>3 DEF HeadingsOf
  <2>2. n + 1 \in S
    OBVIOUS
  <2> HIDE DEF S, n
  <2>3. S \subseteq 1..(n + 1) /\ S # {} /\ n + 1 \in Nat
    BY <1>3, <2>1, <2>2
  <2>4. First(S) \in S
    BY <2>3, FirstIs
  <2> DEFINE e == First(S)
  <2>5. e \in 1..(n + 1) /\ (e = n + 1 \/ (e > h /\ ls[e] \in HeadingKinds))
    BY <2>1, <2>4
  <2> HIDE DEF e
  <2>6. e \notin (h + 1)..(q - 1) \/ e = n + 1
    BY <1>5, <2>5
  <2>7. q <= e
    BY <1>3, <1>5, <2>5, <2>6
  <2> QED
    BY <2>5, <2>7 DEF e
<1> DEFINE e == First(S)
<1> HIDE DEF S
<1>7. b \in (h + 1)..(e - 1) /\ ls[b] \in BulletKinds
  <2>1. b # h
    BY <1>3, <1>4, KindsAre
  <2> HIDE DEF e
  <2>2. e \in Int /\ q <= e
    BY <1>6 DEF e
  <2> QED
    BY <1>3, <1>4, <1>5, <2>1, <2>2, KindsAre
<1>8. found # {} /\ First(found) = h
  BY <1>1, <1>2 DEF h
<1> HIDE DEF e, found
<1>9. \E i \in (h + 1)..(e - 1) : ls[i] \in BulletKinds
  BY <1>7
<1> QED
  BY <1>8, <1>9 DEF HasUnreleasedBullet, found, e, S, n

(* What EnsureChangelog makes of a file is a file; when its last line      *)
(* ends, it has a section that is guaranteed, all that is to be kept, and  *)
(* no mention it did not have.                                             *)
LEMMA EnsureIs ==
    ASSUME NEW f \in FileType, IsFile(f)
    PROVE  LET g == EnsureUnreleasedBullet(f)
           IN  /\ g \in FileType /\ IsFile(g)
               /\ f.closed => /\ GuaranteedIn(g.lines) /\ Keeps(g.lines, f.lines)
                              /\ Unmentioned(f.lines) => Unmentioned(g.lines)
<1> DEFINE ls == f.lines
           h == First(UnreleasedOf(ls))
           g == EnsureUnreleasedBullet(f)
<1>1. ls \in Seq(LineKinds) /\ Len(ls) \in Nat
  BY DEF FileType
<1>2. CASE UnreleasedOf(ls) = {}
  <2> DEFINE p == NextHeading(ls, 0)
  <2>1. g = Insert(f, p, Section)
    BY <1>2 DEF EnsureUnreleasedBullet
  <2>2. p \in 1..(Len(f.lines) + 1)
    <3>1. IsNext(ls, 0, p)
      BY <1>1, NextHeadingIs
    <3> HIDE DEF p
    <3> QED
      BY <1>1, <3>1 DEF IsNext
  <2> HIDE DEF p, g
  <2>3. g \in FileType /\ IsFile(g)
    <3>1. Section \in Seq(LineKinds) /\ Len(Section) >= 1
      BY SectionIs
    <3>2. Insert(f, p, Section) \in FileType /\ IsFile(Insert(f, p, Section))
      BY <2>2, <3>1, InsertType
    <3> QED
      BY <2>1, <3>2
  <2>4. ASSUME f.closed
        PROVE  /\ GuaranteedIn(g.lines) /\ Keeps(g.lines, ls)
               /\ Unmentioned(ls) => Unmentioned(g.lines)
    <3>1. Inserts(g.lines, ls, p, Section)
      BY <2>1, <2>2, <2>4, InsertIs, SectionIs
    <3>2. GuaranteedIn(g.lines) /\ Keeps(g.lines, ls)
      BY <1>1, <1>2, <3>1, SectionInserted DEF p
    <3>3. Unmentioned(Section)
      <4>1. \A k \in 1..4 : k = 1 \/ k = 2 \/ k = 3 \/ k = 4
        OBVIOUS
      <4>2. DOMAIN Section = 1..4
        BY SectionIs
      <4> QED
        BY <4>1, <4>2, SectionIs DEF Unmentioned
    <3> QED
      BY <1>1, <2>2, <3>1, <3>2, <3>3, InsertUnmentioned, SectionIs
  <2> QED
    BY <2>3, <2>4 DEF g
<1>3. CASE UnreleasedOf(ls) # {} /\ HasPrefixedBullet(ls, h, NextHeading(ls, h) - 1)
  <2>1. g = f
    BY <1>3 DEF EnsureUnreleasedBullet
  <2>2. GuaranteedIn(ls) /\ Keeps(ls, ls)
    BY <1>3 DEF GuaranteedIn, Keeps
  <2> HIDE DEF g
  <2> QED
    BY <2>1, <2>2 DEF g
<1>4. CASE UnreleasedOf(ls) # {} /\ ~HasPrefixedBullet(ls, h, NextHeading(ls, h) - 1)
  <2> DEFINE p == NextHeading(ls, h)
  <2>1. g = Insert(f, p, Bullet)
    BY <1>4 DEF EnsureUnreleasedBullet
  <2>2. IsUnreleased(ls, h)
    BY <1>1, <1>4, UnreleasedIs
  <2> HIDE DEF h
  <2>3. h \in Nat /\ h \in 0..Len(ls) /\ h \in 1..Len(ls)
    BY <1>1, <2>2 DEF IsUnreleased
  <2>4. p \in 1..(Len(f.lines) + 1)
    <3>1. IsNext(ls, h, p)
      BY <1>1, <2>3, NextHeadingIs
    <3> HIDE DEF p
    <3> QED
      BY <1>1, <2>3, <3>1 DEF IsNext
  <2> HIDE DEF p, g
  <2>5. g \in FileType /\ IsFile(g)
    <3>1. Bullet \in Seq(LineKinds) /\ Len(Bullet) >= 1
      BY BulletIs
    <3>2. Insert(f, p, Bullet) \in FileType /\ IsFile(Insert(f, p, Bullet))
      BY <2>4, <3>1, InsertType
    <3> QED
      BY <2>1, <3>2
  <2>6. ASSUME f.closed
        PROVE  /\ GuaranteedIn(g.lines) /\ Keeps(g.lines, ls)
               /\ Unmentioned(ls) => Unmentioned(g.lines)
    <3>1. Inserts(g.lines, ls, p, Bullet)
      BY <2>1, <2>4, <2>6, InsertIs, BulletIs
    <3>2. GuaranteedIn(g.lines) /\ Keeps(g.lines, ls)
      BY <1>1, <2>2, <2>3, <3>1, BulletInserted DEF p
    <3>3. Unmentioned(Bullet)
      <4>1. \A k \in 1..2 : k = 1 \/ k = 2
        OBVIOUS
      <4>2. DOMAIN Bullet = 1..2
        BY BulletIs
      <4> QED
        BY <4>1, <4>2, BulletIs DEF Unmentioned
    <3> QED
      BY <1>1, <2>4, <3>1, <3>2, <3>3, InsertUnmentioned, BulletIs
  <2> QED
    BY <2>5, <2>6 DEF g
<1> QED
  BY <1>2, <1>3, <1>4

(* A new file has its section too.                                         *)
LEMMA NewFileIsGuaranteed ==
    /\ NewFile \in FileType /\ IsFile(NewFile)
    /\ GuaranteedIn(NewFile.lines) /\ Unmentioned(NewFile.lines)
<1> DEFINE c == NewFile.lines
<1>1. NewFile \in FileType /\ IsFile(NewFile)
  <2>1. NewFile = [lines |-> c, closed |-> TRUE]
    BY DEF NewFile
  <2> HIDE DEF c
  <2>2. c \in Seq(LineKinds)
    BY NewFileIs DEF c
  <2> QED
    BY <2>1, <2>2 DEF FileType, IsFile
<1>2. /\ c \in Seq(LineKinds) /\ Len(c) = 14 /\ DOMAIN c = 1..14
      /\ c[12] = "unreleased" /\ c[13] = "blank" /\ c[14] = "ours"
      /\ \A k \in 1..11 : c[k] \in {"text", "blank", "bullet"}
  <2>1. /\ c \in Seq(LineKinds) /\ Len(c) = 14
        /\ c[12] = "unreleased" /\ c[13] = "blank" /\ c[14] = "ours"
        /\ \A k \in 1..11 : c[k] \in {"text", "blank", "bullet"}
    BY NewFileIs
  <2> HIDE DEF c
  <2>2. DOMAIN c = 1..14
    BY <2>1
  <2> QED
    BY <2>1, <2>2
<1> HIDE DEF c
<1>3. \A k \in 1..11 : c[k] \notin UnreleasedKinds /\ c[k] # "mention"
  BY <1>2, KindsAre
<1>4. IsUnreleased(c, 12)
  <2>1. \A k \in 1..(12 - 1) : k \in 1..11
    OBVIOUS
  <2> QED
    BY <1>2, <1>3, <2>1, KindsAre DEF IsUnreleased
<1>5. IsNext(c, 12, 15)
  <2>1. \A k \in (12 + 1)..(15 - 1) : k = 13 \/ k = 14
    OBVIOUS
  <2> QED
    BY <1>2, <2>1, KindsAre DEF IsNext
<1>6. GuaranteedIn(c)
  <2>1. 14 \in 12..(15 - 1) /\ c[14] \in PrefixedKinds /\ 12 \in Nat
    BY <1>2, KindsAre
  <2> QED
    BY <1>2, <1>4, <1>5, <2>1, GuaranteedBy
<1>7. Unmentioned(c)
  <2>1. \A k \in 1..14 : k \in 1..11 \/ k = 12 \/ k = 13 \/ k = 14
    OBVIOUS
  <2> QED
    BY <1>2, <1>3, <2>1 DEF Unmentioned
<1> QED
  BY <1>1, <1>6, <1>7 DEF c

(* What EnsureChangelog makes of what it finds.                            *)
Ensured(f) == IF f = Absent THEN NewFile ELSE EnsureUnreleasedBullet(f)

(* The inductive invariant: the worktree's file is the one that was found, *)
(* until EnsureChangelog has made its own of it, which review has read.    *)
ChangelogIInv ==
    /\ changelogStage \in {"base", "edited", "written", "failed", "reviewed"}
    /\ base \in FileType /\ before \in FileType /\ work \in FileType
    /\ verdict \in BOOLEAN
    /\ before = Absent \/ IsFile(before)
    /\ ~Written => work = before
    /\ Written => work = Ensured(before)
    /\ changelogStage = "reviewed" => (verdict <=> (Clean(work) /\ base # Absent))

(* It holds of every file a branch may begin with.                         *)
LEMMA InitChangelog == Init => ChangelogIInv
<1> SUFFICES ASSUME Init PROVE ChangelogIInv
  OBVIOUS
<1>1. /\ changelogStage = "base" /\ before = base /\ work = base /\ verdict = FALSE
      /\ base = Absent \/ (base \in Files /\ IsFile(base))
  BY Zenon DEF Init, ChangelogInit, Idle, BaseFiles
<1>2. Absent \in FileType
  BY DEF Absent, FileType
<1>3. ASSUME base \in Files PROVE base \in FileType
  <2>1. PICK n \in 0..MaxLines : \E ls \in [1..n -> Kinds], c \in Endings :
                                    base = [lines |-> ls, closed |-> c]
    BY <1>3 DEF Files
  <2>2. PICK ls \in [1..n -> Kinds], c \in Endings : base = [lines |-> ls, closed |-> c]
    BY <2>1
  <2>3. Kinds \subseteq LineKinds /\ Endings \subseteq BOOLEAN /\ MaxLines \in Nat
    BY ChangelogAssumption
  <2>4. ls \in Seq(LineKinds) /\ c \in BOOLEAN
    BY <2>3
  <2> QED
    BY <2>2, <2>4 DEF FileType
<1>4. ~Written /\ changelogStage # "reviewed"
  BY <1>1 DEF Written
<1> QED
  BY <1>1, <1>2, <1>3, <1>4 DEF ChangelogIInv

(* A file, or one that was made, is what EnsureChangelog leaves.           *)
LEMMA EnsuredIs ==
    ASSUME NEW f \in FileType, f = Absent \/ IsFile(f)
    PROVE  /\ Ensured(f) \in FileType /\ IsFile(Ensured(f))
           /\ f.closed \/ f = Absent =>
                 /\ GuaranteedIn(Ensured(f).lines)
                 /\ Unmentioned(f.lines) => Unmentioned(Ensured(f).lines)
           /\ f.closed => Keeps(Ensured(f).lines, f.lines)
<1>1. CASE f = Absent
  <2>1. Ensured(f) = NewFile /\ ~f.closed
    BY <1>1 DEF Ensured, Absent
  <2> QED
    BY <2>1, NewFileIsGuaranteed
<1>2. CASE f # Absent
  <2>1. Ensured(f) = EnsureUnreleasedBullet(f) /\ IsFile(f)
    BY <1>2 DEF Ensured
  <2> QED
    BY <1>2, <2>1, EnsureIs
<1> QED
  BY <1>1, <1>2

(* What depends on files that stay the same.                               *)
LEMMA FilesStay ==
    ASSUME base' = base, before' = before, work' = work
    PROVE  /\ Ensured(before)' = Ensured(before) /\ (IsFile(before)' <=> IsFile(before))
           /\ Clean(work)' <=> Clean(work)
<1>1. Ensured(before)' = Ensured(before) /\ (IsFile(before)' <=> IsFile(before))
  BY DEF Ensured, EnsureUnreleasedBullet, Insert, UnreleasedOf, NextHeading,
         HeadingsOf, HasPrefixedBullet, IsFile
<1>2. Clean(work)' <=> Clean(work)
  BY DEF Clean, HasUnreleasedBullet, VersionHeaders, HeadingsOf
<1> QED
  BY <1>1, <1>2

(* It holds as long as another reader is the one that steps.               *)
LEMMA ChangelogRests == ChangelogIInv /\ UNCHANGED changelogVars => ChangelogIInv'
<1> SUFFICES ASSUME ChangelogIInv, UNCHANGED changelogVars PROVE ChangelogIInv'
  OBVIOUS
<1>1. /\ changelogStage' = changelogStage /\ base' = base /\ before' = before
      /\ work' = work /\ verdict' = verdict
  BY DEF changelogVars
<1>2. /\ Ensured(before)' = Ensured(before) /\ (IsFile(before)' <=> IsFile(before))
      /\ Clean(work)' <=> Clean(work)
  BY <1>1, FilesStay
<1>3. Written' <=> Written
  BY <1>1 DEF Written
<1> QED
  BY <1>1, <1>2, <1>3 DEF ChangelogIInv

(* Every step of the CHANGELOG's keeps it.                                 *)
LEMMA StepChangelog == ChangelogIInv /\ ChangelogNext => ChangelogIInv'
<1> SUFFICES ASSUME ChangelogIInv, ChangelogNext PROVE ChangelogIInv'
  OBVIOUS
<1>1. /\ base \in FileType /\ before \in FileType /\ work \in FileType /\ verdict \in BOOLEAN
      /\ before = Absent \/ IsFile(before)
      /\ ~Written => work = before
      /\ Written => work = Ensured(before)
  BY DEF ChangelogIInv
<1>2. CASE Update
  <2>1. /\ changelogStage = "base" /\ changelogStage' = "edited" /\ before' = work'
        /\ base' = base /\ verdict' = verdict
    BY <1>2 DEF Update
  <2>2. work = Absent \/ IsFile(work)
    BY <1>1, <2>1 DEF Written
  <2>3. work' \in FileType /\ (work' = Absent \/ IsFile(work'))
    <3>1. CASE work' = work
      BY <1>1, <2>2, <3>1
    <3>2. CASE work' # work
      <4>1. PICK k \in Edits : IF work = Absent
                               THEN work' = [lines |-> <<k>>, closed |-> TRUE]
                               ELSE \E i \in 1..(Len(work.lines) + 1) :
                                       work' = Insert(work, i, <<k>>)
        BY <1>2, <3>2, Zenon DEF Update
      <4>2. k \in LineKinds
        BY ChangelogAssumption
      <4> DEFINE new == <<k>>
      <4>3. new \in Seq(LineKinds) /\ Len(new) >= 1
        BY <4>2
      <4> HIDE DEF new
      <4>4. CASE work = Absent
        <5>1. work' = [lines |-> new, closed |-> TRUE]
          BY <4>1, <4>4 DEF new
        <5> QED
          BY <4>3, <5>1 DEF FileType, IsFile
      <4>5. CASE work # Absent
        <5>1. PICK i \in 1..(Len(work.lines) + 1) : work' = Insert(work, i, new)
          BY <4>1, <4>5 DEF new
        <5>2. Insert(work, i, new) \in FileType /\ IsFile(Insert(work, i, new))
          BY <1>1, <2>2, <4>3, <4>5, InsertType
        <5> QED
          BY <5>1, <5>2
      <4> QED
        BY <4>4, <4>5
    <3> QED
      BY <3>1, <3>2
  <2>4. before' \in FileType /\ (before' = Absent \/ IsFile(before)')
    BY <2>1, <2>3 DEF IsFile
  <2>5. ~Written' /\ changelogStage' # "reviewed"
    BY <2>1 DEF Written
  <2> QED
    BY <1>1, <2>1, <2>3, <2>4, <2>5 DEF ChangelogIInv
<1>3. CASE EnsureChangelog
  <2>1. /\ changelogStage = "edited" /\ changelogStage' = "written"
        /\ base' = base /\ before' = before /\ verdict' = verdict
    BY <1>3 DEF EnsureChangelog
  <2>2. work = before
    BY <1>1, <2>1 DEF Written
  <2>3. work' = Ensured(before)
    BY <1>3, <2>2 DEF EnsureChangelog, Ensured
  <2>4. work' \in FileType
    BY <1>1, <2>3, EnsuredIs
  <2>5. Ensured(before)' = Ensured(before) /\ (IsFile(before)' <=> IsFile(before))
    BY <2>1 DEF Ensured, EnsureUnreleasedBullet, Insert, UnreleasedOf, NextHeading,
                HeadingsOf, HasPrefixedBullet, IsFile
  <2>6. Written' /\ changelogStage' # "reviewed"
    BY <2>1 DEF Written
  <2> QED
    BY <1>1, <2>1, <2>3, <2>4, <2>5, <2>6 DEF ChangelogIInv
<1>4. CASE FailToWrite
  <2>1. /\ changelogStage = "edited" /\ changelogStage' = "failed"
        /\ base' = base /\ before' = before /\ work' = work /\ verdict' = verdict
    BY <1>4 DEF FailToWrite
  <2>2. work = before /\ ~Written' /\ changelogStage' # "reviewed"
    BY <1>1, <2>1 DEF Written
  <2> QED
    BY <1>1, <2>1, <2>2 DEF ChangelogIInv, IsFile
<1>5. CASE CheckChangelog
  <2>1. /\ changelogStage = "written" /\ changelogStage' = "reviewed"
        /\ base' = base /\ before' = before /\ work' = work
        /\ verdict' = (Clean(work) /\ base # Absent)
    BY <1>5 DEF CheckChangelog
  <2>2. Written /\ Written'
    BY <2>1 DEF Written
  <2>3. work = Ensured(before)
    BY <1>1, <2>2
  <2>4. verdict' \in BOOLEAN
    BY <2>1
  <2> QED
    BY <1>1, <2>1, <2>2, <2>3, <2>4, FilesStay DEF ChangelogIInv
<1>6. CASE ChangelogOver
  BY <1>6, ChangelogRests DEF ChangelogOver
<1> QED
  BY <1>2, <1>3, <1>4, <1>5, <1>6 DEF ChangelogNext

(* The invariant says that what EnsureChangelog leaves is sound.           *)
LEMMA WrittenSound == ChangelogIInv => WrittenIsSound
<1> SUFFICES ASSUME ChangelogIInv PROVE WrittenIsSound
  OBVIOUS
<1>1. /\ changelogStage \in {"base", "edited", "written", "failed", "reviewed"}
      /\ base \in FileType /\ before \in FileType /\ work \in FileType /\ verdict \in BOOLEAN
      /\ before = Absent \/ IsFile(before)
      /\ Written => work = Ensured(before)
      /\ changelogStage = "reviewed" => (verdict <=> (Clean(work) /\ base # Absent))
  BY DEF ChangelogIInv
<1>2. /\ IsFile(Ensured(before))
      /\ Terminated => /\ GuaranteedIn(Ensured(before).lines)
                       /\ Unmentioned(before.lines) => Unmentioned(Ensured(before).lines)
      /\ before.closed => Keeps(Ensured(before).lines, before.lines)
  BY <1>1, EnsuredIs DEF Terminated
<1>3. ChangelogTypeOK
  BY <1>1, <1>2 DEF ChangelogTypeOK
<1>4. SectionGuaranteed
  BY <1>1, <1>2 DEF SectionGuaranteed, Guaranteed, GuaranteedIn
<1>5. PreambleIsFrozen /\ ReleasedSectionsAreFrozen
  BY <1>1, <1>2 DEF PreambleIsFrozen, ReleasedSectionsAreFrozen, Keeps
<1>6. WritingIsIdempotent
  <2> SUFFICES ASSUME Written, Terminated PROVE EnsureUnreleasedBullet(work) = work
    BY DEF WritingIsIdempotent
  <2>1. GuaranteedIn(work.lines)
    BY <1>1, <1>2
  <2> QED
    BY <2>1 DEF GuaranteedIn, EnsureUnreleasedBullet
<1>7. ReviewAcceptsWritten
  <2> SUFFICES ASSUME changelogStage = "reviewed", base # Absent, Terminated,
                      ~Mentions(before), VersionHeaders(work) \subseteq VersionHeaders(base)
               PROVE  verdict
    BY DEF ReviewAcceptsWritten
  <2>1. Written
    BY DEF Written
  <2>2. Unmentioned(before.lines)
    BY DEF Mentions, Unmentioned
  <2>3. GuaranteedIn(work.lines) /\ Unmentioned(work.lines) /\ IsFile(work)
    BY <1>1, <1>2, <2>1, <2>2
  <2>4. work.lines \in Seq(LineKinds)
    BY <1>1 DEF FileType
  <2>5. HasUnreleasedBullet(work.lines)
    BY <2>3, <2>4, ReviewReads
  <2>6. work # Absent
    BY <2>3 DEF IsFile, Absent
  <2> QED
    BY <1>1, <2>5, <2>6 DEF Clean
<1> QED
  BY <1>3, <1>4, <1>5, <1>6, <1>7 DEF WrittenIsSound

-----------------------------------------------------------------------------
(* The readers beside each other.                                          *)

(* What a step of another reader leaves alone.                             *)
LEMMA Resting ==
    /\ FactsIInv /\ UNCHANGED factsVars => FactsIInv'
    /\ AdvisoryIInv /\ UNCHANGED advisoryVars => AdvisoryIInv'
    /\ DiagnosisIInv /\ UNCHANGED diagnosisVars => DiagnosisIInv'
<1>1. ASSUME FactsIInv, UNCHANGED factsVars PROVE FactsIInv'
  <2>1. FirstIds' = FirstIds /\ Named' = Named /\ Approved' = Approved
    BY <1>1 DEF factsVars, FirstIds, Named, Approved
  <2> QED
    BY <1>1, <2>1 DEF factsVars, FactsIInv, FactsTypeOK, EveryLineHasARow, FixIsReported,
                      LiveFindingIsKept, ApprovedIsSuppressed, InTable
<1>2. ASSUME AdvisoryIInv, UNCHANGED advisoryVars PROVE AdvisoryIInv'
  BY <1>2 DEF advisoryVars, AdvisoryIInv, AdvisoryTypeOK, ClearedByTheBlock
<1>3. ASSUME DiagnosisIInv, UNCHANGED diagnosisVars PROVE DiagnosisIInv'
  BY <1>3 DEF diagnosisVars, repoVars, DiagnosisIInv, EvidenceIsKept, DiagnosisTypeOK, EndOfLogIsSeen,
              BodyIsTheFallback, EvidenceSoFar
<1> QED
  BY <1>1, <1>2, <1>3

(* The facts planning reads are whole: every finding a line of a gate      *)
(* target begins with reaches the model with the fix of its line, unless   *)
(* the clone names it where suppressions are read, and none that the       *)
(* operator has approved does, whatever the targets print, with statuses   *)
(* of every trivy, and whatever the Makefiles hold, comments included.     *)
THEOREM TablesAreFaithful == Spec => []TableIsFaithful
<1>1. ASSUME FactsIInv, [Next]_vars PROVE FactsIInv'
  <2>1. CASE FactsNext
    BY <1>1, <2>1, StepFacts
  <2>2. CASE UNCHANGED factsVars
    BY <1>1, <2>2, Resting
  <2> QED
    BY <1>1, <2>1, <2>2 DEF Next, vars
<1>2. FactsIInv => TableIsFaithful
  BY DEF FactsIInv, TableIsFaithful
<1> QED
  BY InitFacts, <1>1, <1>2, PTL DEF Spec

(* Review clears an advisory only by the block the task has then, and by a *)
(* module of the branch that provides the package at a version that is     *)
(* known and high enough, whatever is edited between planning and review.  *)
THEOREM ClearedAdvisoriesAreInstalled ==
    ASSUME LongestPathProvides
    PROVE  Spec => []ClearingIsSound
<1>1. ASSUME AdvisoryIInv, [Next]_vars PROVE AdvisoryIInv'
  <2>1. CASE AdvisoryNext
    BY <1>1, <2>1, StepAdvisory
  <2>2. CASE UNCHANGED advisoryVars
    BY <1>1, <2>2, Resting
  <2> QED
    BY <1>1, <2>1, <2>2 DEF Next, vars
<1>2. ASSUME AdvisoryIInv PROVE ClearingIsSound
  <2>1. AdvisoryTypeOK /\ SpoiledBlockFailsClosed
    BY <1>2 DEF AdvisoryIInv, ClearedByTheBlock, SpoiledBlockFailsClosed
  <2>2. ASSUME Cleared
        PROVE  \E m \in graph : Provides(m, judged) /\ m.installed >= judged.fixed
    <3>1. /\ entry \in Entries /\ graph \in Graphs /\ ~IsMalformed(entry)
          /\ judged = entry.map /\ judged # NoBlock
          /\ entry.kind = "mapping" => IsSatisfied(graph, judged)
      BY <1>2, <2>2 DEF AdvisoryIInv, AdvisoryTypeOK, ClearedByTheBlock, Cleared
    <3>2. entry.kind = "mapping" /\ judged \in MappingType /\ IsAdvisoryBlock(judged)
      BY <3>1, BlockTypes DEF IsMalformed
    <3>3. judged.package \in Paths
      BY <3>2 DEF MappingType, IsAdvisoryBlock
    <3>4. PICK m \in ModuleForPackage(graph, judged.package) : m.installed >= judged.fixed
      BY <3>1, <3>2 DEF IsSatisfied
    <3>5. m \in graph
      BY <3>4 DEF ModuleForPackage
    <3> QED
      BY <3>1, <3>3, <3>4, <3>5 DEF LongestPathProvides, Provides
  <2> QED
    BY <2>1, <2>2 DEF ClearingIsSound, ClearedIsInstalled
<1> QED
  BY InitAdvisory, <1>1, <1>2, PTL DEF Spec

(* A diagnosis has evidence whenever there is some, of a bounded size and  *)
(* with the end of the log in it, whatever CI does while it is read.       *)
THEOREM EvidenceStays == Spec => []EvidenceIsKept
<1>1. ASSUME DiagnosisIInv, [Next]_vars PROVE DiagnosisIInv'
  <2>1. CASE DiagnosisNext
    BY <1>1, <2>1, StepDiagnosis
  <2>2. CASE UNCHANGED diagnosisVars
    BY <1>1, <2>2, Resting
  <2> QED
    BY <1>1, <2>1, <2>2 DEF Next, vars
<1>2. DiagnosisIInv => EvidenceIsKept
  BY DEF DiagnosisIInv
<1> QED
  BY InitDiagnosis, <1>1, <1>2, PTL DEF Spec

(* parseJSONResponse takes the object that ends an answer, or the one      *)
(* between its fences, and never a member of a larger one, for answers of  *)
(* every length in which no string holds a brace.                          *)
THEOREM AnswersAreFound ==
    ASSUME NoStringHoldsABrace
    PROVE  Spec => []AnswerIsFound
<1>1. ASSUME JsonIInv, [Next]_vars PROVE JsonIInv'
  <2>1. CASE JsonNext
    BY <1>1, <2>1, StepJson
  <2>2. CASE UNCHANGED jsonVars
    BY <1>1, <2>2 DEF jsonVars, JsonIInv, Tried
  <2> QED
    BY <1>1, <2>1, <2>2 DEF Next, vars
<1>2. JsonIInv => AnswerIsFound
  BY FinalIsParsed, NoMemberIsTaken, FencedIsParsed, JsonTypes DEF AnswerIsFound
<1> QED
  BY InitJson, <1>1, <1>2, PTL DEF Spec

(* What EnsureChangelog writes into a file whose lines are terminated is   *)
(* sound for files of every length: a section with a bullet, the preamble  *)
(* and the released sections as they were, nothing done twice, and a file  *)
(* that review accepts with its own way of reading it.                     *)
THEOREM ChangelogsAreSound == Spec => []WrittenIsSound
<1>1. ASSUME ChangelogIInv, [Next]_vars PROVE ChangelogIInv'
  <2>1. CASE ChangelogNext
    BY <1>1, <2>1, StepChangelog
  <2>2. CASE UNCHANGED changelogVars
    BY <1>1, <2>2, ChangelogRests
  <2> QED
    BY <1>1, <2>1, <2>2 DEF Next, vars
<1> QED
  BY InitChangelog, <1>1, WrittenSound, PTL DEF Spec
=============================================================================
