----------------------------- MODULE RepoFacts ------------------------------
(***************************************************************************)
(* What planning reads in the clone before it asks the model: the          *)
(* go-version pins of the workflows (pkg/workflow_pin.go), the findings    *)
(* the gate targets print and the suppressions the operator has approved   *)
(* (pkg/scanner_table.go).  Planning takes a clone for these facts; this   *)
(* module is how they come out of lines.                                   *)
(*                                                                         *)
(* A line is its layout and the advisory IDs in it, in order.              *)
(***************************************************************************)
EXTENDS Integers, Sequences, Selection

CONSTANTS Ids,        \* advisory IDs
          Pins,       \* go-version entries workflows may hold
          ScannerLines, \* lines gate targets may print
          MakeLines,  \* lines of Makefile and Makefile.precommit
          ListLines,  \* lines of .osv-scanner.toml and .trivyignore
          Targets,    \* gate targets, in knownGateTargets order
          MaxOutput,  \* bound: lines a target prints
          MaxMakeLines \* bound: lines of a Makefile

TrivyStatusValues == {"fixed", "affected", "will_not_fix", "not_affected", "end_of_life"}

(* A literal, a list or a ${{ }} template, under strategy.matrix or not,   *)
(* and written as a YAML alias or not.                                     *)
PinType == [value : {"literal", "list", "template"}, matrix : BOOLEAN, alias : BOOLEAN]

(* fix: the line names a fixed version; status: trivy's Status cell.       *)
LineType == [layout : {"osv", "govulncheck", "legacy", "current", "plain"},
             ids : Seq(Ids), fix : BOOLEAN, status : STRING]

(* An assignment of VULNCHECK_IGNORE, the same commented out, or any other *)
(* line; more: it ends with a backslash.                                   *)
MakeLineType == [kind : {"assign", "comment", "other"}, ids : Seq(Ids), more : BOOLEAN]

ListLineType == [kind : {"entry", "comment"}, ids : Seq(Ids)]

ASSUME RepoFactsAssumption ==
    /\ Pins \subseteq PinType
    /\ ScannerLines \subseteq LineType
    /\ MakeLines \subseteq MakeLineType
    /\ ListLines \subseteq ListLineType
    /\ Targets \in Seq(STRING) \ {<<>>}
    /\ MaxOutput \in Nat /\ MaxMakeLines \in Nat

VARIABLES factsStage,  \* "pins", "gates", "suppress", "model", "parked", "failed"
          repo,        \* what the clone holds, and what its targets print
          table,       \* ScannerTable
          suppressed,
          done         \* gate targets that have run

factsVars == <<factsStage, repo, table, suppressed, done>>

Scanners == {"osv-scanner", "govulncheck", "trivy"} \cup {Targets[t] : t \in DOMAIN Targets}

Rows == [id : Ids, fixed : {"fix", "installed", "none"}, scanner : Scanners]

UpTo(n, S) == UNION {[1..k -> S] : k \in 0..n}

IdsIn(lines) == UNION {{lines[i].ids[j] : j \in DOMAIN lines[i].ids} : i \in DOMAIN lines}

Repos == [pins : SUBSET Pins,
          output : [DOMAIN Targets -> UpTo(MaxOutput, ScannerLines)],
          green : [DOMAIN Targets -> BOOLEAN],
          make : UpTo(MaxMakeLines, MakeLines),
          lists : UpTo(1, ListLines)]

FactsInit(repos) ==
    /\ factsStage = "pins"
    /\ repo \in repos
    /\ table = <<>> /\ suppressed = {} /\ done = 0

-----------------------------------------------------------------------------
(* classifyGoVersionPins: an alias is neither a scalar nor a sequence.     *)
PlainPins(pins) == {p \in pins : p.value = "literal" /\ ~p.matrix /\ ~p.alias}

ScanWorkflowGoVersionPins ==
    /\ factsStage = "pins"
    /\ factsStage' = IF PlainPins(repo.pins) # {} THEN "parked" ELSE "gates"
    /\ UNCHANGED <<repo, table, suppressed, done>>

-----------------------------------------------------------------------------
(* parseTrivyLine: the cells behind the ID, and which of them is taken for *)
(* the fixed version.                                                      *)
Cells(l) ==
    LET fix == IF l.fix THEN "fix" ELSE "none"
    IN  IF l.layout = "current" THEN <<"severity", l.status, "installed", fix, "title">>
        ELSE <<"severity", "installed", fix, "title">>

FixedCell(cells) == cells[IF cells[2] \in TrivyStatusValues THEN 4 ELSE 3]

ScannerForTarget(target) == IF target = "vulncheck" THEN "govulncheck" ELSE target

ScannerFindingForLine(target, l) ==
    LET Row(fixed, scanner) == [id |-> l.ids[1], fixed |-> fixed, scanner |-> scanner]
        fix == IF l.fix THEN "fix" ELSE "none"
    IN  CASE l.layout = "osv" -> Row(fix, "osv-scanner")
          [] l.layout = "govulncheck" -> Row(fix, "govulncheck")
          [] l.layout \in {"legacy", "current"} -> Row(FixedCell(Cells(l)), "trivy")
          [] OTHER -> Row("none", ScannerForTarget(target))

NamesAnId(lines) == {i \in DOMAIN lines : lines[i].ids # <<>>}

(* Mutant: lines of no known layout are no findings.                       *)
ParseKnownLayouts(target, lines) ==
    LET found == KeepAt(lines, {i \in NamesAnId(lines) : lines[i].layout # "plain"})
    IN  [i \in DOMAIN found |-> ScannerFindingForLine(target, found[i])]

(* One row for every line that names an ID, of the first ID it names.      *)
ParseScannerOutput(target, lines) ==
    LET found == KeepAt(lines, NamesAnId(lines))
    IN  [i \in DOMAIN found |-> ScannerFindingForLine(target, found[i])]

(* The loop of buildScannerTable.                                          *)
RunTarget ==
    /\ factsStage = "gates"
    /\ LET rows == ParseScannerOutput(Targets[done + 1], repo.output[done + 1])
       IN  IF ~repo.green[done + 1] /\ rows = <<>>
           THEN /\ factsStage' = "parked"
                /\ UNCHANGED <<table, done>>
           ELSE /\ table' = table \o rows
                /\ done' = done + 1
                /\ factsStage' = IF done' = Len(Targets) THEN "suppress" ELSE "gates"
    /\ UNCHANGED <<repo, suppressed>>

-----------------------------------------------------------------------------
(* The line a value that starts at i ends in.                              *)
LastLine(ls, i) ==
    CHOOSE j \in i..Len(ls) : /\ \A k \in i..(j - 1) : ls[k].more
                              /\ ls[j].more => j = Len(ls)

(* A line that names the variable and has an equals sign begins a value;   *)
(* what stands in front of the name is not looked at.                      *)
ExtractVulnCheckIgnore(ls) ==
    UNION {IdsIn(SubSeq(ls, i, LastLine(ls, i))) :
             i \in {k \in DOMAIN ls : ls[k].kind \in {"assign", "comment"}}}

(* .osv-scanner.toml and .trivyignore: the first ID of an entry.           *)
ExtractListed(ls) ==
    {ls[i].ids[1] : i \in {k \in DOMAIN ls : ls[k].kind = "entry" /\ ls[k].ids # <<>>}}

LoadSuppressedVulnIDs ==
    /\ factsStage = "suppress"
    /\ LET ids == ExtractVulnCheckIgnore(repo.make) \cup ExtractListed(repo.lists)
       IN  /\ suppressed' = ids
           /\ table' = KeepAt(table, {i \in DOMAIN table : table[i].id \notin ids})
    /\ factsStage' = "model"
    /\ UNCHANGED <<repo, done>>

(* A surface that is there and cannot be read.                             *)
FailToLoad == /\ factsStage = "suppress"
              /\ factsStage' = "failed"
              /\ UNCHANGED <<repo, table, suppressed, done>>

FactsOver == factsStage \in {"model", "parked", "failed"} /\ UNCHANGED factsVars

FactsNext == \/ ScanWorkflowGoVersionPins \/ RunTarget
             \/ LoadSuppressedVulnIDs \/ FailToLoad \/ FactsOver

-----------------------------------------------------------------------------
InTable(id) == \E i \in DOMAIN table : table[i].id = id

(* The operator's word: IDs in a value make itself assigns, and entries.   *)
FirstLine(ls, j) ==
    CHOOSE i \in 1..j : /\ \A k \in i..(j - 1) : ls[k].more
                        /\ i = 1 \/ ~ls[i - 1].more

Approved ==
    (UNION {IdsIn(<<repo.make[j]>>) :
              j \in {k \in DOMAIN repo.make :
                       repo.make[FirstLine(repo.make, k)].kind = "assign"}})
      \cup ExtractListed(repo.lists)

(* The IDs the reader is shown: those on a line that mentions the variable *)
(* or behind the backslash of one, commented out or not, and entries.      *)
Named ==
    (UNION {IdsIn(<<repo.make[j]>>) :
              j \in {k \in DOMAIN repo.make :
                       \E i \in 1..k : /\ repo.make[i].kind # "other"
                                      /\ \A m \in i..(k - 1) : repo.make[m].more}})
      \cup ExtractListed(repo.lists)

(* What a row may say of the line it was made of.  A Status that is not    *)
(* among TrivyStatusValues shifts the cells: the version that is installed *)
(* is then taken for the one with the fix, see BothShapesParse.            *)
Tells(l, row) ==
    /\ l.ids # <<>> /\ l.ids[1] = row.id
    /\ row.fixed = "fix" => l.fix
    /\ row.fixed = "installed" => l.layout = "current" /\ l.status \notin TrivyStatusValues
    /\ row.fixed = "none" => ~l.fix \/ l.layout = "plain"

FirstIds ==
    UNION {{repo.output[t][i].ids[1] :
              i \in {k \in DOMAIN repo.output[t] : repo.output[t][k].ids # <<>>}} :
             t \in DOMAIN Targets}

Printed == UNION {IdsIn(repo.output[t]) : t \in DOMAIN Targets}

(* The type of every variable; rows come from targets that have run.       *)
FactsTypeOK == /\ factsStage \in {"pins", "gates", "suppress", "model", "parked", "failed"}
               /\ table \in Seq(Rows)
               /\ suppressed \in SUBSET Ids
               /\ done \in 0..Len(Targets)
               /\ factsStage = "model" => done = Len(Targets)

(* Every row comes from a line of a target that has run, with the fix that *)
(* names and no other, in every layout: only a Status the reader does not  *)
(* know makes the installed version the target of a go get.                *)
FixIsReported ==
    \A i \in DOMAIN table :
        \E t \in 1..done : \E k \in DOMAIN repo.output[t] : Tells(repo.output[t][k], table[i])

(* No finding a line begins with is lost between the targets and the       *)
(* model, unless the clone names it where suppressions are read.           *)
LiveFindingIsKept ==
    factsStage = "model" => \A id \in FirstIds \ Named : InTable(id)

(* A finding the operator has approved as having no fix never reaches the  *)
(* model, on whichever line of a value its ID stands.                      *)
ApprovedIsSuppressed == factsStage = "model" => \A id \in Approved : ~InTable(id)

(* What planning takes for the facts: the findings of the targets, whole   *)
(* and with the fix of their lines, less the suppressions; whatever Status *)
(* trivy prints, and wherever a Makefile mentions the variable.            *)
TableIsFaithful == /\ FactsTypeOK
                   /\ FixIsReported
                   /\ LiveFindingIsKept
                   /\ ApprovedIsSuppressed

-----------------------------------------------------------------------------
(* Statements of comments and specs the code does not keep.                *)

(* parseScannerOutput: "any other ID-bearing line yields a row [...] so no *)
(* finding is ever lost from the ground truth".                            *)
NoFindingIsLost == factsStage = "model" => \A id \in Printed \ Approved : InTable(id)

(* loadSuppressedVulnIDs: it "returns the set of advisory IDs the operator *)
(* has approved as no-fix".                                                *)
SuppressedIsApproved == suppressed \subseteq Approved

(* parseTrivyLine: "Detect the current layout by the Status cell's value   *)
(* so both shapes parse".                                                  *)
BothShapesParse == \A i \in DOMAIN table : table[i].fixed # "installed"

(* specs/in-progress/006: "an empty-on-error gate output is still never    *)
(* read as a clean gate": a red target leaves the model a finding.         *)
RedGateIsNotClean ==
    factsStage = "model" /\ (\E t \in DOMAIN Targets : ~repo.green[t]) => table # <<>>

(* workflow_pin.go: the scan "classifies every `go-version:` pin as plain  *)
(* (single value -> hardcoded) or matrix", and "YAML anchors/aliases are   *)
(* followed by the parser".                                                *)
HardcodedPinParks ==
    (\E p \in repo.pins : p.value = "literal" /\ ~p.matrix) => factsStage # "model"
=============================================================================
