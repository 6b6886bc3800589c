--------------------------- MODULE AdvisoryCheck ----------------------------
(***************************************************************************)
(* The external advisory of a task, from the frontmatter to the verdict:   *)
(* planning admits the block (pkg/advisory.go), review reads it again and  *)
(* holds it against the module graph of the branch (checkAdvisories of     *)
(* pkg/steps_review.go, pkg/module_versions.go).  Pipeline takes the       *)
(* advisory's state for granted; here is how it is determined.             *)
(*                                                                         *)
(* A path is the sequence of its segments, a version a number.             *)
(***************************************************************************)
EXTENDS Integers, Sequences, SequencesExt

CONSTANTS Paths,       \* paths of modules and packages
          ModuleVersions, \* comparable versions, naturals
          Graphs,      \* module graphs a branch may have
          MaxEdits     \* bound: edits of the frontmatter

NoVersion == -1  \* of the main module, and of what semver cannot read

(* installed: the version go list prints; built: the one that is compiled, *)
(* another one under a replace directive; packages: what it provides.      *)
ModuleType == [path : Paths, installed : ModuleVersions \cup {NoVersion},
               built : ModuleVersions \cup {NoVersion}, packages : SUBSET Paths]

(* The advisory entry: absent, of the wrong shape, or a mapping each key   *)
(* of which is missing or malformed, or not.                               *)
MappingType == [id : BOOLEAN, package : Paths \cup {<<>>}, source : BOOLEAN,
                fixed : ModuleVersions \cup {NoVersion}]

ASSUME AdvisoryCheckAssumption ==
    /\ ModuleVersions \subseteq Nat
    /\ <<>> \notin Paths
    /\ Graphs \subseteq SUBSET ModuleType /\ Graphs # {}
    /\ MaxEdits \in Nat

VARIABLES
    entry,     \* [kind, map] of the task's frontmatter
    graph,     \* of the branch under review
    advisoryStage,  \* "planning", "review", "verdict", "needs_input"
    row,       \* the advisory's row of the findings table
    clear,     \* ReviewChecks.VulnsClear
    judged,    \* the block review went by
    edits

advisoryVars == <<entry, graph, advisoryStage, row, clear, judged, edits>>

NoBlock == [id |-> FALSE, package |-> <<>>, source |-> FALSE, fixed |-> NoVersion]

Entries == [kind : {"none", "list"}, map : {NoBlock}]
             \cup [kind : {"mapping"}, map : MappingType]

AdvisoryInit(entries, graphs) ==
    /\ entry \in entries
    /\ graph \in graphs
    /\ advisoryStage = "planning"
    /\ row = NoBlock /\ judged = NoBlock
    /\ clear = FALSE /\ edits = 0

-----------------------------------------------------------------------------
(* parseAdvisoryBlock: a mapping with all four keys, each well-formed.     *)
IsAdvisoryBlock(m) == m.id /\ m.source /\ m.package # <<>> /\ m.fixed # NoVersion

IsMalformed(e) == e.kind = "list" \/ (e.kind = "mapping" /\ ~IsAdvisoryBlock(e.map))

Admit ==
    /\ advisoryStage = "planning"
    /\ IF IsMalformed(entry)
       THEN advisoryStage' = "needs_input" /\ UNCHANGED row
       ELSE /\ advisoryStage' = "review"
            /\ row' = entry.map
    /\ UNCHANGED <<entry, graph, clear, judged, edits>>

(* moduleForPackage: the longest path that is a prefix, segment by         *)
(* segment.                                                                *)
ModuleForPackage(modules, pkg) ==
    LET providing == {m \in modules : IsPrefix(m.path, pkg)}
    IN  {m \in providing : \A n \in providing : Len(n.path) <= Len(m.path)}

IsSatisfied(modules, block) ==
    \E m \in ModuleForPackage(modules, block.package) :
        m.installed # NoVersion /\ m.installed >= block.fixed

(* Mutant: review goes by the row planning admitted.                       *)
CheckAdmittedRow ==
    /\ advisoryStage = "review"
    /\ advisoryStage' = "verdict"
    /\ judged' = row
    /\ \E green \in BOOLEAN, listed \in BOOLEAN :
          clear' = (green /\ (row = NoBlock \/ (listed /\ IsSatisfied(graph, row))))
    /\ UNCHANGED <<entry, graph, row, edits>>

(* checkGates and checkAdvisories; listed: go list answered in time.       *)
CheckAdvisories ==
    /\ advisoryStage = "review"
    /\ advisoryStage' = "verdict"
    /\ judged' = entry.map
    /\ \E green \in BOOLEAN, listed \in BOOLEAN :
          clear' = /\ green
                   /\ ~IsMalformed(entry)
                   /\ entry.kind = "mapping" => listed /\ IsSatisfied(graph, entry.map)
    /\ UNCHANGED <<entry, graph, row, edits>>

(* The frontmatter is corrected, or spoiled, by hand between the phases;   *)
(* a task that was handed back is planned again.                           *)
Edit ==
    /\ edits < MaxEdits
    /\ advisoryStage \in {"review", "needs_input"}
    /\ entry' \in Entries \ {entry}
    /\ edits' = edits + 1
    /\ advisoryStage' = IF advisoryStage = "needs_input" THEN "planning" ELSE advisoryStage
    /\ UNCHANGED <<graph, row, clear, judged>>

AdvisoryOver == advisoryStage \in {"verdict", "needs_input"} /\ UNCHANGED advisoryVars

AdvisoryNext == Admit \/ CheckAdvisories \/ Edit \/ AdvisoryOver

-----------------------------------------------------------------------------
Provides(m, block) == block.package \in m.packages

Cleared == advisoryStage = "verdict" /\ clear /\ judged # NoBlock

(* The type of every variable; no partial row is ever admitted.            *)
AdvisoryTypeOK == /\ entry \in Entries
                  /\ graph \in Graphs
                  /\ advisoryStage \in {"planning", "review", "verdict", "needs_input"}
                  /\ row = NoBlock \/ IsAdvisoryBlock(row)
                  /\ clear \in BOOLEAN
                  /\ judged \in MappingType
                  /\ edits \in 0..MaxEdits

(* A verdict that clears an advisory is about the version that provides    *)
(* its package, and that version is known and high enough.                 *)
ClearedIsInstalled ==
    Cleared => \E m \in graph : /\ Provides(m, judged)
                                /\ m.installed >= judged.fixed

(* A block spoiled between planning and review is not cleared, nor is one  *)
(* cleared for what planning read.                                         *)
SpoiledBlockFailsClosed ==
    advisoryStage = "verdict" /\ clear => ~IsMalformed(entry) /\ judged = entry.map

(* An advisory is cleared by what the branch provides and by the block the *)
(* task has when it is reviewed.                                           *)
ClearingIsSound == /\ AdvisoryTypeOK
                   /\ ClearedIsInstalled
                   /\ SpoiledBlockFailsClosed

-----------------------------------------------------------------------------
(* Statements of docs and comments the code does not keep.                 *)

(* specs/in-progress/007: "every external advisory resolves to an          *)
(* installed version at or above its fixed_version".                       *)
BuiltVersionIsFixed ==
    Cleared => \A m \in graph : Provides(m, judged) => m.built >= judged.fixed

(* checkAdvisories: "resolves the installed version of the module          *)
(* providing the advisory's package".                                      *)
ProviderIsJudged ==
    Cleared => \A m \in graph : Provides(m, judged) => m.installed >= judged.fixed
=============================================================================
