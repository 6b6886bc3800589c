----------------------------- MODULE MCReaders ------------------------------
(* Readers.tla on small inputs: two advisory IDs and the lines that tell   *)
(* layouts, values and entries apart; files of a few lines; answers of a   *)
(* few tokens; a module, one nested in it and one beside it.               *)
EXTENDS Readers

-----------------------------------------------------------------------------
(* RepoFacts.tla                                                           *)
CONSTANTS a, b

Line(layout, ids, fix, status) ==
    [layout |-> layout, ids |-> ids, fix |-> fix, status |-> status]

(* Every layout, with and without a fixed version, a status of trivy's     *)
(* that is not among TrivyStatusValues, and noise.                         *)
SingleLines ==
    {Line("osv", <<a>>, TRUE, ""), Line("govulncheck", <<b>>, TRUE, ""),
     Line("legacy", <<a>>, TRUE, ""), Line("legacy", <<b>>, FALSE, ""),
     Line("current", <<a>>, TRUE, "fixed"), Line("current", <<b>>, FALSE, "affected"),
     Line("current", <<a>>, FALSE, "fix_deferred"),
     Line("plain", <<b>>, FALSE, ""), Line("plain", <<>>, FALSE, "")}

NoLines == {Line("plain", <<>>, FALSE, "")}

PairLines == {Line("plain", <<a, b>>, FALSE, ""), Line("osv", <<a>>, TRUE, "")}

Make(kind, ids, more) == [kind |-> kind, ids |-> ids, more |-> more]

(* Values of one line and of two, and a commented one make does not read.  *)
SomeMakeLines == {Make("assign", <<a>>, FALSE), Make("assign", <<>>, TRUE),
                  Make("comment", <<b>>, TRUE), Make("other", <<b>>, FALSE)}

NoMake == {}

ListEntries == {[kind |-> "entry", ids |-> <<b, a>>], [kind |-> "comment", ids |-> <<a>>]}

NoEntries == {}

Pin(value, matrix, alias) == [value |-> value, matrix |-> matrix, alias |-> alias]

DirectPins == {Pin("literal", FALSE, FALSE), Pin("literal", TRUE, FALSE)}

AliasPins == {Pin("literal", FALSE, TRUE), Pin("list", TRUE, FALSE)}

NoPins == {}

TwoTargets == <<"check", "vulncheck">>

OneTarget == <<"precommit">>

-----------------------------------------------------------------------------
(* Changelog.tla                                                           *)
MCVersions == {"v1"}

MCKinds == {"text", "blank", "mention", "unreleased", "heading", "indented",
            "prefixed", "bullet", "v1"}

MentionKinds == MCKinds \ {"indented"}

(* Without lines that mention the heading, and without indented headings.  *)
PlainKinds == {"text", "blank", "unreleased", "prefixed", "bullet", "v1"}

MCEdits == {"unreleased", "prefixed", "bullet", "v1"}

BothEndings == {TRUE, FALSE}

Newline == {TRUE}

-----------------------------------------------------------------------------
(* LLMJson.tla: in PlainTokens no string holds a brace.                    *)
PlainTokens == {"open", "close", "member", "word", "fence"}

BraceTokens == {"open", "close", "closeInString", "word"}

-----------------------------------------------------------------------------
(* AdvisoryCheck.tla                                                       *)
Root == <<"m">>
Nested == <<"m", "a">>
Package == <<"m", "a", "p">>
Other == <<"m", "b">>

MCPaths == {Root, Nested, Package, Other}

Module(path, installed, built, packages) ==
    [path |-> path, installed |-> installed, built |-> built, packages |-> packages]

MCModuleVersions == 1..3

Known == MCModuleVersions \cup {NoVersion}

(* What go list prints is what is built, and the longest path provides.    *)
PlainGraphs ==
    {{Module(Root, v, v, {Root}), Module(Nested, w, w, {Nested, Package}),
      Module(Other, 3, 3, {Other})} : v, w \in Known}
      \cup {{Module(Root, v, v, {Root, Nested, Package}), Module(Other, 3, 3, {Other})} :
              v \in Known}
      \cup {{Module(Other, 3, 3, {Other})}}

(* A replace directive keeps another version.                              *)
ReplacedGraphs == {{Module(Root, v, w, {Root, Nested, Package})} : v, w \in MCModuleVersions}

(* The package stayed where it was when a nested module was split off.     *)
SplitGraphs ==
    {{Module(Root, v, v, {Root, Package}), Module(Nested, w, w, {Nested})} :
       v, w \in MCModuleVersions}
=============================================================================
