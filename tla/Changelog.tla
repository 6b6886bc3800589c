----------------------------- MODULE Changelog ------------------------------
(***************************************************************************)
(* CHANGELOG.md between the update and its review: EnsureChangelog of      *)
(* pkg/changelog.go, which execution runs before the commit, and           *)
(* checkChangelog of pkg/steps_review.go, which reads the file the branch  *)
(* carries.  The two cut the file into sections by rules of their own.     *)
(*                                                                         *)
(* A file is its lines, each abstracted to what either reader tells apart, *)
(* and whether the last line ends with a newline.                          *)
(***************************************************************************)
EXTENDS Integers, Sequences

CONSTANTS Kinds,      \* kinds of lines files are made of
          Versions,   \* version headers, "## v1.2.3"
          MaxLines,   \* bound: lines of the file on the default branch
          Edits,      \* kinds of the line the update may add
          Endings,    \* TRUE: files may end with a newline, FALSE: without one
          MayBeAbsent \* the default branch may have no CHANGELOG.md

UnreleasedKinds == {"unreleased",  \* "## Unreleased"
                    "glued"}       \* "## Unreleased- chore: ...", one line

HeadingKinds == UnreleasedKinds \cup Versions
                  \cup {"heading",   \* "## " and anything else
                        "indented"}  \* the same behind spaces

PrefixedKinds == {"prefixed",      \* "- fix: ..."
                  "ours"}          \* the bullet EnsureChangelog writes

BulletKinds == PrefixedKinds \cup {"bullet"}   \* "- ...", "* ...", a nested one

LineKinds == HeadingKinds \cup BulletKinds
               \cup {"text", "blank",
                     "mention"}    \* text with "## Unreleased" in its middle

ASSUME ChangelogAssumption ==
    /\ Kinds \subseteq LineKinds
    /\ Edits \subseteq LineKinds
    /\ Versions \cap (UnreleasedKinds \cup BulletKinds
                        \cup {"heading", "indented", "text", "blank", "mention"}) = {}
    /\ MaxLines \in Nat
    /\ Endings \subseteq BOOLEAN
    /\ MayBeAbsent \in BOOLEAN

VARIABLES changelogStage,  \* "base", "edited", "written", "failed", "reviewed"
          base,    \* the file on origin/master
          before,  \* the file EnsureChangelog finds in the worktree
          work,    \* the file in the worktree
          verdict  \* review's changelog_unreleased

changelogVars == <<changelogStage, base, before, work, verdict>>

FileType == [lines : Seq(LineKinds), closed : BOOLEAN]

Absent == [lines |-> <<>>, closed |-> FALSE]

Files == {[lines |-> ls, closed |-> c] :
            ls \in UNION {[1..n -> Kinds] : n \in 0..MaxLines}, c \in Endings}

(* A file without a last newline has a last line, and it is not empty.     *)
IsFile(f) == f.closed \/ (f.lines # <<>> /\ f.lines[Len(f.lines)] # "blank")

-----------------------------------------------------------------------------
(* EnsureChangelog.                                                        *)

First(S) == CHOOSE i \in S : \A j \in S : i <= j

HeadingsOf(ls) == {i \in DOMAIN ls : ls[i] \in HeadingKinds}

UnreleasedOf(ls) == {i \in DOMAIN ls : ls[i] \in UnreleasedKinds}

NextHeading(ls, i) == First({j \in HeadingsOf(ls) : j > i} \cup {Len(ls) + 1})

HasPrefixedBullet(ls, from, to) == \E i \in from..to : ls[i] \in PrefixedKinds

(* What a line without a newline becomes when line is written behind it.   *)
Glued(last, line) ==
    CASE line = "unreleased" -> "mention"
      [] last = "unreleased" -> "glued"
      [] OTHER -> last

Insert(f, i, new) ==
    LET n == Len(f.lines)
    IN  IF i > n /\ ~f.closed
        THEN [lines |-> SubSeq(f.lines, 1, n - 1)
                          \o <<Glued(f.lines[n], new[1])>> \o SubSeq(new, 2, Len(new)),
              closed |-> TRUE]
        ELSE [lines |-> SubSeq(f.lines, 1, i - 1) \o new \o SubSeq(f.lines, i, n),
              closed |-> f.closed]

Bullet == <<"ours", "blank">>

Section == <<"unreleased", "blank">> \o Bullet

Preamble == <<"text", "blank", "text", "blank", "text", "blank",
              "bullet", "bullet", "bullet", "blank", "blank">>

NewFile == [lines |-> Preamble \o <<"unreleased", "blank", "ours">>, closed |-> TRUE]

(* Mutant: the end of the section is not looked for.                       *)
EnsureAtEnd(f) ==
    LET ls == f.lines
        h == First(UnreleasedOf(ls))
    IN  IF UnreleasedOf(ls) = {} THEN Insert(f, NextHeading(ls, 0), Section)
        ELSE IF HasPrefixedBullet(ls, h, NextHeading(ls, h) - 1) THEN f
        ELSE Insert(f, Len(ls) + 1, Bullet)

EnsureUnreleasedBullet(f) ==
    LET ls == f.lines
        h == First(UnreleasedOf(ls))
    IN  IF UnreleasedOf(ls) = {} THEN Insert(f, NextHeading(ls, 0), Section)
        ELSE IF HasPrefixedBullet(ls, h, NextHeading(ls, h) - 1) THEN f
        ELSE Insert(f, NextHeading(ls, h), Bullet)

-----------------------------------------------------------------------------
(* checkChangelog.                                                         *)

HasUnreleasedBullet(ls) ==
    LET found == {i \in DOMAIN ls : ls[i] \in UnreleasedKinds \cup {"mention"}}
        start == First(found)
        end == First({j \in HeadingsOf(ls) : j > start /\ ls[j] # "indented"}
                       \cup {Len(ls) + 1})
    IN  /\ found # {}
        /\ \/ ls[start] = "glued"
           \/ \E i \in (start + 1)..(end - 1) : ls[i] \in BulletKinds

VersionHeaders(f) == {f.lines[i] : i \in DOMAIN f.lines} \cap Versions

Clean(f) == /\ f # Absent
            /\ HasUnreleasedBullet(f.lines)
            /\ VersionHeaders(f) \subseteq VersionHeaders(base)

-----------------------------------------------------------------------------
BaseFiles == {f \in Files : IsFile(f)} \cup (IF MayBeAbsent THEN {Absent} ELSE {})

ChangelogInit(files) ==
    /\ changelogStage = "base"
    /\ base \in files
    /\ before = base /\ work = base
    /\ verdict = FALSE

(* The update leaves the file alone, writes a line into it or begins one.  *)
Update ==
    /\ changelogStage = "base"
    /\ changelogStage' = "edited"
    /\ \/ work' = work
       \/ \E k \in Edits :
            IF work = Absent THEN work' = [lines |-> <<k>>, closed |-> TRUE]
            ELSE \E i \in 1..(Len(work.lines) + 1) : work' = Insert(work, i, <<k>>)
    /\ before' = work'
    /\ UNCHANGED <<base, verdict>>

(* EnsureChangelog; it writes nothing when a go.mod it needs for the       *)
(* bullet does not parse or the file cannot be read.                       *)
EnsureChangelog ==
    /\ changelogStage = "edited"
    /\ changelogStage' = "written"
    /\ work' = IF work = Absent THEN NewFile ELSE EnsureUnreleasedBullet(work)
    /\ UNCHANGED <<base, before, verdict>>

FailToWrite ==
    /\ changelogStage = "edited"
    /\ changelogStage' = "failed"
    /\ UNCHANGED <<base, before, work, verdict>>

(* Review runs on the branch, with the base's file next to it: without     *)
(* that file git show fails and the check with it.                         *)
CheckChangelog ==
    /\ changelogStage = "written"
    /\ changelogStage' = "reviewed"
    /\ verdict' = (Clean(work) /\ base # Absent)
    /\ UNCHANGED <<base, before, work>>

ChangelogOver == changelogStage \in {"failed", "reviewed"} /\ UNCHANGED changelogVars

ChangelogNext == \/ Update \/ EnsureChangelog \/ FailToWrite
                 \/ CheckChangelog \/ ChangelogOver

-----------------------------------------------------------------------------
Written == changelogStage \in {"written", "reviewed"}

(* Every line EnsureChangelog found ends with a newline.                   *)
Terminated == before.closed \/ before = Absent

Mentions(f) == \E i \in DOMAIN f.lines : f.lines[i] = "mention"

(* The type of every variable; what is committed is a file.                *)
ChangelogTypeOK == /\ changelogStage \in {"base", "edited", "written", "failed", "reviewed"}
                   /\ base \in FileType /\ before \in FileType /\ work \in FileType
                   /\ verdict \in BOOLEAN
                   /\ Written => IsFile(work)

(* The file that is committed has an Unreleased section with a bullet that *)
(* names its kind of change, whatever sections the file had.               *)
Guaranteed ==
    LET ls == work.lines
        h == First(UnreleasedOf(ls))
    IN  /\ UnreleasedOf(ls) # {}
        /\ HasPrefixedBullet(ls, h, NextHeading(ls, h) - 1)

SectionGuaranteed == Written /\ Terminated => Guaranteed

(* EnsureChangelog never touches the lines in front of the first heading:  *)
(* the preamble is frozen.                                                 *)
PreambleIsFrozen ==
    Written /\ before.closed =>
        \A i \in 1..(NextHeading(before.lines, 0) - 1) : work.lines[i] = before.lines[i]

(* A section of a released version is the same after EnsureChangelog: its  *)
(* bullet never goes into the notes of a release, wherever they stand.     *)
SectionAt(ls, i) == SubSeq(ls, i, NextHeading(ls, i) - 1)

ReleasedSectionsAreFrozen ==
    Written /\ before.closed =>
        \A i \in DOMAIN before.lines : before.lines[i] \in Versions =>
            \E j \in DOMAIN work.lines :
                SectionAt(work.lines, j) = SectionAt(before.lines, i)

(* A second run over the same worktree, as after a repair or on a branch   *)
(* that already has its entry, adds no second bullet.                      *)
WritingIsIdempotent == Written /\ Terminated => EnsureUnreleasedBullet(work) = work

(* Review, with its own way of finding the section, accepts what execution *)
(* wrote unless the update itself added a version header.                  *)
ReviewAcceptsWritten ==
    /\ changelogStage = "reviewed" /\ base # Absent
    /\ Terminated /\ ~Mentions(before)
    /\ VersionHeaders(work) \subseteq VersionHeaders(base)
    => verdict

(* What EnsureChangelog promises of a file whose lines are terminated:     *)
(* a section with a bullet, nothing else touched, nothing done twice, and  *)
(* a file review accepts.                                                  *)
WrittenIsSound == /\ ChangelogTypeOK
                  /\ SectionGuaranteed
                  /\ PreambleIsFrozen
                  /\ ReleasedSectionsAreFrozen
                  /\ WritingIsIdempotent
                  /\ ReviewAcceptsWritten

-----------------------------------------------------------------------------
(* Statements of the comments the code does not keep.                      *)

(* changelog.go, ensureUnreleasedBullet: "returns content guaranteeing a   *)
(* `## Unreleased` section after the preamble (inserting it when absent)   *)
(* that carries at least one conventional-prefix bullet".                  *)
AlwaysGuaranteed == Written => Guaranteed

(* steps_review.go, checkChangelog: it "verifies CHANGELOG.md on the       *)
(* branch carries at least one bullet under ## Unreleased and introduces   *)
(* NO new version header compared to origin/master"; a file execution      *)
(* began does both.                                                        *)
NewFileIsAccepted == changelogStage = "reviewed" /\ Clean(work) => verdict

(* steps_review.go, hasUnreleasedBullet: it "reports whether the           *)
(* ## Unreleased section contains at least one markdown bullet before the  *)
(* next ## heading".                                                       *)
ReviewReadsTheSection ==
    LET ls == work.lines
        h == First(UnreleasedOf(ls))
    IN  changelogStage = "reviewed" /\ UnreleasedOf(ls) # {} /\ before.closed =>
          (HasUnreleasedBullet(ls) <=>
              \/ ls[h] = "glued"
              \/ \E i \in h..(NextHeading(ls, h) - 1) : ls[i] \in BulletKinds)
=============================================================================
