------------------------------ MODULE Worktree ------------------------------
(***************************************************************************)
(* The tools that change files of the working tree (fs_tools.py,           *)
(* ast_tools.py): whole-file operations, patches, and renames driven by    *)
(* references resolved earlier.  A file is its lines, a line its           *)
(* characters; Old is the symbol renamed.  Tools run one after another.    *)
(***************************************************************************)
EXTENDS Integers, Sequences, FiniteSets, SequencesExt

CONSTANTS
    Paths,         \* files of the tree, all in its root
    Characters,    \* what a line is made of
    Letters,       \* characters of an identifier
    Texts,         \* what the agent wants a file to say: sequences of lines
    Old, New,      \* a symbol and the name it gets: sequences of letters
    MaxHunks,      \* hunks the agent puts into a patch (a bound)
    MaxTools,      \* tools called on the tree in one behaviour (a bound)
    MaxLines,      \* lines of a file (a bound)
    MaxWidth       \* characters of a line (a bound)

Line == Seq(Characters)
Blank == <<>>

Short(lines) == Len(lines) <= MaxLines /\ \A i \in DOMAIN lines : Len(lines[i]) <= MaxWidth

ASSUME TreeAssumption ==
    /\ Letters \subseteq Characters
    /\ \A text \in Texts : text \in Seq(Line) /\ Short(text)
    /\ \A name \in {Old, New} : name \in Seq(Letters) /\ name # <<>>
    /\ MaxHunks \in Nat /\ MaxTools \in Nat /\ MaxLines \in Nat /\ MaxWidth \in Nat

VARIABLES
    tree,          \* what every path holds
    references,    \* the sites of the RefList the agent was last given
    patch,         \* the sections of the patch the agent has written
    report,        \* the latest tool and how it ended
    tools          \* how many were called

vars == <<tree, references, patch, report, tools>>

(* A file is its lines and whether the last of them ends in a newline.     *)
Absent == [kind |-> "absent"]
Dir == [kind |-> "dir"]
File(lines, ended) == [kind |-> "file", lines |-> lines, ended |-> ended]
IsFile(entry) == entry.kind = "file"
Written(text) == File(text, text # <<>>)

(* A file may also break off in its last line.                             *)
Unended(text) == text # <<>> /\ Last(text) # Blank

(* What joining lines with newlines, and perhaps a last one, reads back as.*)
Joined(lines, ended) ==
    CASE ended -> File(IF lines = <<>> THEN <<Blank>> ELSE lines, TRUE)
      [] ~ended /\ lines # <<>> /\ Last(lines) = Blank -> Written(Front(lines))
      [] OTHER -> File(lines, FALSE)

Small(files) == \A path \in Paths : IsFile(files[path]) => Short(files[path].lines)

Init ==
    /\ tree \in [Paths -> {Written(text) : text \in Texts} \cup {Absent}
                            \cup {File(text, FALSE) : text \in {t \in Texts : Unended(t)}}]
    /\ references = {}
    /\ patch = <<>>
    /\ report = [tool |-> "none", how |-> "ok"]
    /\ tools = 0

-----------------------------------------------------------------------------
(* Files as a whole: write_file, delete, mkdir, move.  An error that is    *)
(* not a ToolError escapes the tool.                                       *)
Put(path, entry) == tree' = [tree EXCEPT ![path] = entry]
Ends(tool, how) ==
    /\ tools < MaxTools /\ tools' = tools + 1
    /\ report' = [tool |-> tool, how |-> how]
Untouched(tool, how) == UNCHANGED tree /\ Ends(tool, how)

WriteFile(path, text) ==
    /\ IF tree[path] = Dir
       THEN Untouched("write_file", "escaped")
       ELSE Put(path, Written(text)) /\ Ends("write_file", "ok")
    /\ UNCHANGED <<references, patch>>

DeletePath(path) ==
    /\ IF tree[path] = Absent
       THEN Untouched("delete", "refused")
       ELSE Put(path, Absent) /\ Ends("delete", "ok")
    /\ UNCHANGED <<references, patch>>

Mkdir(path) ==
    /\ IF IsFile(tree[path])
       THEN Untouched("mkdir", "escaped")
       ELSE Put(path, Dir) /\ Ends("mkdir", "ok")
    /\ UNCHANGED <<references, patch>>

(* A file moved onto another replaces it; what is moved into a directory   *)
(* leaves the paths modelled.                                              *)
Move(source, destination) ==
    /\ CASE tree[source] = Absent -> Untouched("move", "refused")
         [] tree[source] # Absent /\ source = destination -> Untouched("move", "ok")
         [] tree[source] # Absent /\ source # destination /\ tree[destination] = Dir ->
                \/ Put(source, Absent) /\ Ends("move", "ok")
                \/ Untouched("move", "escaped")
         [] tree[source] = Dir /\ IsFile(tree[destination]) -> Untouched("move", "escaped")
         [] OTHER ->
                /\ tree' = [tree EXCEPT ![destination] = tree[source], ![source] = Absent]
                /\ Ends("move", "ok")
    /\ UNCHANGED <<references, patch>>

-----------------------------------------------------------------------------
(* apply_patch.  A section is one file of the patch; its hunks are         *)
(* positions in the file as it was and lines to keep, drop or add.         *)
(* Faulty variant: what is dropped need not be there.                      *)
ConsumeUnchecked(state, entry) ==
    IF entry.tag = "+"
    THEN [state EXCEPT !.result = Append(@, entry.text)]
    ELSE [state EXCEPT
            !.fits = @ /\ state.cursor < Len(state.lines),
            !.cursor = @ + 1,
            !.result = IF entry.tag = " " THEN Append(@, entry.text) ELSE @]

(* One body line of a hunk, with cursor lines of the file consumed so far. *)
Consume(state, entry) ==
    IF entry.tag = "+"
    THEN [state EXCEPT !.result = Append(@, entry.text)]
    ELSE [state EXCEPT
            !.fits = /\ @ /\ state.cursor < Len(state.lines)
                     /\ state.lines[state.cursor + 1] = entry.text,
            !.cursor = @ + 1,
            !.result = IF entry.tag = " " THEN Append(@, entry.text) ELSE @]

(* Faulty variant: positions count from zero.                              *)
AlignFromZero(state, hunk) ==
    LET start == hunk.start
        aligned == start >= state.cursor /\ start <= Len(state.lines)
    IN  [state EXCEPT
            !.fits = @ /\ aligned,
            !.result = IF aligned THEN @ \o SubSeq(state.lines, state.cursor + 1, start) ELSE @,
            !.cursor = IF aligned THEN start ELSE @]

(* The lines up to a hunk are kept; it must not start before them.         *)
Align(state, hunk) ==
    LET start == hunk.start - 1
        aligned == start >= state.cursor /\ start <= Len(state.lines)
    IN  [state EXCEPT
            !.fits = @ /\ aligned,
            !.result = IF aligned THEN @ \o SubSeq(state.lines, state.cursor + 1, start) ELSE @,
            !.cursor = IF aligned THEN start ELSE @]

(* The states after each line of a body, and after each hunk.              *)
Consumed(state, body) ==
    LET after[n \in 0 .. Len(body)] ==
            IF n = 0 THEN state ELSE Consume(after[n - 1], body[n])
    IN  after

ApplyHunk(state, hunk) ==
    LET aligned == Align(state, hunk)
    IN  IF aligned.fits THEN Consumed(aligned, hunk.body)[Len(hunk.body)] ELSE aligned

Applied(lines, hunks) ==
    LET after[n \in 0 .. Len(hunks)] ==
            IF n = 0 THEN [lines |-> lines, cursor |-> 0, result |-> <<>>, fits |-> TRUE]
            ELSE ApplyHunk(after[n - 1], hunks[n])
    IN  after

(* _apply_hunks: whether the hunks fit, and the file they lead to.         *)
ApplyHunks(file, hunks) ==
    LET end == Applied(file.lines, hunks)[Len(hunks)]
    IN  [fits |-> end.fits,
         file |-> Joined(end.result \o SubSeq(file.lines, end.cursor + 1, Len(file.lines)),
                         file.ended)]

(* The lines of a body with one of some tags, after each line of the body. *)
Side(body, tags) ==
    LET side[n \in 0 .. Len(body)] ==
            IF n = 0 THEN <<>>
            ELSE IF body[n].tag \in tags THEN Append(side[n - 1], body[n].text)
            ELSE side[n - 1]
    IN  side

Bodies(hunks) == FlattenSeq([i \in DOMAIN hunks |-> hunks[i].body])

(* _created_content: the lines added; one blank line alone is lost.        *)
Created(hunks) ==
    LET body == Bodies(hunks)
        lines == Side(body, {"+"})[Len(body)]
    IN  Written(IF lines = <<Blank>> THEN <<>> ELSE lines)

(* _plan_file: whether a section can be applied, and what its file becomes.*)
Plannable(section) ==
    CASE section.kind = "delete" -> tree[section.path] # Absent
      [] section.kind = "create" -> TRUE
      [] section.kind = "change" -> /\ IsFile(tree[section.path])
                                    /\ ApplyHunks(tree[section.path], section.hunks).fits

Planned(section) ==
    CASE section.kind = "delete" -> Absent
      [] section.kind = "create" -> Created(section.hunks)
      [] section.kind = "change" -> ApplyHunks(tree[section.path], section.hunks).file

(* What the file system refuses: a file over a directory, the unlinking of *)
(* one, and the unlinking of what an earlier section unlinked.             *)
Unwritable(files, section) ==
    \/ files[section.path] = Dir
    \/ section.kind = "delete" /\ files[section.path] = Absent

WriteSection(state, section) ==
    IF state.failed \/ Unwritable(state.files, section)
    THEN [state EXCEPT !.failed = TRUE]
    ELSE [state EXCEPT !.files = [@ EXCEPT ![section.path] = Planned(section)]]

(* The sections written in turn, up to one the file system refuses.        *)
Committed(sections) ==
    LET after[n \in 0 .. Len(sections)] ==
            IF n = 0 THEN [files |-> tree, failed |-> FALSE]
            ELSE WriteSection(after[n - 1], sections[n])
    IN  after

Commit(sections) == Committed(sections)[Len(sections)]

(* Faulty variant: every section is written as soon as it is planned.      *)
ApplyEagerly ==
    LET fits == {i \in DOMAIN patch : \A j \in 1 .. i : Plannable(patch[j])}
        written == Commit(SubSeq(patch, 1, Cardinality(fits)))
    IN  /\ patch # <<>> /\ Small(written.files)
        /\ tree' = written.files
        /\ Ends("apply_patch", IF fits # DOMAIN patch THEN "refused"
                ELSE IF written.failed THEN "escaped" ELSE "ok")
        /\ UNCHANGED <<references, patch>>

(* Every section is planned against the tree as it was before any is       *)
(* written.  The agent may send the same patch again.                      *)
ApplyPatch ==
    /\ patch # <<>>
    /\ IF \A i \in DOMAIN patch : Plannable(patch[i])
       THEN LET written == Commit(patch)
            IN  /\ Small(written.files)
                /\ tree' = written.files
                /\ Ends("apply_patch", IF written.failed THEN "escaped" ELSE "ok")
       ELSE Untouched("apply_patch", "refused")
    /\ UNCHANGED <<references, patch>>

-----------------------------------------------------------------------------
(* The agent's patches: unified diffs from what a file holds when they are *)
(* written to what it should say.  A hunk replaces old lines by new ones,  *)
(* their common start being context; skip and rest are the lines around it.*)
Tagged(tag, lines) == [i \in DOMAIN lines |-> [tag |-> tag, text |-> lines[i]]]

Shared(old, new) ==
    Max({n \in 0 .. Len(old) : n <= Len(new) /\ SubSeq(old, 1, n) = SubSeq(new, 1, n)})

Body(old, new) ==
    LET common == Shared(old, new)
        Beyond(lines) == SubSeq(lines, common + 1, Len(lines))
    IN  Tagged(" ", SubSeq(old, 1, common)) \o Tagged("-", Beyond(old)) \o Tagged("+", Beyond(new))

Same(base, goal, skip, rest) ==
    /\ skip + rest < Len(base) /\ skip + rest <= Len(goal)
    /\ SubSeq(base, 1, skip) = SubSeq(goal, 1, skip)
    /\ SubSeq(base, Len(base) - rest + 1, Len(base)) = SubSeq(goal, Len(goal) - rest + 1, Len(goal))

Hunks(base, goal, offset) ==
    LET Between(lines, skip, rest) == SubSeq(lines, skip + 1, Len(lines) - rest)
        Hunk(skip, rest) == [start |-> offset + skip + 1,
                             body |-> Body(Between(base, skip, rest), Between(goal, skip, rest))]
    IN  {Hunk(part[1], part[2]) :
            part \in {p \in (0 .. Len(base)) \X (0 .. Len(base)) : Same(base, goal, p[1], p[2])}}

(* One hunk, or one on either side of a cut.                               *)
Diffs(base, goal) ==
    LET Below(lines, cut) == SubSeq(lines, cut + 1, Len(lines))
    IN  {<<hunk>> : hunk \in Hunks(base, goal, 0)}
        \cup UNION {Hunks(SubSeq(base, 1, i), SubSeq(goal, 1, j), 0)
                      \X Hunks(Below(base, i), Below(goal, j), i) :
                    i \in 1 .. Len(base), j \in 0 .. Len(goal)}

Change(path, hunks, goal) ==
    [path |-> path, kind |-> "change", hunks |-> hunks, base |-> tree[path], goal |-> goal]

Create(path, goal) ==
    [path |-> path, kind |-> "create", base |-> tree[path], goal |-> goal,
     hunks |-> <<[start |-> 0, body |-> Body(<<>>, goal)]>>]

Delete(path) ==
    [path |-> path, kind |-> "delete", base |-> tree[path], goal |-> <<>>, hunks |-> <<>>]

(* Sections the agent may add: changes and deletions of files that exist,  *)
(* and files to create.                                                    *)
Sections(path, goal) ==
    IF IsFile(tree[path])
    THEN {Change(path, hunks, goal) :
            hunks \in {d \in Diffs(tree[path].lines, goal) : tree[path].lines # goal}}
         \cup {Delete(path)}
    ELSE {Create(path, goal) : absent \in {tree[path]} \cap {Absent}}

Cost(sections) == FoldLeft(LAMBDA n, section : n + Len(section.hunks) + 1, 0, sections)

Draft ==
    /\ \E path \in Paths, goal \in Texts : \E section \in Sections(path, goal) :
            /\ Cost(Append(patch, section)) <= MaxHunks
            /\ patch' = Append(patch, section)
    /\ UNCHANGED <<tree, references, report, tools>>

StartOver ==
    /\ patch # <<>> /\ patch' = <<>>
    /\ UNCHANGED <<tree, references, report, tools>>

-----------------------------------------------------------------------------
(* ast.find_references and ast.rename_symbol.  An identifier is a site     *)
(* unless it is the name of an attribute.                                  *)
Refers(line, column) ==
    /\ column + Len(Old) <= Len(line)
    /\ SubSeq(line, column + 1, column + Len(Old)) = Old
    /\ column > 0 => line[column] \notin Letters \cup {"."}
    /\ column + Len(Old) < Len(line) => line[column + Len(Old) + 1] \notin Letters

Sites(files) ==
    {site \in [path : {p \in Paths : IsFile(files[p])}, line : 1 .. MaxLines, column : 0 .. MaxWidth] :
        /\ site.line \in DOMAIN files[site.path].lines
        /\ Refers(files[site.path].lines[site.line], site.column)}

FindReferences ==
    /\ references' = Sites(tree)
    /\ Ends("find_references", "ok")
    /\ UNCHANGED <<tree, patch>>

(* _replace_at: what stands at the site is not looked at.                  *)
SpliceAt(line, column) ==
    LET before == IF column < Len(line) THEN column ELSE Len(line)
    IN  SubSeq(line, 1, before) \o New \o SubSeq(line, column + Len(Old) + 1, Len(line))

Before(a, b) == a.line < b.line \/ (a.line = b.line /\ a.column < b.column)

(* Faulty variant: the last site last, so that later columns shift.        *)
SplicedUpward(sites) == CHOOSE a \in sites : \A b \in sites : a = b \/ Before(b, a)

(* The last of the sites spliced: from the last in the text to the first,  *)
(* so that no column still to come shifts.                                 *)
SplicedLast(sites) == CHOOSE a \in sites : \A b \in sites : a = b \/ Before(a, b)

SitesOf(path) == {site \in references : site.path = path}

(* The text split at its newlines: one piece more than lines that end.     *)
Pieces(file) == IF file.ended \/ file.lines = <<>> THEN Append(file.lines, Blank) ELSE file.lines

(* The pieces once some of the sites are spliced.                          *)
Splice(pieces, sites) ==
    LET after[part \in SUBSET sites] ==
            IF part = {} THEN pieces
            ELSE LET site == SplicedLast(part)
                 IN  [after[part \ {site}] EXCEPT ![site.line] = SpliceAt(@, site.column)]
    IN  after

Spliced(file, sites) == Joined(Splice(Pieces(file), sites)[sites], FALSE)

(* All files are spliced before any is written; a file that is gone or a   *)
(* line outside its file is refused.                                       *)
RenameSymbol ==
    LET renamed == [path \in Paths |->
                        IF SitesOf(path) = {} THEN tree[path]
                        ELSE Spliced(tree[path], SitesOf(path))]
    IN  /\ IF \A site \in references :
                  /\ IsFile(tree[site.path])
                  /\ site.line \in DOMAIN Pieces(tree[site.path])
           THEN Small(renamed) /\ tree' = renamed /\ Ends("rename_symbol", "ok")
           ELSE Untouched("rename_symbol", "refused")
        /\ UNCHANGED <<references, patch>>

-----------------------------------------------------------------------------
Next ==
    \/ \E path \in Paths, text \in Texts : WriteFile(path, text)
    \/ \E path \in Paths : DeletePath(path) \/ Mkdir(path)
    \/ \E source, destination \in Paths : Move(source, destination)
    \/ Draft \/ StartOver \/ ApplyPatch
    \/ FindReferences \/ RenameSymbol

Spec == Init /\ [][Next]_vars

-----------------------------------------------------------------------------
Called(tool) == tools' # tools /\ report'.tool = tool

Distinct(sections) ==
    \A i, j \in DOMAIN sections : i # j => sections[i].path # sections[j].path

(* What joining lines cannot say: a new file of one blank line is left     *)
(* empty, a file a change leaves no line of is left with a blank one, and  *)
(* one that breaks off in its last line cannot come to end in a blank line.*)
Unsayable(section) ==
    \/ section.kind = "create" /\ section.goal = <<Blank>>
    \/ section.kind = "change" /\ section.goal = <<>>
    \/ section.kind = "change" /\ ~section.base.ended /\ Last(section.goal) = Blank

(* A patch whose files are as they were when it was written, each in one   *)
(* section, is applied, and every file then says what the patch was for,   *)
(* its last newline as it was (_apply_hunks: positions count the lines of  *)
(* the file as it was, whatever earlier hunks added), where files can say  *)
(* that (fs_tools.py:414-422).                                             *)
PatchReachesGoal ==
    [][LET current == /\ \A i \in DOMAIN patch : tree[patch[i].path] = patch[i].base
                      /\ Distinct(patch)
           Reached(section) ==
               CASE section.kind = "delete" -> tree'[section.path] = Absent
                 [] section.kind = "create" -> tree'[section.path] = Written(section.goal)
                 [] section.kind = "change" ->
                        tree'[section.path] = File(section.goal, section.base.ended)
       IN  Called("apply_patch") /\ current =>
               /\ report'.how = "ok"
               /\ \A i \in DOMAIN patch :
                     IF Unsayable(patch[i]) THEN IsFile(tree'[patch[i].path]) ELSE Reached(patch[i])
               /\ \A path \in Paths :
                     (\A i \in DOMAIN patch : patch[i].path # path) => tree'[path] = tree[path]]_vars

(* The lines a hunk keeps or drops.                                        *)
OldSide(hunk) == Side(hunk.body, {" ", "-"})[Len(hunk.body)]

(* Where a hunk's old lines stand in a file.                               *)
Stands(hunk, lines) ==
    LET end == hunk.start + Len(OldSide(hunk)) - 1
    IN  end <= Len(lines) /\ SubSeq(lines, hunk.start, end) = OldSide(hunk)

(* A patch written for an earlier state of its files is applied only where *)
(* every hunk finds all its old lines at the very place it names, and is   *)
(* refused otherwise, without a change to any file.                        *)
AppliedWhereItStands ==
    [][LET standing == \A i \in DOMAIN patch : patch[i].kind = "change" =>
               /\ IsFile(tree[patch[i].path])
               /\ \A h \in DOMAIN patch[i].hunks :
                     Stands(patch[i].hunks[h], tree[patch[i].path].lines)
       IN  Called("apply_patch") /\ ~standing => report'.how = "refused"]_vars

(* A tool that answers with a refusal has changed no file, even when only  *)
(* the last of a patch's sections or of a rename's sites is at fault.      *)
RefusalChangesNothing ==
    [][report'.how = "refused" => UNCHANGED tree]_vars

(* A line with New at every site of Old and the rest as it was.            *)
Renamed(line) ==
    LET Part(i) == IF Refers(line, i - 1) THEN New
                   ELSE IF \E k \in 1 .. Len(Old) - 1 : k < i /\ Refers(line, i - 1 - k) THEN <<>>
                   ELSE <<line[i]>>
        end[n \in 0 .. Len(line)] ==
            IF n = 0 THEN <<>> ELSE Part(Len(line) - n + 1) \o end[n - 1]
    IN  end[Len(line)]

(* A rename by references that list what the tree holds now replaces every *)
(* reference and nothing else, however many stand on one line and whatever *)
(* the lengths of the names.                                               *)
RenameExact ==
    [][Called("rename_symbol") /\ references = Sites(tree) =>
               \A path \in Paths :
                   tree'[path] = IF IsFile(tree[path])
                                 THEN [tree[path] EXCEPT !.lines =
                                         [i \in DOMAIN @ |-> Renamed(@[i])]]
                                 ELSE tree[path]]_vars

(* The tool's description: all hunks apply or nothing changes.  Of a patch *)
(* of changes to files that are as they were when it was written, no two   *)
(* of which touch the same lines, every added line is in its file when the *)
(* tool answers that it was applied.                                       *)
AppliedInFull ==
    [][LET current == \A i \in DOMAIN patch :
               patch[i].kind = "change" /\ tree[patch[i].path] = patch[i].base
           Above(a, b) == a.start + Len(OldSide(a)) <= b.start
           apart == \A i, j \in DOMAIN patch :
               i < j /\ patch[i].path = patch[j].path =>
                   \A a \in ToSet(patch[i].hunks), b \in ToSet(patch[j].hunks) : Above(a, b)
           Added(i) == {entry \in ToSet(Bodies(patch[i].hunks)) : entry.tag = "+"}
       IN  Called("apply_patch") /\ report'.how = "ok" /\ current /\ apart =>
               \A i \in DOMAIN patch : \A entry \in Added(i) :
                   entry.text \in ToSet(tree'[patch[i].path].lines)]_vars
=============================================================================
