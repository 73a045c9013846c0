---------------------------- MODULE ProjectFiles ----------------------------
(***************************************************************************)
(* Which files of a picked folder a project upload sends (ccosel-shell:    *)
(* upload.rs, project_files; ccosel-gitignore: lib.rs): all that its        *)
(* .gitignore files leave, as git would, and nothing of a .git folder.      *)
(*                                                                         *)
(* A path is the sequence of its names.  What a pattern says of one name    *)
(* (letters, `*', `?', `[...]') is the set of names it matches; so `**' is  *)
(* all that a pattern has besides.                                         *)
(***************************************************************************)
EXTENDS Integers, SequencesExt

CONSTANTS
    Names,      \* of files and folders
    Paths,      \* the files a project may have
    Folders,    \* where its .gitignore files may be
    Patterns,   \* what stands between a line's slashes: sets of names, and Stars
    Stars,      \* `**'
    DotGit,     \* the name of the repository itself
    MaxLines    \* bound on the lines of all .gitignore files

ASSUME ProjectAssumption ==
    /\ Paths \subseteq Seq(Names) /\ Folders \subseteq Seq(Names)
    /\ Patterns \subseteq Seq((SUBSET Names) \cup {Stars}) \ {<< >>}

VARIABLE ignores  \* the .gitignore files in the order they were picked: [dir, lines]

Lines == [negate : BOOLEAN, dirOnly : BOOLEAN, lead : BOOLEAN, pattern : Patterns]

PInit == ignores = << >>

\* The project's owner leaves out, or takes back, something more.
Write(dir, line) ==
    LET at == {i \in DOMAIN ignores : ignores[i].dir = dir} IN
    /\ FoldLeft(LAMBDA n, file : n + Len(file.lines), 0, ignores) < MaxLines
    /\ ignores' = IF at = {} THEN Append(ignores, [dir |-> dir, lines |-> <<line>>])
                  ELSE [ignores EXCEPT ![CHOOSE i \in at : TRUE].lines = Append(@, line)]

PNext == \E dir \in Folders, line \in Lines : Write(dir, line)

-----------------------------------------------------------------------------
(* Filter.                                                                 *)

\* A pattern with a slash at its start or in it is anchored.
Parse(dir, line) ==
    [base     |-> dir,
     negate   |-> line.negate,
     dirOnly  |-> line.dirOnly,
     anchored |-> line.lead \/ Len(line.pattern) > 1,
     glob     |-> line.pattern]

\* sort_by_key(): shallow files first, and those of a depth as they were.
Before(files, i, j) ==
    \/ Len(files[i].dir) < Len(files[j].dir)
    \/ Len(files[i].dir) = Len(files[j].dir) /\ i < j

Rank(files, i) == Cardinality({j \in DOMAIN files : Before(files, j, i)}) + 1

Sorted(files) == [k \in DOMAIN files |-> files[CHOOSE i \in DOMAIN files : Rank(files, i) = k]]

RulesOf(file) == [n \in DOMAIN file.lines |-> Parse(file.dir, file.lines[n])]

Rules(files) == FlattenSeq([k \in DOMAIN files |-> RulesOf(Sorted(files)[k])])

\* Whether the parts of the pattern after the first p[1] match the names after
\* the first p[2].  Token::Dirs is a `**' before a slash, Token::Rest one at the end.
Matches(glob, s) ==
    LET from[p \in (0..Len(glob)) \X (0..Len(s))] ==
          LET g == p[1]
              i == p[2]
          IN IF g = Len(glob) THEN i = Len(s)
             ELSE IF glob[g + 1] # Stars
                  THEN i < Len(s) /\ s[i + 1] \in glob[g + 1] /\ from[<<g + 1, i + 1>>]
             ELSE IF g + 1 = Len(glob) THEN i < Len(s)
             ELSE from[<<g + 1, i>>] \/ (i + 1 < Len(s) /\ from[<<g, i + 1>>])
    IN from[<<0, 0>>]

Inside(path, base) == Len(path) > Len(base) /\ IsPrefix(base, path)

Applies(rule, path, isDir) ==
    /\ rule.dirOnly => isDir
    /\ Inside(path, rule.base)
    /\ Matches(rule.glob, IF rule.anchored THEN SubSeq(path, Len(rule.base) + 1, Len(path))
                          ELSE <<Last(path)>>)

\* decide(): each rule that applies overrules those before it.
Decide(rules, path, isDir) ==
    LET ignored[n \in 0..Len(rules)] ==
          IF n = 0 THEN FALSE
          ELSE IF Applies(rules[n], path, isDir) THEN ~rules[n].negate ELSE ignored[n - 1]
    IN ignored[Len(rules)]

\* Mutant: the folders it is in are not looked at.
IsIgnoredItself(rules, path) == Decide(rules, path, FALSE)

IsIgnored(rules, path) ==
    \/ \E n \in 1..Len(path) - 1 : Decide(rules, SubSeq(path, 1, n), TRUE)
    \/ Decide(rules, path, FALSE)

Sends(files, path) == DotGit \notin Range(path) /\ ~IsIgnored(Rules(files), path)

-----------------------------------------------------------------------------
(* gitignore(5).                                                           *)

\* `**' stands for any folders before a slash, and for anything at the end; a
\* pattern without a slash is looked for at every depth.  at[i] is how much of
\* the path the first i parts of the pattern stand for.
Fits(line, path) ==
    LET whole == IF line.lead \/ Len(line.pattern) > 1 THEN line.pattern
                 ELSE <<Stars>> \o line.pattern
        L     == Len(whole)
    IN \E at \in [0..L -> 0..Len(path)] :
         /\ at[0] = 0 /\ at[L] = Len(path)
         /\ \A i \in 1..L :
              IF whole[i] = Stars
              THEN at[i - 1] + (IF i = L THEN 1 ELSE 0) <= at[i]
              ELSE at[i] = at[i - 1] + 1 /\ path[at[i]] \in whole[i]

LineSays(line, dir, path, isDir) ==
    (line.dirOnly => isDir) /\ Fits(line, SubSeq(path, Len(dir) + 1, Len(path)))

\* Each folder's file is asked, from the one the path is in outwards; the last
\* of its lines that fits decides, or if there is none the next file.
Excluded(path, isDir) ==
    LET says(f) == {n \in DOMAIN f.lines : LineSays(f.lines[n], f.dir, path, isDir)}
        files   == {f \in Range(ignores) : Inside(path, f.dir) /\ says(f) # {}}
    IN \E f \in files :
         /\ \A g \in files : Len(g.dir) <= Len(f.dir)
         /\ ~f.lines[CHOOSE n \in says(f) : \A m \in says(f) : m <= n].negate

\* Git walks down the tree, and looks into no folder it leaves out.
Reaches(path) ==
    \A n \in 1..Len(path) : ~Excluded(SubSeq(path, 1, n), n < Len(path))

\* "Follows gitignore(5)": a project's upload sends what git would take of it,
\* in whatever order the browser lists the files.
SentAsGit ==
    \A path \in Paths :
      Sends(ignores, path) <=> DotGit \notin Range(path) /\ Reaches(path)

=============================================================================
