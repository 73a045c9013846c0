-------------------------------- MODULE Jail --------------------------------
(***************************************************************************)
(* The files a server keeps and who may do what with them (ccosel-server,   *)
(* access.rs and fs_api.rs): permissions set on folders and inherited, and  *)
(* the checks every operation on a path goes through.                       *)
(*                                                                         *)
(* A disk has a tree, from paths to what is there, and rules, from folders  *)
(* to what their .access file says.  A path is a sequence of names.  Links, *)
(* which nobody can make through the server, are not in the tree, so a path *)
(* as asked for is where it really leads and `both` of two checks are one.  *)
(***************************************************************************)
EXTENDS Naturals, Sequences, SequencesExt

CONSTANTS
  Paths,     \* the paths there may be, the root <<>> among them
  Users,     \* who signs in
  Anonymous, \* a caller who has not
  HomeName, DesktopsName,  \* /home and the folder of saved desktops
  Texts,     \* what a file may hold
  Absent, Folder,          \* nothing at a path; a folder
  NoRules    \* a folder with no .access file

\* The first n names of p.
Up(p, n) == SubSeq(p, 1, n)

ASSUME JailAssumption ==
  /\ Paths \subseteq Seq(STRING) /\ <<>> \in Paths
  /\ \A p \in Paths : \A n \in 0..Len(p) : Up(p, n) \in Paths
  /\ Anonymous \notin Users /\ Absent \notin Texts /\ Folder \notin Texts
  /\ Absent # Folder /\ HomeName # DesktopsName

Callers == Users \union {Anonymous}

\* Who a line of an .access file may name, and what such a file says.
Everyone == "*"
SignedIn == "@users"
Rules == [read : SUBSET (Users \union {Everyone, SignedIn}),
          write : SUBSET (Users \union {Everyone, SignedIn})]

OkCode == "OK"
NotFound == "NOT_FOUND"
Denied == "DENIED"
Exists == "EXISTS"
NotADirectory == "NOT_A_DIRECTORY"
Io == "IO"

\* The first of a sequence of checks that fails, as `?` returns it.
First(codes) ==
  LET bad == {n \in DOMAIN codes : codes[n] # OkCode}
  IN  IF bad = {} THEN OkCode ELSE codes[CHOOSE n \in bad : \A o \in bad : n <= o]

IsFolder(d, p) == d.tree[p] = Folder
IsFile(d, p) == d.tree[p] \in Texts
Present(d, p) == d.tree[p] # Absent
BelowOf == [p \in Paths |-> {q \in Paths : IsStrictPrefix(p, q)}]
InsideOf == [p \in Paths |-> {q \in BelowOf[p] : Len(q) = Len(p) + 1}]
Below(p) == BelowOf[p]
Within(p) == BelowOf[p] \union {p}
Inside(p) == InsideOf[p]

\* Every entry is in a folder, and only folders have rules.
WellFormed(d) ==
  /\ d \in [tree : [Paths -> Texts \union {Absent, Folder}], rules : [Paths -> Rules \union {NoRules}]]
  /\ IsFolder(d, <<>>)
  /\ \A p \in Paths \ {<<>>} : Present(d, p) => IsFolder(d, Front(p))
  /\ \A p \in Paths : d.rules[p] # NoRules => IsFolder(d, p)

-----------------------------------------------------------------------------
All == [read |-> TRUE, write |-> TRUE]
Nothing == [read |-> FALSE, write |-> FALSE]

\* Rules::perms: write implies read.
RulePerms(rule, u) ==
  LET Allows(who) == \/ Everyone \in who
                     \/ SignedIn \in who /\ u # Anonymous
                     \/ u \in who
  IN  [read |-> Allows(rule.write) \/ Allows(rule.read), write |-> Allows(rule.write)]

\* How far down the path are the folders with rules.
Ruled(d, p) == {n \in 0..Len(p) : d.rules[Up(p, n)] # NoRules}

\* access::perms: the nearest rules up from the path; /home is built in.
Perms(d, p, u) ==
  LET ruled == Ruled(d, p)
  IN  CASE p # <<>> /\ p[1] = DesktopsName -> Nothing
        [] p = <<HomeName>> -> [read |-> u # Anonymous, write |-> FALSE]
        [] Len(p) > 1 /\ p[1] = HomeName -> IF p[2] = u THEN All ELSE Nothing
        [] OTHER -> IF ruled = {} THEN All
                    ELSE RulePerms(d.rules[Up(p, CHOOSE n \in ruled : \A o \in ruled : o <= n)], u)

\* check(): something the caller may not read is as if it were not there.
Check(perms, need) == IF ~perms.read THEN NotFound
                      ELSE IF need = "write" /\ ~perms.write THEN Denied
                      ELSE OkCode

\* Jail::resolve: canonicalising a path that goes through a file is an error of
\* its own.
Resolve(d, p) == IF Present(d, p) THEN OkCode
                 ELSE IF \E n \in 1..(Len(p) - 1) : IsFile(d, Up(p, n)) THEN Io
                 ELSE NotFound

Authorize(d, p, u, need) == First(<<Check(Perms(d, p, u), need), Resolve(d, p)>>)

\* A new entry: its folder must be there, and it takes that folder's rules.
AuthorizeNew(d, p, u) ==
  IF p = <<>> THEN Exists
  ELSE First(<<Check(Perms(d, p, u), "write"), Resolve(d, Front(p)),
               IF IsFolder(d, Front(p)) THEN OkCode ELSE NotADirectory>>)

\* check_tree: every folder below allows it, those the caller cannot see too.
CheckTree(d, p, u, need) ==
  IF \A q \in Below(p) : IsFolder(d, q) => Check(Perms(d, q, u), need) = OkCode
  THEN OkCode ELSE Denied

\* Mutant: only the folder itself is checked, not what is in it.
RemovableAlone(d, p, u) ==
  IF p = <<>> THEN Denied
  ELSE First(<<Authorize(d, p, u, "read"), Authorize(d, Front(p), u, "write"),
               Check(Perms(d, p, u), "write")>>)

\* check_removable: write on it, on its folder, and on every folder inside it.
CheckRemovable(d, p, u) ==
  IF p = <<>> THEN Denied
  ELSE First(<<Authorize(d, p, u, "read"), Authorize(d, Front(p), u, "write"),
               Check(Perms(d, p, u), "write"), CheckTree(d, p, u, "write")>>)

\* check_writable_target and write_target: new, or in place of a file.
CheckWritableTarget(d, p, u) ==
  LET new == AuthorizeNew(d, p, u)
  IN  IF new # OkCode THEN new
      ELSE IF IsFolder(d, p) THEN Exists
      ELSE IF IsFile(d, p) THEN CheckRemovable(d, p, u)
      ELSE OkCode

\* check_readable_tree: a copy is never quietly missing what the caller cannot see.
CheckReadableTree(d, p, u) ==
  First(<<Authorize(d, p, u, "read"), CheckTree(d, p, u, "read")>>)

-----------------------------------------------------------------------------
\* Mutant: an entry is listed by its folder's rules, whatever its own.
VisibleByFolder(d, p, u) == {q \in Inside(p) : Present(d, q)}

\* visible_entries: a file is listed by its folder's rules, a folder by its own.
EntryPerms(d, q, u) == IF IsFile(d, q) THEN Perms(d, Front(q), u) ELSE Perms(d, q, u)
VisibleEntries(d, p, u) == {q \in Inside(p) : Present(d, q) /\ EntryPerms(d, q, u).read}

ListDir(d, p, u) ==
  LET code == First(<<Authorize(d, p, u, "read"),
                      IF IsFolder(d, p) THEN OkCode ELSE NotADirectory>>)
  IN  [code |-> code,
       entries |-> IF code # OkCode THEN {}
                   ELSE {[path |-> q, folder |-> IsFolder(d, q), writable |-> EntryPerms(d, q, u).write] :
                           q \in VisibleEntries(d, p, u)}]

ReadFile(d, p, u) ==
  LET code == First(<<Authorize(d, p, u, "read"),
                      IF IsFolder(d, p) THEN NotADirectory ELSE OkCode>>)
  IN  [code |-> code, text |-> IF code = OkCode THEN d.tree[p] ELSE Absent,
       writable |-> code = OkCode /\ Authorize(d, p, u, "write") = OkCode]

\* access(): missing and hidden both answer no access at all.
AccessOf(d, p, u) == IF Authorize(d, p, u, "read") = OkCode THEN Perms(d, p, u) ELSE Nothing

\* search(): the files found in folders the walk may enter, one by one from the
\* start.  A hit is its path.
Search(d, p, u) ==
  LET Entered(q) == \A n \in (Len(p) + 1)..Len(q) : Authorize(d, Up(q, n), u, "read") = OkCode
      code == Authorize(d, p, u, "read")
  IN  [code |-> code,
       hits |-> IF code # OkCode THEN {}
                ELSE {q \in Below(p) : IsFile(d, q) /\ Entered(Front(q))}]

\* locate() and a WebDAV client's metadata: what it is told of the entry itself.
Locate(d, p, u) ==
  LET code == Authorize(d, p, u, "read")
  IN  [code |-> code, folder |-> code = OkCode /\ IsFolder(d, p)]

\* image_info(): of a file the caller may read.
ImageInfo(d, p, u) ==
  First(<<Authorize(d, p, u, "read"), IF IsFile(d, p) THEN OkCode ELSE NotFound>>)

\* Everything a caller can be shown of a path.
Shown(d, p, u) == <<ListDir(d, p, u), ReadFile(d, p, u), AccessOf(d, p, u), Search(d, p, u),
                    Locate(d, p, u), ImageInfo(d, p, u)>>
=============================================================================
