----------------------------- MODULE FileServer -----------------------------
(***************************************************************************)
(* Requests that change the files (ccosel-server): the /rpc methods of      *)
(* fs_api.rs, WebDAV (dav.rs) and /upload (upload_api.rs), of several       *)
(* clients at once.  Each checks, then acts, in steps of its own, so        *)
(* another request may change the disk between the two.                     *)
(*                                                                         *)
(* dav-server carries out a DELETE or a COPY of a folder one entry at a     *)
(* time, through JailFs, after preflight() has checked the whole of it; it  *)
(* clears a destination before carrying onto it.                            *)
(***************************************************************************)
EXTENDS Jail

CONSTANTS
  Clients,
  UserOf,       \* Clients -> Callers
  TextOf,       \* what each client writes
  Disks,        \* disks the server may be started on
  Part,         \* what a file holds while its PUT is under way: some of the body, or none
  MaxRequests   \* bound on the requests

ASSUME ServerAssumption ==
  /\ Clients # {}
  /\ UserOf \in [Clients -> Callers] /\ TextOf \in [Clients -> Texts]
  /\ \A d \in Disks : WellFormed(d)
  /\ Part \in Texts /\ MaxRequests \in Nat

VARIABLES
  disk,
  req,        \* each client's request: see Idle
  disturbed,  \* whether another request has changed the disk since it began (history)
  by,         \* who took the last step (history)
  asked       \* how many requests there have been

vars == <<disk, req, disturbed, by, asked>>

\* A request: what it asks, where it stands, how it ended, the disk when it
\* began (history) and, for a COPY, the entries copied so far.
Idle == [op |-> "none", from |-> <<>>, to |-> <<>>, flag |-> FALSE,
         at |-> "done", code |-> OkCode, before |-> Absent, copied |-> {}]

Jobs == {"delete", "move", "copy"}

Init ==
  /\ disk \in Disks
  /\ req = [c \in Clients |-> Idle]
  /\ disturbed = [c \in Clients |-> FALSE]
  /\ by = CHOOSE c \in Clients : TRUE
  /\ asked = 0

-----------------------------------------------------------------------------
\* What the operating system does.  Each refuses what is no longer there.
Put(d, p, text) == [d EXCEPT !.tree[p] = text]

Without(d, p) ==
  [tree |-> [q \in Paths |-> IF q \in Within(p) THEN Absent ELSE d.tree[q]],
   rules |-> [q \in Paths |-> IF q \in Within(p) THEN NoRules ELSE d.rules[q]]]

\* Where an entry of `from` goes when `from` becomes `to`.
Landing(q, from, to) == to \o SubSeq(q, Len(from) + 1, Len(q))
\* There is a path for all that would go to `to`: a bound.
Fits(d, from, to) == \A q \in Within(from) \ Within(to) :
                        Present(d, q) => Landing(q, from, to) \in Paths

\* An .access file moves with its folder, and is never copied.
Moved(d, from, to) ==
  LET At(f, q, none) == IF IsPrefix(to, q)
                        THEN IF Landing(q, to, from) \in Paths THEN f[Landing(q, to, from)] ELSE none
                        ELSE IF IsPrefix(from, q) THEN none ELSE f[q]
  IN  [tree |-> [q \in Paths |-> At(d.tree, q, Absent)],
       rules |-> [q \in Paths |-> At(d.rules, q, NoRules)]]

CanWrite(d, p) == IsFolder(d, Front(p)) /\ ~IsFolder(d, p)
CanMake(d, p) == IsFolder(d, Front(p)) /\ ~Present(d, p)
CanMove(d, p, q) ==
  /\ Present(d, p) /\ IsFolder(d, Front(q)) /\ Fits(d, p, q)
  /\ IF IsFolder(d, p) THEN ~IsFile(d, q) /\ Inside(q) \intersect {e \in Paths : Present(d, e)} = {}
                       ELSE ~IsFolder(d, q)

\* Jail::remove, Jail::rename and Jail::copy_file, check and act at one go, as
\* dav-server calls them for one entry.
Removing(d, p, u) ==
  LET code == CheckRemovable(d, p, u)
  IN  [code |-> code, disk |-> IF code = OkCode THEN Without(d, p) ELSE d]

Renaming(d, p, q, u) ==
  LET code == First(<<CheckRemovable(d, p, u), CheckWritableTarget(d, q, u),
                      IF IsPrefix(p, q) THEN Denied ELSE OkCode,
                      IF CanMove(d, p, q) THEN OkCode ELSE Io>>)
  IN  [code |-> code, disk |-> IF code = OkCode THEN Moved(d, p, q) ELSE d]

Copying(d, p, q, u) ==
  LET code == First(<<Authorize(d, p, u, "read"), IF IsFile(d, p) THEN OkCode ELSE Denied,
                      CheckWritableTarget(d, q, u)>>)
  IN  [code |-> code, disk |-> IF code = OkCode THEN Put(d, q, d.tree[p]) ELSE d]

Making(d, p, u) ==
  LET code == First(<<AuthorizeNew(d, p, u), IF Present(d, p) THEN Exists ELSE OkCode>>)
  IN  [code |-> code, disk |-> IF code = OkCode THEN Put(d, p, Folder) ELSE d]

-----------------------------------------------------------------------------
\* ensure_home: a signed-in caller's folder, from their first request.
HomeOf(u) == <<HomeName, u>>
WithHome(d, u) ==
  IF u = Anonymous \/ HomeOf(u) \notin Paths \/ Present(d, HomeOf(u)) \/ IsFile(d, <<HomeName>>)
  THEN d ELSE Put(Put(d, <<HomeName>>, Folder), HomeOf(u), Folder)

\* c's step leaves the disk as d: every other request is disturbed if that is new.
Step(c, d, r) ==
  /\ disk' = d
  /\ req' = [req EXCEPT ![c] = r]
  /\ by' = c
  /\ disturbed' = [o \in Clients |-> disturbed[o] \/ (o # c /\ d # disk)]

\* A request begins with its checks, made on the disk as it is: it ends there if
\* they refuse it, and goes on at `next` otherwise.
Begin(c, r, d, code, next) ==
  /\ asked' = asked + 1
  /\ disk' = d
  /\ req' = [req EXCEPT ![c] = IF code # OkCode THEN Idle
                                ELSE [r EXCEPT !.at = next, !.before = IF r.op \in Jobs THEN d ELSE Absent]]
  /\ by' = c
  /\ disturbed' = [o \in Clients |-> o # c /\ (disturbed[o] \/ d # disk)]

Request(op, p, q, flag) == [Idle EXCEPT !.op = op, !.from = p, !.to = q, !.flag = flag]

\* Only a job's end is told from what it was asked (StartedCompletes).
End(r, code) == IF r.op \in Jobs THEN [r EXCEPT !.at = "done", !.code = code]
                ELSE [Idle EXCEPT !.op = r.op, !.flag = r.flag]

-----------------------------------------------------------------------------
\* Mutant: create_only is not looked at.
WriteCheckReplaces(d, p, createOnly, u) ==
  First(<<AuthorizeNew(d, p, u), IF IsFolder(d, p) THEN Exists ELSE OkCode,
          IF Present(d, p) THEN Authorize(d, p, u, "write") ELSE OkCode>>)

\* Jail::write_file, up to the write.
WriteCheck(d, p, createOnly, u) ==
  First(<<AuthorizeNew(d, p, u),
          IF IsFolder(d, p) \/ (createOnly /\ Present(d, p)) THEN Exists ELSE OkCode,
          IF Present(d, p) THEN Authorize(d, p, u, "write") ELSE OkCode>>)

WriteFile(c, p, createOnly) ==
  LET u == UserOf[c] d == WithHome(disk, u)
  IN  Begin(c, Request("write", p, p, createOnly), d, WriteCheck(d, p, createOnly, u), "act")

CreateDir(c, p) ==
  LET u == UserOf[c] d == WithHome(disk, u)
  IN  Begin(c, Request("mkdir", p, p, FALSE), d, AuthorizeNew(d, p, u), "act")

RemoveEntry(c, p) ==
  LET u == UserOf[c] d == WithHome(disk, u)
  IN  Begin(c, Request("remove", p, p, FALSE), d, CheckRemovable(d, p, u), "act")

\* The second half of each: what was checked may have changed since.
ActWrite(c) ==
  /\ req[c].at = "act" /\ req[c].op = "write"
  /\ IF CanWrite(disk, req[c].to)
     THEN Step(c, Put(disk, req[c].to, TextOf[c]), End(req[c], OkCode))
     ELSE Step(c, disk, End(req[c], Io))
  /\ UNCHANGED asked

ActCreateDir(c) ==
  /\ req[c].at = "act" /\ req[c].op = "mkdir"
  /\ CASE CanMake(disk, req[c].to) -> Step(c, Put(disk, req[c].to, Folder), End(req[c], OkCode))
       [] Present(disk, req[c].to) -> Step(c, disk, End(req[c], Exists))
       [] OTHER -> Step(c, disk, End(req[c], Io))
  /\ UNCHANGED asked

ActRemove(c) ==
  /\ req[c].at = "act" /\ req[c].op = "remove"
  /\ IF Present(disk, req[c].from)
     THEN Step(c, Without(disk, req[c].from), End(req[c], OkCode))
     ELSE Step(c, disk, End(req[c], NotFound))
  /\ UNCHANGED asked

-----------------------------------------------------------------------------
\* upload(): into a folder, made if missing.  Home is not ensured here.
Upload(c, p) ==
  /\ p # <<>>
  /\ Begin(c, Request("upload", Front(p), p, FALSE), disk,
           Check(Perms(disk, p, UserOf[c]), "write"), "folders")

\* resolve_dir_create: what is missing of the folder's path.
MakeFolders(c) ==
  LET p == req[c].from
      missing == {q \in Paths : IsPrefix(q, p) /\ ~Present(disk, q)}
      made == [disk EXCEPT !.tree = [q \in Paths |-> IF q \in missing THEN Folder ELSE disk.tree[q]]]
  IN  /\ req[c].at = "folders"
      /\ IF \E n \in 1..Len(p) : IsFile(disk, Up(p, n))
         THEN Step(c, disk, End(req[c], Io))
         ELSE Step(c, made, [req[c] EXCEPT !.at = "store"])
      /\ UNCHANGED asked

\* Checked again where the folder really is, then written.
StoreUpload(c) ==
  LET p == req[c].to
      code == First(<<Check(Perms(disk, p, UserOf[c]), "write"),
                      IF CanWrite(disk, p) THEN OkCode ELSE Io>>)
  IN  /\ req[c].at = "store"
      /\ Step(c, IF code = OkCode THEN Put(disk, p, TextOf[c]) ELSE disk, End(req[c], code))
      /\ UNCHANGED asked

-----------------------------------------------------------------------------
\* A PUT makes or empties the file when it opens it, and writes the body as it
\* comes: a body that breaks off or grows past the cap leaves what had come.
PutFile(c, p) ==
  LET u == UserOf[c]
      d == WithHome(disk, u)
      code == CheckWritableTarget(d, p, u)
  IN  Begin(c, Request("put", p, p, FALSE), IF code = OkCode THEN Put(d, p, Part) ELSE d, code, "body")

\* Where the file it has open may be: another request may have moved it.
OpenAt(c) == {p \in Paths : /\ IsFile(disk, p)
                            /\ p = req[c].to \/ (disturbed[c] /\ disk.tree[p] = Part)}

\* Removed or replaced meanwhile, it is written all the same, where nobody sees it.
PutBody(c) ==
  /\ req[c].at = "body"
  /\ \/ \E p \in OpenAt(c), text \in {TextOf[c], Part} :
          Step(c, Put(disk, p, text), End(req[c], IF text = Part THEN Io ELSE OkCode))
     \/ disturbed[c] /\ Step(c, disk, End(req[c], OkCode))
  /\ UNCHANGED asked

MakeCollection(c, p) ==
  LET u == UserOf[c] made == Making(WithHome(disk, u), p, u)
  IN  Begin(c, Request("mkcol", p, p, FALSE), made.disk,
            made.code, "done")

\* Mutant: preflight looks only at the folder itself.
PreflightShallow(d, op, p, q, overwrite, u) ==
  First(<<IF op = "copy" THEN CheckReadableTree(d, p, u) ELSE RemovableAlone(d, p, u),
          IF op = "delete" THEN OkCode ELSE AuthorizeNew(d, q, u),
          IF op # "delete" /\ Present(d, q) /\ overwrite
          THEN CheckRemovable(d, q, u) ELSE OkCode>>)

\* preflight(): the whole of a DELETE, MOVE or COPY, before any of it happens.
Preflight(d, op, p, q, overwrite, u) ==
  First(<<IF op = "copy" THEN CheckReadableTree(d, p, u) ELSE CheckRemovable(d, p, u),
          IF op = "delete" THEN OkCode ELSE AuthorizeNew(d, q, u),
          IF op # "delete" /\ Present(d, q) /\ overwrite
          THEN CheckRemovable(d, q, u) ELSE OkCode>>)

\* dav-server itself refuses to replace what is there without Overwrite, and to
\* put anything where it already is.
JobCode(d, op, p, q, overwrite, u) ==
  First(<<Preflight(d, op, p, q, overwrite, u),
          IF op # "delete" /\ Present(d, q) /\ ~overwrite THEN Exists ELSE OkCode,
          IF op # "delete" /\ p = q THEN Denied ELSE OkCode>>)

DavJob(c, op, p, q, overwrite) ==
  LET u == UserOf[c]
      d == WithHome(disk, u)
      code == JobCode(d, op, p, q, overwrite, u)
  IN  /\ op # "delete" => Fits(d, p, q)
      /\ Begin(c, Request(op, p, q, overwrite), d, code, "clear")

Delete(c, p) == DavJob(c, "delete", p, p, TRUE)
MoveTo(c, p, q, overwrite) == DavJob(c, "move", p, q, overwrite)
CopyTo(c, p, q, overwrite) == DavJob(c, "copy", p, q, overwrite)

\* The entries of `top` dav-server comes to, listing folder after folder.
Reached(d, top, u) ==
  {q \in Within(top) : /\ Present(d, q)
                       /\ \A n \in (Len(top) + 1)..Len(q) :
                            Up(q, n) \in VisibleEntries(d, Up(q, n - 1), u)}

\* What is to go (a DELETE's source, or what a MOVE or COPY replaces) goes from
\* the bottom up; once it is gone the request ends or carries on.
ClearEntry(c) ==
  LET r == req[c] u == UserOf[c]
      reached == Reached(disk, r.to, u)
  IN  /\ r.at = "clear"
      /\ IF reached = {}
         THEN Step(c, disk, IF r.op = "delete" THEN End(r, OkCode) ELSE [r EXCEPT !.at = "carry"])
         ELSE \E e \in reached :
                LET gone == Removing(disk, e, u)
                IN  /\ Below(e) \intersect reached = {}
                    /\ Step(c, gone.disk, IF gone.code = OkCode THEN r ELSE End(r, gone.code))
      /\ UNCHANGED asked

CarryMove(c) ==
  LET r == req[c] moved == Renaming(disk, r.from, r.to, UserOf[c])
  IN  /\ r.at = "carry" /\ r.op = "move"
      /\ Step(c, moved.disk, End(r, moved.code))
      /\ UNCHANGED asked

\* One entry of a COPY, from the top down; a folder already there is kept, and
\* where it goes, if that is within what is copied, is not copied.
CarryCopy(c) ==
  LET r == req[c] u == UserOf[c]
      left == {e \in Reached(disk, r.from, u) \ r.copied :
                 /\ ~(IsPrefix(r.from, r.to) /\ IsPrefix(r.to, e))
                 /\ Landing(e, r.from, r.to) \in Paths}
      Ready(e) == \A f \in Reached(disk, r.from, u) : IsStrictPrefix(f, e) => f \in r.copied
      Landed(e) == LET to == Landing(e, r.from, r.to)
                       made == Making(disk, to, u)
                   IN  IF IsFile(disk, e) THEN Copying(disk, e, to, u)
                       ELSE IF made.code = Exists THEN [made EXCEPT !.code = OkCode]
                       ELSE made
  IN  /\ r.at = "carry" /\ r.op = "copy"
      /\ IF left = {}
         THEN Step(c, disk, End(r, IF r.copied = {} THEN NotFound ELSE OkCode))
         ELSE \E e \in left :
                /\ Ready(e)
                /\ Step(c, Landed(e).disk,
                        IF Landed(e).code = OkCode THEN [r EXCEPT !.copied = @ \union {e}]
                        ELSE End(r, Landed(e).code))
      /\ UNCHANGED asked

-----------------------------------------------------------------------------
\* A client asks for one thing at a time.
Ask(c) ==
  /\ req[c].at = "done" /\ asked < MaxRequests
  /\ \E p \in Paths :
       \/ \E createOnly \in BOOLEAN : WriteFile(c, p, createOnly)
       \/ Upload(c, p) \/ PutFile(c, p)
       \/ CreateDir(c, p) \/ RemoveEntry(c, p) \/ MakeCollection(c, p) \/ Delete(c, p)
       \/ \E q \in Paths, overwrite \in BOOLEAN : MoveTo(c, p, q, overwrite) \/ CopyTo(c, p, q, overwrite)

Next == \E c \in Clients :
  \/ Ask(c)
  \/ ActWrite(c) \/ ActCreateDir(c) \/ ActRemove(c)
  \/ MakeFolders(c) \/ StoreUpload(c) \/ PutBody(c)
  \/ ClearEntry(c) \/ CarryMove(c) \/ CarryCopy(c)

Spec == Init /\ [][Next]_vars

-----------------------------------------------------------------------------
\* The disk stays well formed, and what a caller may not read is shown to them
\* as if it were not there: every answer about it, what is in it and the folders
\* it is in is the one they would get with it gone (fs_api.rs:38, access.rs: perms).
HiddenAsMissing ==
  /\ WellFormed(disk)
  /\ \A u \in Callers, p \in {f \in Paths \ {<<>>} : IsFolder(disk, f)} :
       (\A q \in Within(p) : ~Perms(disk, q, u).read) =>
          LET gone == Without(disk, p)
          IN  \A q \in {e \in Paths : IsPrefix(e, p) \/ IsPrefix(p, e)} :
                Shown(disk, q, u) = Shown(gone, q, u)

\* A copy of a folder, without the .access files in it.  Nothing is at `to` in d.
Copied(d, from, to) ==
  LET source(q) == Landing(q, to, from)
  IN  [tree |-> [q \in Paths |-> IF ~IsPrefix(to, q) THEN d.tree[q]
                                  ELSE IF source(q) \in Paths THEN d.tree[source(q)] ELSE Absent],
       rules |-> [q \in Paths |-> IF IsPrefix(to, q) THEN NoRules ELSE d.rules[q]]]

\* A file below `from` that is in a home folder's place, as an upload can make one
\* of the name of a user who has no home yet, or in that of /home or of the saved
\* desktops: its folder's rules list it, and its own refuse it.
Stray(d, from) ==
  \E q \in Below(from) :
    IsFile(d, q) /\ (Front(q) = <<HomeName>> \/ q \in {<<HomeName>>, <<DesktopsName>>})

\* A MOVE into what is moved, or a MOVE or COPY onto a folder around it.
Crossed(r) == \/ r.op = "move" /\ IsStrictPrefix(r.from, r.to)
              \/ r.op # "delete" /\ IsStrictPrefix(r.to, r.from)

\* What a job leaves of the disk it began on.
Completed(r, d) ==
  LET b == r.before
  IN  /\ r.code = OkCode
      /\ d = CASE r.op = "delete" -> Without(b, r.from)
               [] r.op = "move" -> Moved(Without(b, r.to), r.from, r.to)
               [] r.op = "copy" -> Copied(Without(b, r.to), r.from, r.to)

\* A DELETE, MOVE or COPY that preflight let start, and no other request came
\* between, does the whole of what it was asked: it is never stopped halfway by
\* a check of one entry (dav.rs:22).  Two kinds are: a COPY with such a file in
\* it (HomeCopied), and one whose source and destination cross, which is refused
\* when what was at its destination has gone, and that is all that has gone
\* (RefusedWhole).
StartedCompletes ==
  \A c \in Clients :
    LET r == req[c] IN
    /\ r.op \in Jobs /\ r.at = "done" /\ ~disturbed[c]
    /\ ~(r.op = "copy" /\ Stray(r.before, r.from))
    => IF Crossed(r) THEN r.code # OkCode /\ disk = Without(r.before, r.to)
       ELSE Completed(r, disk)

\* A COPY of /home that is let start is not stopped halfway.  It is, by a file of
\* another user's name: its folder's rules list it, and its own refuse it
\* (fs_api.rs:364 and access.rs:126).
HomeCopied ==
  \A c \in Clients : req[c].op = "copy" /\ req[c].from = <<HomeName>> /\ req[c].at = "done"
                         /\ ~disturbed[c] => req[c].code = OkCode

\* A DELETE, MOVE or COPY that is refused is refused whole, with nothing done
\* (dav.rs:22).  Not one that crosses: preflight lets it start, and the check that
\* refuses it (fs_api.rs:531) is made when what was at its destination, of which
\* its source may be a part, has been removed.
RefusedWhole ==
  \A c \in Clients :
    LET r == req[c] IN
    /\ r.op \in Jobs /\ r.at = "done" /\ r.code # OkCode /\ ~disturbed[c]
    /\ ~(r.op = "copy" /\ Stray(r.before, r.from))
    => disk = r.before

ByRights ==
  ~disturbed'[by'] =>
     \A p \in Paths :
       <<disk'.tree[p], disk'.rules[p]>> # <<disk.tree[p], disk.rules[p]>> =>
          \/ Perms(disk, p, UserOf[by']).write
          \/ ~Present(disk, p) /\ IsPrefix(p, HomeOf(UserOf[by']))

\* A request no other came between changes only what its caller may write by the
\* rules of that moment, whatever it removes, moves or replaces on the way; only
\* the caller's own home is made without asking (access.rs:34).
OnlyWritable == [][ByRights]_vars

AsksForNew(r) == \/ r.op \in {"mkdir", "mkcol"}
                 \/ r.op \in {"write", "move", "copy"} /\ r.flag = (r.op = "write")

FilesKept ==
  LET r == req'[by'] IN
  ~disturbed'[by'] /\ AsksForNew(r) =>
     \A p \in Paths : IsFile(disk, p) /\ ~(r.op = "move" /\ IsPrefix(r.from, p))
                          => disk'.tree[p] = disk.tree[p]

\* What is asked to be new never costs a file already there: a create_only write,
\* a new folder, and a MOVE or COPY without Overwrite leave every file outside
\* their source as it was, unless another request came between the look and the
\* act (fs_api.rs:213).
NewKeepsFiles == [][FilesKept]_vars

\* A create_only write takes the place of no file: "New document" cannot clobber
\* one that is already there (ccosel-proto/src/fs.rs:107).  It can one made since
\* it looked: looking and writing are two steps, and no lock is held (fs_api.rs:213).
OnlyCreates ==
  [][\A c \in Clients, p \in Paths :
       /\ req[c].at = "act" /\ req[c].op = "write" /\ req[c].flag
       /\ req'[c].at = "done" /\ IsFile(disk, p)
       => disk'.tree[p] = disk.tree[p]]_vars
=============================================================================
