-------------------------- MODULE FileServerProofs --------------------------
(***************************************************************************)
(* File operations, for any paths, users, requests, files and rules, and   *)
(* any number of requests at once.                                         *)
(*                                                                         *)
(* The argument is FileServerInv.  Of every request it says what no other  *)
(* request can undo (Sound): its shape, and that its checks passed on the  *)
(* files as they were when it began.  Of one that nobody has disturbed it  *)
(* says what makes it complete (Stands): its checks still hold of the      *)
(* files as they are (Clearing, Emptied), and what it has done so far is   *)
(* in place (Partway, Ended).  Because permissions are inherited, every    *)
(* removal or change of a folder changes the rights of what is under it:   *)
(* PermsInherit, RemovableAll and TargetMay say that what the caller       *)
(* checked it could write it can still write when the rules that gave it   *)
(* that right are gone.                                                    *)
(***************************************************************************)
EXTENDS FileServer, SequenceTheorems, FiniteSetTheorems, WellFoundedInduction, TLAPS

LEMMA PathIs ==
  ASSUME NEW p \in Paths
  PROVE  /\ p \in Seq(STRING) /\ Len(p) \in Nat
         /\ \A i \in 1..Len(p) : p[i] \in STRING
         /\ p = <<>> <=> Len(p) = 0
<1>1. p \in Seq(STRING)
  BY JailAssumption
<1> QED BY <1>1, EmptySeq

LEMMA UpIs ==
  ASSUME NEW p \in Paths, NEW n \in 0..Len(p)
  PROVE  /\ Up(p, n) \in Paths /\ Len(Up(p, n)) = n
         /\ \A i \in 1..n : Up(p, n)[i] = p[i]
<1>1. p \in Seq(STRING) /\ Len(p) \in Nat
  BY PathIs
<1>2. \A i \in 1..n : p[i] \in STRING
  BY <1>1
<1>3. n \in Int /\ 1 \in Int
  BY <1>1
<1>4. /\ Len(SubSeq(p, 1, n)) = IF 1 <= n THEN n - 1 + 1 ELSE 0
      /\ \A i \in 1..n - 1 + 1 : SubSeq(p, 1, n)[i] = p[1 + i - 1]
  BY <1>2, <1>3, SubSeqProperties
<1> QED BY <1>1, <1>4, JailAssumption DEF Up

LEMMA PrefixIs ==
  ASSUME NEW p \in Paths, NEW q \in Paths
  PROVE  IsPrefix(p, q) <=> Len(p) <= Len(q) /\ \A i \in 1..Len(p) : p[i] = q[i]
<1>1. Len(p) \in Nat /\ Len(q) \in Nat
  BY PathIs
<1>2. CASE Len(p) <= Len(q)
  <2>1. Up(q, Len(p)) \in Paths /\ Len(Up(q, Len(p))) = Len(p)
        /\ \A i \in 1..Len(p) : Up(q, Len(p))[i] = q[i]
    BY <1>1, <1>2, UpIs
  <2>2. Up(p, Len(p)) = p
    BY PathIs, SubSeqFull DEF Up
  <2>3. IsPrefix(p, q) <=> p = Up(q, Len(p))
    BY <1>2, <2>2 DEF IsPrefix, Up
  <2>4. p = Up(q, Len(p)) <=> \A i \in 1..Len(p) : p[i] = Up(q, Len(p))[i]
    BY <2>1, PathIs, SeqEqual
  <2> QED BY <1>2, <2>1, <2>3, <2>4
<1>3. CASE ~(Len(p) <= Len(q))
  BY <1>3 DEF IsPrefix
<1> QED BY <1>2, <1>3

LEMMA SamePath ==
  ASSUME NEW p \in Paths, NEW q \in Paths, Len(p) = Len(q), \A i \in 1..Len(p) : p[i] = q[i]
  PROVE  p = q
  BY PathIs, SeqEqual

\* Paths are ordered by IsPrefix as in a tree.
LEMMA PrefixOrder ==
  ASSUME NEW p \in Paths, NEW q \in Paths
  PROVE  /\ IsPrefix(p, p) /\ IsPrefix(<<>>, p)
         /\ IsPrefix(p, q) => Len(p) <= Len(q) /\ p = Up(q, Len(p))
         /\ IsPrefix(p, q) /\ Len(p) = Len(q) => p = q
         /\ IsPrefix(p, q) /\ IsPrefix(q, p) => p = q
         /\ \A r \in Paths : IsPrefix(p, q) /\ IsPrefix(q, r) => IsPrefix(p, r)
         /\ \A r \in Paths : IsPrefix(p, r) /\ IsPrefix(q, r) /\ Len(p) <= Len(q) => IsPrefix(p, q)
<1>1. Len(p) \in Nat /\ Len(q) \in Nat /\ <<>> \in Paths /\ Len(<<>>) = 0
  BY PathIs, JailAssumption
<1>2. IsPrefix(p, p) /\ IsPrefix(<<>>, p)
  BY <1>1, PrefixIs
<1>3. IsPrefix(p, q) => Len(p) <= Len(q)
  BY PrefixIs
<1>4. IsPrefix(p, q) => p = Up(q, Len(p))
  BY <1>1, PrefixIs, UpIs, SamePath
<1>5. IsPrefix(p, q) /\ Len(p) = Len(q) => p = q
  BY PrefixIs, SamePath
<1>6. IsPrefix(p, q) /\ IsPrefix(q, p) => p = q
  BY <1>1, <1>5, PrefixIs
<1>7. ASSUME NEW r \in Paths, IsPrefix(p, q), IsPrefix(q, r) PROVE IsPrefix(p, r)
  BY <1>1, <1>7, PrefixIs, PathIs
<1>8. ASSUME NEW r \in Paths, IsPrefix(p, r), IsPrefix(q, r), Len(p) <= Len(q) PROVE IsPrefix(p, q)
  BY <1>1, <1>8, PrefixIs, PathIs
<1> QED BY <1>2, <1>3, <1>4, <1>5, <1>6, <1>7, <1>8

LEMMA UpPrefix ==
  ASSUME NEW p \in Paths, NEW n \in 0..Len(p)
  PROVE  IsPrefix(Up(p, n), p)
  BY UpIs, PathIs, PrefixIs

LEMMA UpOfPrefix ==
  ASSUME NEW p \in Paths, NEW q \in Paths, IsPrefix(p, q), NEW n \in 0..Len(p)
  PROVE  n \in 0..Len(q) /\ Up(q, n) = Up(p, n)
<1>1. Len(p) \in Nat /\ Len(q) \in Nat /\ Len(p) <= Len(q)
  BY PathIs, PrefixOrder
<1>2. n \in 0..Len(q)
  BY <1>1
<1>3. \A i \in 1..n : p[i] = q[i]
  BY <1>1, PrefixIs
<1>4. /\ Up(q, n) \in Paths /\ Len(Up(q, n)) = n /\ \A i \in 1..n : Up(q, n)[i] = q[i]
      /\ Up(p, n) \in Paths /\ Len(Up(p, n)) = n /\ \A i \in 1..n : Up(p, n)[i] = p[i]
  BY <1>2, UpIs
<1> QED BY <1>2, <1>3, <1>4, SamePath

\* The folder a path is in.
LEMMA FrontIs ==
  ASSUME NEW p \in Paths, p # <<>>
  PROVE  /\ Front(p) \in Paths /\ Len(Front(p)) = Len(p) - 1 /\ Len(p) >= 1
         /\ Front(p) = Up(p, Len(p) - 1)
         /\ IsPrefix(Front(p), p) /\ Front(p) # p
         /\ \A q \in Paths : IsPrefix(q, p) /\ q # p => IsPrefix(q, Front(p))
<1>1. Len(p) \in Nat /\ Len(p) >= 1 /\ Len(p) - 1 \in 0..Len(p)
  BY PathIs
<1>2. Front(p) = Up(p, Len(p) - 1)
  BY DEF Front, Up
<1>3. Front(p) \in Paths /\ Len(Front(p)) = Len(p) - 1 /\ IsPrefix(Front(p), p)
  BY <1>1, <1>2, UpIs, UpPrefix
<1>4. ASSUME NEW q \in Paths, IsPrefix(q, p), q # p PROVE IsPrefix(q, Front(p))
  <2>1. Len(q) \in Nat /\ Len(q) <= Len(p) /\ Len(q) # Len(p)
    BY <1>4, PathIs, PrefixOrder
  <2> QED BY <1>1, <1>3, <1>4, <2>1, PrefixOrder
<1> QED BY <1>1, <1>2, <1>3, <1>4

LEMMA BelowIs ==
  ASSUME NEW p \in Paths
  PROVE  /\ \A q \in Paths : q \in Below(p) <=> IsPrefix(p, q) /\ q # p
         /\ \A q \in Paths : q \in Within(p) <=> IsPrefix(p, q)
         /\ \A q \in Paths : q \in Inside(p) <=> q # <<>> /\ Front(q) = p
         /\ Below(p) \subseteq Paths /\ Within(p) \subseteq Paths /\ Inside(p) \subseteq Below(p)
<1>1. \A q : q \in Below(p) <=> q \in Paths /\ IsPrefix(p, q) /\ q # p
  BY DEF Below, BelowOf, IsStrictPrefix
<1>2. \A q \in Paths : q \in Within(p) <=> IsPrefix(p, q)
  <2>1. \A q : q \in Within(p) <=> q \in Below(p) \/ q = p
    BY DEF Within, Below
  <2>2. IsPrefix(p, p)
    BY PrefixOrder
  <2> QED BY <1>1, <2>1, <2>2
<1>3. ASSUME NEW q \in Paths PROVE q \in Inside(p) <=> q # <<>> /\ Front(q) = p
  <2>1. q \in Inside(p) <=> IsPrefix(p, q) /\ q # p /\ Len(q) = Len(p) + 1
    BY <1>1 DEF Inside, InsideOf, Below
  <2>2. Len(p) \in Nat /\ Len(q) \in Nat /\ (q = <<>> <=> Len(q) = 0)
    BY PathIs
  <2>3. CASE q = <<>>
    BY <2>1, <2>2, <2>3
  <2>4. CASE q # <<>>
    <3>1. Front(q) \in Paths /\ Len(Front(q)) = Len(q) - 1 /\ IsPrefix(Front(q), q) /\ Front(q) # q
      BY <2>4, FrontIs
    <3>2. ASSUME IsPrefix(p, q), q # p, Len(q) = Len(p) + 1 PROVE Front(q) = p
      <4>1. IsPrefix(p, Front(q))
        BY <2>4, <3>2, FrontIs
      <4> QED BY <2>2, <3>1, <3>2, <4>1, PrefixOrder
    <3> QED BY <2>1, <2>2, <2>4, <3>1, <3>2
  <2> QED BY <2>3, <2>4
<1> QED BY <1>1, <1>2, <1>3 DEF Within, Inside, InsideOf, Below

-----------------------------------------------------------------------------
(* Checks in a row.                                                        *)

LEMMA FirstIs ==
  ASSUME NEW a, NEW b
  PROVE  First(<<a, b>>) = IF a # OkCode THEN a ELSE b
<1> DEFINE codes == <<a, b>>
           bad == {n \in DOMAIN codes : codes[n] # OkCode}
<1>1. DOMAIN codes = {1, 2} /\ codes[1] = a /\ codes[2] = b
  OBVIOUS
<1>2. CASE a # OkCode
  <2>1. \A n \in bad : (\A o \in bad : n <= o) <=> n = 1
    BY <1>1, <1>2
  <2>2. 1 \in bad
    BY <1>1, <1>2
  <2> HIDE DEF bad
  <2>3. (CHOOSE n \in bad : \A o \in bad : n <= o) = 1
    BY <2>1, <2>2
  <2> QED BY <1>1, <1>2, <2>2, <2>3 DEF First, bad
<1>3. CASE a = OkCode /\ b # OkCode
  <2>1. bad = {2}
    BY <1>1, <1>3
  <2>2. (CHOOSE n \in {2} : \A o \in {2} : n <= o) = 2
    OBVIOUS
  <2> QED BY <1>1, <1>3, <2>1, <2>2 DEF First
<1>4. CASE a = OkCode /\ b = OkCode
  BY <1>1, <1>4 DEF First
<1> QED BY <1>2, <1>3, <1>4

LEMMA LeastOf ==
  ASSUME NEW S, S \subseteq Nat, S # {}
  PROVE  \E n \in S : \A o \in S : n <= o
<1>1. PICK n \in S : \A o \in S : ~(<<o, n>> \in OpToRel(<, Nat))
  BY WFMin, NatLessThanWellFounded, Zenon
<1>2. \A o \in S : ~(o < n)
  BY <1>1 DEF OpToRel
<1> QED BY <1>2

LEMMA FirstOk ==
  /\ \A a, b : First(<<a, b>>) = OkCode <=> a = OkCode /\ b = OkCode
  /\ \A a, b, c : First(<<a, b, c>>) = OkCode <=> a = OkCode /\ b = OkCode /\ c = OkCode
  /\ \A a, b, c, e : First(<<a, b, c, e>>) = OkCode
                       <=> a = OkCode /\ b = OkCode /\ c = OkCode /\ e = OkCode
<1>1. ASSUME NEW codes, NEW k \in {2, 3, 4}, DOMAIN codes = 1..k
      PROVE  First(codes) = OkCode <=> \A n \in 1..k : codes[n] = OkCode
  <2> DEFINE bad == {n \in DOMAIN codes : codes[n] # OkCode}
  <2>1. CASE bad = {}
    BY <1>1, <2>1 DEF First
  <2>2. CASE bad # {}
    <3>1. PICK m \in bad : \A o \in bad : m <= o
      <4>1. bad \subseteq Nat
        BY <1>1
      <4> HIDE DEF bad
      <4> QED BY <2>2, <4>1, LeastOf
    <3> DEFINE least == CHOOSE n \in bad : \A o \in bad : n <= o
    <3>2. least \in bad
      BY <3>1
    <3>3. First(codes) = codes[least]
      BY <2>2 DEF First
    <3>4. codes[least] # OkCode /\ least \in 1..k
      BY <1>1, <3>2
    <3> QED BY <3>3, <3>4
  <2> QED BY <2>1, <2>2
<1>2. ASSUME NEW a, NEW b PROVE First(<<a, b>>) = OkCode <=> a = OkCode /\ b = OkCode
  BY FirstIs
<1>3. ASSUME NEW a, NEW b, NEW c
      PROVE  First(<<a, b, c>>) = OkCode <=> a = OkCode /\ b = OkCode /\ c = OkCode
  <2> DEFINE codes == <<a, b, c>>
  <2>1. DOMAIN codes = 1..3 /\ codes[1] = a /\ codes[2] = b /\ codes[3] = c
    OBVIOUS
  <2>2. First(codes) = OkCode <=> \A n \in 1..3 : codes[n] = OkCode
    BY <1>1, <2>1
  <2> HIDE DEF codes
  <2>3. First(codes) = OkCode <=> a = OkCode /\ b = OkCode /\ c = OkCode
    BY <2>1, <2>2
  <2> QED BY <2>3 DEF codes
<1>4. ASSUME NEW a, NEW b, NEW c, NEW e
      PROVE  First(<<a, b, c, e>>) = OkCode <=> a = OkCode /\ b = OkCode /\ c = OkCode /\ e = OkCode
  <2> DEFINE codes == <<a, b, c, e>>
  <2>1. DOMAIN codes = 1..4 /\ codes[1] = a /\ codes[2] = b /\ codes[3] = c /\ codes[4] = e
    OBVIOUS
  <2>2. First(codes) = OkCode <=> \A n \in 1..4 : codes[n] = OkCode
    BY <1>1, <2>1
  <2> HIDE DEF codes
  <2>3. First(codes) = OkCode <=> a = OkCode /\ b = OkCode /\ c = OkCode /\ e = OkCode
    BY <2>1, <2>2
  <2> QED BY <2>3 DEF codes
<1> QED BY <1>2, <1>3, <1>4

-----------------------------------------------------------------------------
(* Permissions.                                                            *)

LEMMA MostOf ==
  ASSUME NEW k \in Nat, NEW S, S \subseteq 0..k, S # {}
  PROVE  \E n \in S : \A o \in S : o <= n
<1> DEFINE T == {k - n : n \in S}
<1>1. \A n \in S : k - n \in Nat
  OBVIOUS
<1>2. T \subseteq Nat /\ T # {}
  BY <1>1
<1> HIDE DEF T
<1>3. PICK t \in T : \A u \in T : t <= u
  BY <1>2, LeastOf
<1>4. PICK n \in S : t = k - n
  BY DEF T
<1>5. ASSUME NEW o \in S PROVE o <= n
  <2>1. k - n <= k - o
    BY <1>3, <1>4 DEF T
  <2> QED BY <2>1
<1> QED BY <1>5

\* The rule that counts for p.
LEMMA NearestRule ==
  ASSUME NEW d, NEW p \in Paths, Ruled(d, p) # {}
  PROVE  (CHOOSE n \in Ruled(d, p) : \A o \in Ruled(d, p) : o <= n) \in Ruled(d, p)
<1>1. \E n \in Ruled(d, p) : \A o \in Ruled(d, p) : o <= n
  BY PathIs, MostOf DEF Ruled
<1> QED BY <1>1

\* Only the rules on the way to p count for it.
LEMMA PermsSame ==
  ASSUME NEW d, NEW e, NEW p \in Paths, NEW u,
         \A q \in Paths : IsPrefix(q, p) => d.rules[q] = e.rules[q]
  PROVE  Perms(d, p, u) = Perms(e, p, u)
<1>1. \A n \in 0..Len(p) : d.rules[Up(p, n)] = e.rules[Up(p, n)]
  BY UpIs, UpPrefix
<1>2. Ruled(d, p) = Ruled(e, p)
  BY <1>1 DEF Ruled
<1> DEFINE n == CHOOSE k \in Ruled(d, p) : \A o \in Ruled(d, p) : o <= k
<1>3. Ruled(d, p) # {} => n \in 0..Len(p)
  BY NearestRule DEF Ruled
<1> QED BY <1>1, <1>2, <1>3 DEF Perms

\* Below the last rule on the way, all is as there, but for /home and the root.
LEMMA PermsInherit ==
  ASSUME NEW d, NEW p \in Paths, NEW q \in Paths, NEW u, IsPrefix(p, q),
         p # <<>>, p # <<HomeName>>,
         \A r \in Paths : IsPrefix(p, r) /\ r # p /\ IsPrefix(r, q) => d.rules[r] = NoRules
  PROVE  Perms(d, q, u) = Perms(d, p, u)
<1>1. Len(p) \in Nat /\ Len(q) \in Nat /\ Len(p) <= Len(q) /\ Len(p) > 0
  BY PathIs, PrefixOrder
<1>2. \A n \in 0..Len(p) : n \in 0..Len(q) /\ Up(q, n) = Up(p, n)
  BY UpOfPrefix
<1>3. ASSUME NEW n \in 0..Len(q), n > Len(p) PROVE d.rules[Up(q, n)] = NoRules
  <2>1. Up(q, n) \in Paths /\ IsPrefix(Up(q, n), q) /\ Len(Up(q, n)) = n
    BY UpIs, UpPrefix
  <2>2. IsPrefix(p, Up(q, n)) /\ Up(q, n) # p
    BY <1>1, <1>3, <2>1, PrefixOrder
  <2> QED BY <2>1, <2>2
<1>4. Ruled(d, q) = Ruled(d, p)
  BY <1>1, <1>2, <1>3 DEF Ruled
<1> DEFINE n == CHOOSE k \in Ruled(d, p) : \A o \in Ruled(d, p) : o <= k
<1>5. Ruled(d, p) # {} => Up(q, n) = Up(p, n)
  BY <1>2, NearestRule DEF Ruled
<1>6. /\ q # <<>> /\ p[1] = q[1] /\ (Len(p) > 1 => p[2] = q[2])
      /\ p[1] = HomeName => Len(p) > 1
  <2>1. p[1] = q[1] /\ (Len(p) > 1 => p[2] = q[2])
    BY <1>1, PrefixIs
  <2>2. ASSUME p[1] = HomeName, Len(p) = 1 PROVE FALSE
    <3>1. p = <<p[1]>>
      BY <2>2, PathIs, SeqEqual
    <3> QED BY <2>2, <3>1
  <2>3. q # <<>>
    BY <1>1, PathIs
  <2>4. ASSUME p[1] = HomeName PROVE Len(p) > 1
    <3>1. Len(p) # 1
      BY <2>2, <2>4
    <3>2. \A k \in Nat : k > 0 /\ k # 1 => k > 1
      OBVIOUS
    <3> QED BY <1>1, <3>1, <3>2, Zenon
  <2> QED BY <2>1, <2>3, <2>4
<1>7. (q = <<HomeName>> => p = <<HomeName>>) /\ (Len(q) > 1 /\ q[1] = HomeName => Len(p) > 1 /\ p[1] = HomeName)
  BY <1>1, <1>6
<1>8. Len(p) > 1 /\ p[1] = HomeName => Len(q) > 1 /\ q[1] = HomeName /\ q[2] = p[2]
  BY <1>1, <1>6
<1> HIDE DEF n
<1>9. CASE Ruled(d, p) = {}
  BY <1>4, <1>6, <1>7, <1>8, <1>9 DEF Perms
<1>10. CASE Ruled(d, p) # {}
  BY <1>4, <1>5, <1>6, <1>7, <1>8, <1>10 DEF Perms, n
<1> QED BY <1>9, <1>10

LEMMA PermsAre ==
  ASSUME NEW d, NEW p \in Paths, NEW u
  PROVE  /\ Perms(d, p, u) \in [read : BOOLEAN, write : BOOLEAN]
         /\ Perms(d, p, u).write => Perms(d, p, u).read
         /\ Check(Perms(d, p, u), "write") = OkCode <=> Perms(d, p, u).write
         /\ Check(Perms(d, p, u), "read") = OkCode <=> Perms(d, p, u).read
<1>1. /\ Perms(d, p, u) \in [read : BOOLEAN, write : BOOLEAN]
      /\ Perms(d, p, u).write => Perms(d, p, u).read
  <2>1. \A rule : /\ RulePerms(rule, u) \in [read : BOOLEAN, write : BOOLEAN]
                  /\ RulePerms(rule, u).write => RulePerms(rule, u).read
    BY DEF RulePerms
  <2>2. /\ All \in [read : BOOLEAN, write : BOOLEAN] /\ All.read /\ All.write
        /\ Nothing \in [read : BOOLEAN, write : BOOLEAN] /\ ~Nothing.write
    BY DEF All, Nothing
  <2> DEFINE home == [read |-> u # Anonymous, write |-> FALSE]
  <2>3. home \in [read : BOOLEAN, write : BOOLEAN] /\ ~home.write
    OBVIOUS
  <2> HIDE DEF home
  <2>4. \/ Perms(d, p, u) \in {home, All, Nothing}
        \/ \E rule : Perms(d, p, u) = RulePerms(rule, u)
    BY DEF Perms, home
  <2> QED BY <2>1, <2>2, <2>3, <2>4
<1> QED BY <1>1 DEF Check, OkCode, NotFound, Denied

-----------------------------------------------------------------------------
(* What a check that lets a request through says.                          *)

LEMMA ResolveIs ==
  ASSUME NEW d, NEW p
  PROVE  Resolve(d, p) = OkCode <=> Present(d, p)
<1>1. CASE Present(d, p)
  BY <1>1 DEF Resolve
<1>2. CASE ~Present(d, p)
  <2> DEFINE through == \E n \in 1..(Len(p) - 1) : IsFile(d, Up(p, n))
  <2>1. Resolve(d, p) = IF through THEN Io ELSE NotFound
    BY <1>2 DEF Resolve
  <2> HIDE DEF through
  <2> QED BY <1>2, <2>1 DEF OkCode, Io, NotFound
<1> QED BY <1>1, <1>2

LEMMA AuthorizeIs ==
  ASSUME NEW d, NEW p \in Paths, NEW u
  PROVE  /\ Authorize(d, p, u, "read") = OkCode <=> Perms(d, p, u).read /\ Present(d, p)
         /\ Authorize(d, p, u, "write") = OkCode <=> Perms(d, p, u).write /\ Present(d, p)
  BY PermsAre, ResolveIs, FirstOk DEF Authorize

LEMMA AuthorizeNewIs ==
  ASSUME NEW d, NEW p \in Paths, NEW u
  PROVE  AuthorizeNew(d, p, u) = OkCode
           <=> p # <<>> /\ Perms(d, p, u).write /\ Present(d, Front(p)) /\ IsFolder(d, Front(p))
<1>1. CASE p = <<>>
  BY <1>1 DEF AuthorizeNew, Exists, OkCode
<1>2. CASE p # <<>>
  <2> DEFINE kind == IF IsFolder(d, Front(p)) THEN OkCode ELSE NotADirectory
  <2>1. kind = OkCode <=> IsFolder(d, Front(p))
    BY DEF NotADirectory, OkCode
  <2>2. AuthorizeNew(d, p, u)
          = First(<<Check(Perms(d, p, u), "write"), Resolve(d, Front(p)), kind>>)
    BY <1>2 DEF AuthorizeNew
  <2> HIDE DEF kind
  <2> QED BY <1>2, <2>1, <2>2, PermsAre, ResolveIs, FirstOk
<1> QED BY <1>1, <1>2

LEMMA CheckTreeIs ==
  ASSUME NEW d, NEW p \in Paths, NEW u
  PROVE  /\ CheckTree(d, p, u, "read") = OkCode
               <=> \A q \in Below(p) : IsFolder(d, q) => Perms(d, q, u).read
         /\ CheckTree(d, p, u, "write") = OkCode
               <=> \A q \in Below(p) : IsFolder(d, q) => Perms(d, q, u).write
<1>1. ASSUME NEW need
      PROVE  CheckTree(d, p, u, need) = OkCode
               <=> \A q \in Below(p) : IsFolder(d, q) => Check(Perms(d, q, u), need) = OkCode
  BY DEF CheckTree, Denied, OkCode
<1>2. \A q \in Below(p) : q \in Paths
  BY BelowIs
<1> QED BY <1>1, <1>2, PermsAre

\* All of p may go.
Removable(d, p, u) ==
  /\ p # <<>> /\ Present(d, p) /\ Present(d, Front(p))
  /\ Perms(d, p, u).write /\ Perms(d, Front(p), u).write
  /\ \A q \in Below(p) : IsFolder(d, q) => Perms(d, q, u).write

LEMMA CheckRemovableIs ==
  ASSUME NEW d, NEW p \in Paths, NEW u
  PROVE  CheckRemovable(d, p, u) = OkCode <=> Removable(d, p, u)
<1>1. CASE p = <<>>
  BY <1>1 DEF CheckRemovable, Removable, Denied, OkCode
<1>2. CASE p # <<>>
  <2>1. Front(p) \in Paths
    BY <1>2, FrontIs
  <2> QED BY <1>2, <2>1, PermsAre, AuthorizeIs, CheckTreeIs, FirstOk DEF CheckRemovable, Removable
<1> QED BY <1>1, <1>2

LEMMA CheckWritableTargetIs ==
  ASSUME NEW d, NEW p \in Paths, NEW u
  PROVE  CheckWritableTarget(d, p, u) = OkCode
           <=> /\ AuthorizeNew(d, p, u) = OkCode /\ ~IsFolder(d, p)
               /\ IsFile(d, p) => Removable(d, p, u)
<1>1. CASE AuthorizeNew(d, p, u) # OkCode
  BY <1>1 DEF CheckWritableTarget
<1>2. CASE AuthorizeNew(d, p, u) = OkCode /\ IsFolder(d, p)
  BY <1>2 DEF CheckWritableTarget, Exists, OkCode
<1>3. CASE AuthorizeNew(d, p, u) = OkCode /\ ~IsFolder(d, p) /\ IsFile(d, p)
  BY <1>3, CheckRemovableIs DEF CheckWritableTarget
<1>4. CASE AuthorizeNew(d, p, u) = OkCode /\ ~IsFolder(d, p) /\ ~IsFile(d, p)
  BY <1>4 DEF CheckWritableTarget
<1> QED BY <1>1, <1>2, <1>3, <1>4

LEMMA CheckReadableTreeIs ==
  ASSUME NEW d, NEW p \in Paths, NEW u
  PROVE  CheckReadableTree(d, p, u) = OkCode
           <=> /\ Perms(d, p, u).read /\ Present(d, p)
               /\ \A q \in Below(p) : IsFolder(d, q) => Perms(d, q, u).read
  BY AuthorizeIs, CheckTreeIs, FirstOk DEF CheckReadableTree

-----------------------------------------------------------------------------
(* Disks.                                                                  *)

LEMMA KindIs ==
  ASSUME NEW d, WellFormed(d), NEW p \in Paths
  PROVE  /\ d.tree[p] \in Texts \union {Absent, Folder}
         /\ IsFile(d, p) => Present(d, p) /\ ~IsFolder(d, p)
         /\ IsFolder(d, p) => Present(d, p)
         /\ Present(d, p) => IsFile(d, p) \/ IsFolder(d, p)
  BY JailAssumption DEF WellFormed, IsFile, IsFolder, Present

\* The folders on the way to what is there.
LEMMA WayIsFolders ==
  ASSUME NEW d, WellFormed(d), NEW p \in Paths, Present(d, p),
         NEW q \in Paths, IsPrefix(q, p), q # p
  PROVE  IsFolder(d, q)
<1> DEFINE S == {n \in 0..Len(p) - 1 : ~IsFolder(d, Up(p, n))}
<1>1. Len(p) \in Nat /\ Len(q) \in Nat /\ Len(q) < Len(p) /\ q = Up(p, Len(q))
  BY PathIs, PrefixOrder
<1>2. SUFFICES S = {}
  BY <1>1
<1>3. SUFFICES ASSUME S # {} PROVE FALSE
  OBVIOUS
<1>4. PICK n \in S : \A o \in S : o <= n
  <2>1. Len(p) - 1 \in Nat /\ S \subseteq 0..Len(p) - 1
    BY <1>1
  <2> HIDE DEF S
  <2> QED BY <1>3, <2>1, MostOf
<1>5. n \in 0..Len(p) - 1 /\ ~IsFolder(d, Up(p, n))
  BY <1>4
<1>6. Present(d, Up(p, n + 1))
  <2>1. CASE n + 1 = Len(p)
    BY <2>1, PrefixOrder
  <2>2. CASE n + 1 < Len(p)
    <3>1. n + 1 \notin S
      BY <1>4
    <3>2. n + 1 \in 0..Len(p) - 1
      BY <1>1, <1>5, <2>2
    <3>3. IsFolder(d, Up(p, n + 1)) /\ Up(p, n + 1) \in Paths
      BY <1>1, <3>1, <3>2, UpIs
    <3> QED BY <3>3, KindIs
  <2> QED BY <1>1, <1>5, <2>1, <2>2
<1>7. /\ Up(p, n + 1) \in Paths /\ Len(Up(p, n + 1)) = n + 1 /\ IsPrefix(Up(p, n + 1), p)
      /\ n \in 0..Len(Up(p, n + 1)) /\ Up(p, n + 1) # <<>>
  BY <1>1, <1>5, UpIs, UpPrefix, PathIs
<1>8. Up(p, n) = Up(Up(p, n + 1), n)
  BY <1>7, UpOfPrefix
<1>9. Front(Up(p, n + 1)) = Up(p, n)
  BY <1>5, <1>7, <1>8, FrontIs
<1> QED BY <1>5, <1>6, <1>7, <1>9 DEF WellFormed

\* Nothing is in what is no folder, and there are no rules there.
LEMMA NothingBelow ==
  ASSUME NEW d, WellFormed(d), NEW p \in Paths, ~IsFolder(d, p), NEW q \in Below(p)
  PROVE  ~Present(d, q) /\ ~IsFolder(d, q) /\ ~IsFile(d, q) /\ d.rules[q] = NoRules
<1>1. q \in Paths /\ IsPrefix(p, q) /\ q # p
  BY BelowIs
<1>2. ~Present(d, q)
  BY <1>1, WayIsFolders
<1> QED BY <1>1, <1>2, KindIs DEF WellFormed

-----------------------------------------------------------------------------
(* Where an entry of a folder goes with it.                                *)

LEMMA LandingAt ==
  ASSUME NEW a \in Paths, NEW b \in Paths, NEW q \in Paths, IsPrefix(a, q)
  PROVE  /\ Landing(q, a, b) \in Seq(STRING)
         /\ Len(Landing(q, a, b)) = Len(b) + Len(q) - Len(a)
         /\ \A i \in 1..Len(b) + Len(q) - Len(a) :
              Landing(q, a, b)[i] = IF i <= Len(b) THEN b[i] ELSE q[i - Len(b) + Len(a)]
<1> DEFINE rest == SubSeq(q, Len(a) + 1, Len(q))
<1>1. /\ Len(a) \in Nat /\ Len(b) \in Nat /\ Len(q) \in Nat /\ Len(a) <= Len(q)
      /\ b \in Seq(STRING) /\ \A i \in 1..Len(q) : q[i] \in STRING
  BY PathIs, PrefixOrder
<1>2. /\ Len(a) + 1 \in Int /\ Len(q) \in Int
      /\ \A i \in Len(a) + 1..Len(q) : q[i] \in STRING
  BY <1>1
<1>3. /\ rest \in Seq(STRING)
      /\ Len(rest) = IF Len(a) + 1 <= Len(q) THEN Len(q) - (Len(a) + 1) + 1 ELSE 0
      /\ \A i \in 1..Len(q) - (Len(a) + 1) + 1 : rest[i] = q[Len(a) + 1 + i - 1]
  BY <1>2, SubSeqProperties
<1>4. Len(rest) = Len(q) - Len(a) /\ \A i \in 1..Len(q) - Len(a) : rest[i] = q[Len(a) + i]
  BY <1>1, <1>3
<1> HIDE DEF rest
<1>5. /\ b \o rest \in Seq(STRING) /\ Len(b \o rest) = Len(b) + Len(rest)
      /\ \A i \in 1..Len(b) + Len(rest) :
           (b \o rest)[i] = IF i <= Len(b) THEN b[i] ELSE rest[i - Len(b)]
  BY <1>1, <1>3, ConcatProperties
<1>6. ASSUME NEW i \in 1..Len(b) + Len(q) - Len(a), ~(i <= Len(b))
      PROVE  rest[i - Len(b)] = q[i - Len(b) + Len(a)]
  <2>1. i - Len(b) \in 1..Len(q) - Len(a) /\ Len(a) + (i - Len(b)) = i - Len(b) + Len(a)
    BY <1>1, <1>6
  <2> QED BY <1>4, <2>1
<1> QED BY <1>1, <1>4, <1>5, <1>6 DEF Landing, rest

LEMMA LandingIs ==
  ASSUME NEW a \in Paths, NEW b \in Paths, NEW q \in Paths, IsPrefix(a, q),
         Landing(q, a, b) \in Paths
  PROVE  /\ IsPrefix(b, Landing(q, a, b))
         /\ Landing(Landing(q, a, b), b, a) = q
         /\ Landing(q, a, b) = b <=> q = a
<1> DEFINE l == Landing(q, a, b)
<1>1. Len(a) \in Nat /\ Len(b) \in Nat /\ Len(q) \in Nat /\ Len(a) <= Len(q)
  BY PathIs, PrefixOrder
<1>2. /\ Len(l) = Len(b) + Len(q) - Len(a)
      /\ \A i \in 1..Len(b) + Len(q) - Len(a) :
              l[i] = IF i <= Len(b) THEN b[i] ELSE q[i - Len(b) + Len(a)]
  BY LandingAt
<1> HIDE DEF l
<1>3. IsPrefix(b, l)
  <2>1. Len(b) <= Len(l)
    BY <1>1, <1>2
  <2>2. ASSUME NEW i \in 1..Len(b) PROVE b[i] = l[i]
    BY <1>1, <1>2
  <2>3. l \in Paths
    BY DEF l
  <2> QED BY <2>1, <2>2, <2>3, PrefixIs
<1>4. Landing(l, b, a) = q
  <2>1. /\ Landing(l, b, a) \in Seq(STRING)
        /\ Len(Landing(l, b, a)) = Len(a) + Len(l) - Len(b)
        /\ \A i \in 1..Len(a) + Len(l) - Len(b) :
             Landing(l, b, a)[i] = IF i <= Len(a) THEN a[i] ELSE l[i - Len(a) + Len(b)]
    BY <1>3, LandingAt DEF l
  <2>2. Len(Landing(l, b, a)) = Len(q)
    BY <1>1, <1>2, <2>1
  <2>3. ASSUME NEW i \in 1..Len(q) PROVE Landing(l, b, a)[i] = q[i]
    <3>1. CASE i <= Len(a)
      BY <1>1, <1>2, <2>1, <3>1, PrefixIs
    <3>2. CASE ~(i <= Len(a))
      <4> DEFINE j == i - Len(a) + Len(b)
      <4>1. j \in 1..Len(b) + Len(q) - Len(a) /\ ~(j <= Len(b)) /\ j - Len(b) + Len(a) = i
        BY <1>1, <3>2
      <4>2. i \in 1..Len(a) + Len(l) - Len(b)
        BY <1>1, <1>2
      <4>3. Landing(l, b, a)[i] = l[j]
        BY <2>1, <3>2, <4>2
      <4> HIDE DEF j
      <4>4. l[j] = q[j - Len(b) + Len(a)]
        BY <1>2, <4>1
      <4> QED BY <4>1, <4>3, <4>4
    <3> QED BY <3>1, <3>2
  <2> QED BY <2>1, <2>2, <2>3, PathIs, SeqEqual
<1>5. l = b <=> q = a
  <2>1. l = b => q = a
    <3>1. l = b => Len(q) = Len(a)
      BY <1>1, <1>2
    <3> QED BY <3>1, PrefixOrder
  <2>2. q = a => l = b
    <3>1. q = a => Len(l) = Len(b)
      BY <1>1, <1>2
    <3> QED BY <1>3, <3>1, PrefixOrder DEF l
  <2> QED BY <2>1, <2>2
<1> QED BY <1>3, <1>4, <1>5 DEF l

\* What is on the way to it lands on the way to where it lands.
LEMMA LandingOnTheWay ==
  ASSUME NEW a \in Paths, NEW b \in Paths, NEW q \in Paths, Landing(q, a, b) \in Paths,
         NEW r \in Paths, IsPrefix(a, r), IsPrefix(r, q)
  PROVE  Landing(r, a, b) \in Paths /\ IsPrefix(Landing(r, a, b), Landing(q, a, b))
<1> DEFINE l == Landing(q, a, b)
           m == Landing(r, a, b)
           n == Len(b) + Len(r) - Len(a)
<1>1. /\ Len(a) \in Nat /\ Len(b) \in Nat /\ Len(q) \in Nat /\ Len(r) \in Nat
      /\ Len(a) <= Len(r) /\ Len(r) <= Len(q) /\ IsPrefix(a, q)
  BY PathIs, PrefixOrder
<1>2. /\ Len(l) = Len(b) + Len(q) - Len(a)
      /\ \A i \in 1..Len(b) + Len(q) - Len(a) :
              l[i] = IF i <= Len(b) THEN b[i] ELSE q[i - Len(b) + Len(a)]
  BY <1>1, LandingAt
<1>3. /\ m \in Seq(STRING) /\ Len(m) = n
      /\ \A i \in 1..n : m[i] = IF i <= Len(b) THEN b[i] ELSE r[i - Len(b) + Len(a)]
  BY LandingAt
<1> HIDE DEF l, m
<1>4. n \in 0..Len(l)
  BY <1>1, <1>2
<1>5. Up(l, n) \in Paths /\ Len(Up(l, n)) = n /\ \A i \in 1..n : Up(l, n)[i] = l[i]
  BY <1>4, UpIs DEF l
<1>6. ASSUME NEW i \in 1..n PROVE m[i] = Up(l, n)[i]
  <2>1. i \in 1..Len(b) + Len(q) - Len(a) /\ (~(i <= Len(b)) => i - Len(b) + Len(a) \in 1..Len(r))
    BY <1>1
  <2>2. ~(i <= Len(b)) => r[i - Len(b) + Len(a)] = q[i - Len(b) + Len(a)]
    BY <2>1, PrefixIs
  <2> QED BY <1>2, <1>3, <1>5, <2>1, <2>2
<1>7. m = Up(l, n)
  BY <1>3, <1>5, <1>6, PathIs, SeqEqual
<1> QED BY <1>4, <1>5, <1>7, UpPrefix DEF l, m

LEMMA LandingFront ==
  ASSUME NEW a \in Paths, NEW b \in Paths, NEW q \in Paths, IsPrefix(a, q), q # a,
         Landing(q, a, b) \in Paths
  PROVE  /\ q # <<>> /\ IsPrefix(a, Front(q)) /\ Landing(q, a, b) # <<>>
         /\ Landing(Front(q), a, b) = Front(Landing(q, a, b))
<1> DEFINE l == Landing(q, a, b)
           m == Landing(Front(q), a, b)
<1>1. Len(a) \in Nat /\ Len(b) \in Nat /\ Len(q) \in Nat /\ Len(a) < Len(q)
  BY PathIs, PrefixOrder
<1>2. q # <<>>
  BY <1>1, PathIs
<1>3. Front(q) \in Paths /\ Len(Front(q)) = Len(q) - 1 /\ IsPrefix(Front(q), q) /\ IsPrefix(a, Front(q))
  BY <1>2, FrontIs
<1>4. m \in Paths /\ IsPrefix(m, l)
  BY <1>3, LandingOnTheWay
<1>5. Len(l) = Len(b) + Len(q) - Len(a) /\ Len(m) = Len(b) + (Len(q) - 1) - Len(a)
  <2>1. Len(l) = Len(b) + Len(q) - Len(a)
    BY LandingAt
  <2>2. Len(m) = Len(b) + Len(Front(q)) - Len(a)
    BY <1>3, LandingAt
  <2> QED BY <1>3, <2>1, <2>2
<1> HIDE DEF l, m
<1>6. l \in Paths /\ l # <<>> /\ m # l
  BY <1>1, <1>5, PathIs DEF l
<1>7. Front(l) \in Paths /\ Len(Front(l)) = Len(l) - 1 /\ IsPrefix(m, Front(l))
  BY <1>4, <1>6, FrontIs
<1>8. m = Front(l)
  <2>1. Len(m) = Len(Front(l))
    BY <1>1, <1>5, <1>7
  <2> QED BY <1>4, <1>7, <2>1, PrefixOrder
<1> QED BY <1>2, <1>3, <1>6, <1>8 DEF l, m

-----------------------------------------------------------------------------
(* What the disk is after each act.                                        *)

DiskSet == [tree : [Paths -> Texts \union {Absent, Folder}], rules : [Paths -> Rules \union {NoRules}]]

LEMMA DiskIs ==
  ASSUME NEW d, WellFormed(d)
  PROVE  /\ d \in DiskSet /\ IsFolder(d, <<>>) /\ <<>> \in Paths
         /\ \A p \in Paths : p # <<>> /\ Present(d, p) => IsFolder(d, Front(p))
         /\ \A p \in Paths : d.rules[p] # NoRules => IsFolder(d, p)
  BY JailAssumption DEF WellFormed, DiskSet

\* A file in place of none, or of another; or a new folder.
LEMMA PutIs ==
  ASSUME NEW d, WellFormed(d), NEW p \in Paths, NEW kind \in Texts \union {Folder},
         IsFolder(d, Front(p)), ~IsFolder(d, p)
  PROVE  /\ WellFormed(Put(d, p, kind))
         /\ Put(d, p, kind).rules = d.rules
         /\ \A q \in Paths : Put(d, p, kind).tree[q] = IF q = p THEN kind ELSE d.tree[q]
<1> DEFINE e == Put(d, p, kind)
<1>1. d \in DiskSet /\ p # <<>>
  BY DiskIs
<1>2. e.rules = d.rules /\ e \in DiskSet
  BY <1>1 DEF Put, DiskSet
<1>3. \A q \in Paths : e.tree[q] = IF q = p THEN kind ELSE d.tree[q]
  BY <1>1 DEF Put, DiskSet
<1> HIDE DEF e
<1>4. \A q \in Paths : IsFolder(d, q) => IsFolder(e, q)
  BY <1>3 DEF IsFolder
<1>5. ASSUME NEW q \in Paths, q # <<>>, Present(e, q) PROVE IsFolder(e, Front(q))
  <2>1. Front(q) \in Paths
    BY <1>5, FrontIs
  <2>2. IsFolder(d, Front(q))
    BY <1>3, <1>5, DiskIs DEF Present
  <2> QED BY <1>4, <2>1, <2>2
<1>6. \A q \in Paths : e.rules[q] # NoRules => IsFolder(e, q)
  BY <1>2, <1>4, DiskIs
<1>7. IsFolder(e, <<>>)
  BY <1>4, DiskIs
<1>8. WellFormed(e)
  BY <1>2, <1>5, <1>6, <1>7 DEF WellFormed, DiskSet
<1> QED BY <1>2, <1>3, <1>8 DEF e

LEMMA WithoutIs ==
  ASSUME NEW d, WellFormed(d), NEW p \in Paths, p # <<>>
  PROVE  /\ WellFormed(Without(d, p))
         /\ \A q \in Paths :
              /\ Without(d, p).tree[q] = IF IsPrefix(p, q) THEN Absent ELSE d.tree[q]
              /\ Without(d, p).rules[q] = IF IsPrefix(p, q) THEN NoRules ELSE d.rules[q]
<1> DEFINE e == Without(d, p)
<1>1. d \in DiskSet
  BY DiskIs
<1>2. \A q \in Paths : /\ e.tree[q] = IF IsPrefix(p, q) THEN Absent ELSE d.tree[q]
                       /\ e.rules[q] = IF IsPrefix(p, q) THEN NoRules ELSE d.rules[q]
  BY BelowIs DEF Without
<1>3. e \in DiskSet
  BY <1>1 DEF Without, DiskSet
<1> HIDE DEF e
<1>4. \A q \in Paths : IsFolder(d, q) /\ ~IsPrefix(p, q) => IsFolder(e, q)
  BY <1>2 DEF IsFolder
<1>5. ASSUME NEW q \in Paths, q # <<>>, Present(e, q) PROVE IsFolder(e, Front(q))
  <2>1. Front(q) \in Paths /\ IsPrefix(Front(q), q)
    BY <1>5, FrontIs
  <2>2. ~IsPrefix(p, q) /\ Present(d, q)
    BY <1>2, <1>5 DEF Present
  <2>3. IsFolder(d, Front(q)) /\ ~IsPrefix(p, Front(q))
    BY <1>5, <2>1, <2>2, DiskIs, PrefixOrder
  <2> QED BY <1>4, <2>1, <2>3
<1>6. ASSUME NEW q \in Paths, e.rules[q] # NoRules PROVE IsFolder(e, q)
  BY <1>2, <1>4, <1>6, DiskIs
<1>7. IsFolder(e, <<>>)
  <2>1. <<>> \in Paths /\ ~IsPrefix(p, <<>>)
    BY DiskIs, PrefixOrder
  <2> QED BY <1>4, <2>1, DiskIs
<1>8. WellFormed(e)
  BY <1>3, <1>5, <1>6, <1>7 DEF WellFormed, DiskSet
<1> QED BY <1>2, <1>8 DEF e

\* What a move does, of something to where nothing is in the way.
LEMMA MovedIs ==
  ASSUME NEW d, WellFormed(d), NEW from \in Paths, NEW to \in Paths,
         ~IsPrefix(from, to), ~IsPrefix(to, from), IsFolder(d, Front(to))
  PROVE  /\ WellFormed(Moved(d, from, to))
         /\ \A q \in Paths : ~IsPrefix(from, q) /\ ~IsPrefix(to, q) =>
              Moved(d, from, to).tree[q] = d.tree[q] /\ Moved(d, from, to).rules[q] = d.rules[q]
         /\ \A q \in Paths : IsPrefix(from, q) =>
              Moved(d, from, to).tree[q] = Absent /\ Moved(d, from, to).rules[q] = NoRules
         /\ \A q \in Paths : IsPrefix(to, q) =>
              LET s == Landing(q, to, from) IN
              /\ Moved(d, from, to).tree[q] = IF s \in Paths THEN d.tree[s] ELSE Absent
              /\ Moved(d, from, to).rules[q] = IF s \in Paths THEN d.rules[s] ELSE NoRules
<1> DEFINE e == Moved(d, from, to)
           s(q) == Landing(q, to, from)
<1>1. d \in DiskSet
  BY DiskIs
<1>2. ASSUME NEW q \in Paths
      PROVE  /\ e.tree[q] = IF IsPrefix(to, q) THEN IF s(q) \in Paths THEN d.tree[s(q)] ELSE Absent
                             ELSE IF IsPrefix(from, q) THEN Absent ELSE d.tree[q]
             /\ e.rules[q] = IF IsPrefix(to, q) THEN IF s(q) \in Paths THEN d.rules[s(q)] ELSE NoRules
                              ELSE IF IsPrefix(from, q) THEN NoRules ELSE d.rules[q]
  BY DEF Moved
<1>3. e \in DiskSet
  <2>1. e = [tree |-> [q \in Paths |-> e.tree[q]], rules |-> [q \in Paths |-> e.rules[q]]]
    BY DEF Moved
  <2>2. \A q \in Paths : e.tree[q] \in Texts \union {Absent, Folder} /\ e.rules[q] \in Rules \union {NoRules}
    BY <1>1, <1>2 DEF DiskSet
  <2> HIDE DEF e
  <2> QED BY <2>1, <2>2 DEF DiskSet
<1>4. \A q \in Paths : ~(IsPrefix(from, q) /\ IsPrefix(to, q))
  <2>1. Len(from) \in Nat /\ Len(to) \in Nat
    BY PathIs
  <2> QED BY <2>1, PrefixOrder
<1>5. from # <<>> /\ to # <<>>
  BY PrefixOrder
<1> HIDE DEF e, s
<1>6. \A q \in Paths : ~IsPrefix(from, q) /\ ~IsPrefix(to, q) /\ IsFolder(d, q) => IsFolder(e, q)
  BY <1>2 DEF IsFolder
<1>7. ASSUME NEW q \in Paths, q # <<>>, Present(e, q) PROVE IsFolder(e, Front(q))
  <2>1. Front(q) \in Paths /\ IsPrefix(Front(q), q) /\ Front(q) # q
    BY <1>7, FrontIs
  <2>2. CASE q = to
    <3>1. ~IsPrefix(to, Front(q)) /\ ~IsPrefix(from, Front(q))
      BY <2>1, <2>2, PrefixOrder
    <3> QED BY <1>6, <2>1, <2>2, <3>1
  <2>3. CASE IsPrefix(to, q) /\ q # to
    <3>1. s(q) \in Paths /\ Present(d, s(q))
      BY <1>2, <1>7, <2>3 DEF Present
    <3>2. s(q) # <<>> /\ s(Front(q)) = Front(s(q)) /\ IsPrefix(to, Front(q))
      BY <2>3, <3>1, LandingFront DEF s
    <3>3. s(Front(q)) \in Paths /\ IsFolder(d, s(Front(q)))
      BY <3>1, <3>2, DiskIs, FrontIs
    <3> QED BY <1>2, <2>1, <3>2, <3>3 DEF IsFolder
  <2>4. CASE ~IsPrefix(to, q)
    <3>1. ~IsPrefix(from, q) /\ Present(d, q)
      BY <1>2, <1>7, <2>4 DEF Present
    <3>2. ~IsPrefix(to, Front(q)) /\ ~IsPrefix(from, Front(q))
      BY <2>1, <2>4, <3>1, PrefixOrder
    <3>3. IsFolder(d, Front(q))
      BY <1>7, <3>1, DiskIs
    <3> QED BY <1>6, <2>1, <3>2, <3>3
  <2> QED BY <2>2, <2>3, <2>4
<1>8. ASSUME NEW q \in Paths, e.rules[q] # NoRules PROVE IsFolder(e, q)
  <2>1. CASE IsPrefix(to, q)
    <3>1. s(q) \in Paths /\ d.rules[s(q)] # NoRules
      BY <1>2, <1>8, <2>1
    <3> QED BY <1>2, <2>1, <3>1, DiskIs DEF IsFolder
  <2>2. CASE ~IsPrefix(to, q)
    BY <1>2, <1>6, <1>8, <2>2, DiskIs
  <2> QED BY <2>1, <2>2
<1>9. IsFolder(e, <<>>)
  <2>1. <<>> \in Paths /\ ~IsPrefix(from, <<>>) /\ ~IsPrefix(to, <<>>)
    BY <1>5, DiskIs, PrefixOrder
  <2> QED BY <1>6, <2>1, DiskIs
<1>10. WellFormed(e)
  BY <1>3, <1>7, <1>8, <1>9 DEF WellFormed, DiskSet
<1> QED BY <1>2, <1>4, <1>10 DEF e, s

-----------------------------------------------------------------------------
(* What an act changes, its caller may write.                              *)

Differs(d, e, p) == e.tree[p] # d.tree[p] \/ e.rules[p] # d.rules[p]
OnlyOwn(d, e, u) == \A p \in Paths : Differs(d, e, p) => Perms(d, p, u).write

\* Nobody may write in /home itself.
LEMMA HomeFolder ==
  ASSUME NEW d, NEW u
  PROVE  ~Perms(d, <<HomeName>>, u).write
<1>1. <<HomeName>> # <<>> /\ <<HomeName>>[1] # DesktopsName
  BY JailAssumption
<1>2. Perms(d, <<HomeName>>, u) = [read |-> u # Anonymous, write |-> FALSE]
  BY <1>1 DEF Perms
<1> QED BY <1>2

\* What may be removed may be written, all that is in it.
LEMMA RemovableAll ==
  ASSUME NEW d, WellFormed(d), NEW p \in Paths, NEW u, Removable(d, p, u),
         NEW q \in Paths, IsPrefix(p, q), Present(d, q)
  PROVE  Perms(d, q, u).write
<1>1. CASE q = p
  BY <1>1 DEF Removable
<1>2. CASE q # p /\ IsFolder(d, q)
  BY <1>2, BelowIs DEF Removable
<1>3. CASE q # p /\ ~IsFolder(d, q)
  <2>1. q # <<>> /\ p # <<>>
    BY <1>3, DiskIs DEF Removable
  <2>2. Front(q) \in Paths /\ IsPrefix(Front(q), q) /\ IsPrefix(p, Front(q)) /\ Front(q) # q
    BY <1>3, <2>1, FrontIs
  <2>3. IsFolder(d, Front(q))
    BY <2>1, DiskIs
  <2>4. Perms(d, Front(q), u).write
    BY <2>2, <2>3, BelowIs DEF Removable
  <2>5. Front(q) # <<>> /\ Front(q) # <<HomeName>>
    BY <2>1, <2>2, <2>4, HomeFolder, PrefixOrder, DiskIs
  <2>6. ASSUME NEW r \in Paths, IsPrefix(Front(q), r), r # Front(q), IsPrefix(r, q)
        PROVE  d.rules[r] = NoRules
    <3>1. r = q
      BY <2>1, <2>2, <2>6, FrontIs, PrefixOrder
    <3> QED BY <1>3, <3>1, DiskIs
  <2>7. Perms(d, q, u) = Perms(d, Front(q), u)
    BY <2>2, <2>5, <2>6, PermsInherit
  <2> QED BY <2>4, <2>7
<1> QED BY <1>1, <1>2, <1>3

\* Where there is no folder, all below is as there.
LEMMA BelowInherits ==
  ASSUME NEW d, WellFormed(d), NEW p \in Paths, NEW u, p # <<>>, p # <<HomeName>>, ~IsFolder(d, p),
         NEW q \in Paths, IsPrefix(p, q)
  PROVE  Perms(d, q, u) = Perms(d, p, u)
<1>1. ASSUME NEW r \in Paths, IsPrefix(p, r), r # p PROVE d.rules[r] = NoRules
  <2>1. r \in Below(p)
    BY <1>1, BelowIs
  <2> QED BY <2>1, NothingBelow
<1> QED BY <1>1, PermsInherit

LEMMA RemovingIs ==
  ASSUME NEW d, WellFormed(d), NEW p \in Paths, NEW u
  PROVE  WellFormed(Removing(d, p, u).disk) /\ OnlyOwn(d, Removing(d, p, u).disk, u)
<1>1. CASE CheckRemovable(d, p, u) # OkCode
  BY <1>1 DEF Removing, OnlyOwn, Differs
<1>2. CASE CheckRemovable(d, p, u) = OkCode
  <2>1. Removing(d, p, u).disk = Without(d, p)
    BY <1>2 DEF Removing
  <2>2. Removable(d, p, u) /\ p # <<>>
    BY <1>2, CheckRemovableIs DEF Removable
  <2>3. ASSUME NEW q \in Paths, Differs(d, Without(d, p), q) PROVE Perms(d, q, u).write
    <3>1. IsPrefix(p, q)
      BY <2>2, <2>3, WithoutIs DEF Differs
    <3>2. Present(d, q)
      BY <2>2, <2>3, <3>1, WithoutIs, DiskIs, KindIs DEF Differs, Present
    <3> QED BY <2>2, <3>1, <3>2, RemovableAll
  <2> QED BY <2>1, <2>2, <2>3, WithoutIs DEF OnlyOwn
<1> QED BY <1>1, <1>2

\* A move that its checks let through is one of something to where nothing is in the way.
LEMMA RenamingClear ==
  ASSUME NEW d, WellFormed(d), NEW p \in Paths, NEW q \in Paths, NEW u,
         Renaming(d, p, q, u).code = OkCode
  PROVE  /\ Renaming(d, p, q, u).disk = Moved(d, p, q)
         /\ Removable(d, p, u) /\ CheckWritableTarget(d, q, u) = OkCode /\ CanMove(d, p, q)
         /\ ~IsPrefix(p, q) /\ ~IsPrefix(q, p) /\ IsFolder(d, Front(q))
         /\ ~IsFolder(d, q) /\ q # <<>> /\ Perms(d, q, u).write
<1> DEFINE itself == IF IsPrefix(p, q) THEN Denied ELSE OkCode
           able   == IF CanMove(d, p, q) THEN OkCode ELSE Io
           code   == First(<<CheckRemovable(d, p, u), CheckWritableTarget(d, q, u), itself, able>>)
<1>1. (itself = OkCode <=> ~IsPrefix(p, q)) /\ (able = OkCode <=> CanMove(d, p, q))
  BY DEF Denied, OkCode, Io
<1>2. Renaming(d, p, q, u) = [code |-> code, disk |-> IF code = OkCode THEN Moved(d, p, q) ELSE d]
  BY DEF Renaming
<1> HIDE DEF itself, able
<1>3. code = OkCode => /\ CheckRemovable(d, p, u) = OkCode /\ CheckWritableTarget(d, q, u) = OkCode
                       /\ ~IsPrefix(p, q) /\ CanMove(d, p, q)
  BY <1>1, FirstOk
<1> HIDE DEF code
<1>4. code = OkCode
  BY <1>2
<1>5. ~IsFolder(d, q) /\ AuthorizeNew(d, q, u) = OkCode
  BY <1>3, <1>4, CheckWritableTargetIs
<1>6. ~IsPrefix(q, p)
  <2>1. Present(d, p)
    BY <1>3, <1>4, CheckRemovableIs DEF Removable
  <2> QED BY <1>3, <1>4, <1>5, <2>1, WayIsFolders, PrefixOrder
<1> QED BY <1>2, <1>3, <1>4, <1>5, <1>6, CheckRemovableIs, AuthorizeNewIs

LEMMA RenamingIs ==
  ASSUME NEW d, WellFormed(d), NEW p \in Paths, NEW q \in Paths, NEW u
  PROVE  WellFormed(Renaming(d, p, q, u).disk) /\ OnlyOwn(d, Renaming(d, p, q, u).disk, u)
<1>1. CASE Renaming(d, p, q, u).code # OkCode
  BY <1>1 DEF Renaming, OnlyOwn, Differs
<1>2. CASE Renaming(d, p, q, u).code = OkCode
  <2> DEFINE e == Moved(d, p, q)
  <2>1. /\ Renaming(d, p, q, u).disk = e /\ Removable(d, p, u)
        /\ ~IsPrefix(p, q) /\ ~IsPrefix(q, p) /\ IsFolder(d, Front(q))
        /\ ~IsFolder(d, q) /\ q # <<>> /\ Perms(d, q, u).write
    BY <1>2, RenamingClear
  <2>2. q # <<HomeName>>
    BY <2>1, HomeFolder
  <2>3. ASSUME NEW x \in Paths, Differs(d, e, x) PROVE Perms(d, x, u).write
    <3>1. CASE IsPrefix(q, x)
      BY <2>1, <2>2, <3>1, BelowInherits
    <3>2. CASE IsPrefix(p, x)
      <4>1. Present(d, x)
        BY <2>1, <2>3, <3>2, MovedIs, DiskIs, KindIs DEF Differs, Present
      <4> QED BY <2>1, <3>2, <4>1, RemovableAll
    <3>3. CASE ~IsPrefix(q, x) /\ ~IsPrefix(p, x)
      BY <2>1, <2>3, <3>3, MovedIs DEF Differs
    <3> QED BY <3>1, <3>2, <3>3
  <2> QED BY <2>1, <2>3, MovedIs DEF OnlyOwn
<1> QED BY <1>1, <1>2

LEMMA CopyingIs ==
  ASSUME NEW d, WellFormed(d), NEW p \in Paths, NEW q \in Paths, NEW u
  PROVE  WellFormed(Copying(d, p, q, u).disk) /\ OnlyOwn(d, Copying(d, p, q, u).disk, u)
<1>1. CASE Copying(d, p, q, u).code # OkCode
  BY <1>1 DEF Copying, OnlyOwn, Differs
<1>2. CASE Copying(d, p, q, u).code = OkCode
  <2> DEFINE kind == IF IsFile(d, p) THEN OkCode ELSE Denied
  <2>1. kind = OkCode <=> IsFile(d, p)
    BY DEF Denied, OkCode
  <2>2. Copying(d, p, q, u).code = First(<<Authorize(d, p, u, "read"), kind, CheckWritableTarget(d, q, u)>>)
    BY DEF Copying
  <2> HIDE DEF kind
  <2>3. IsFile(d, p) /\ CheckWritableTarget(d, q, u) = OkCode
    BY <1>2, <2>1, <2>2, FirstOk
  <2>4. Copying(d, p, q, u).disk = Put(d, q, d.tree[p])
    BY <1>2 DEF Copying
  <2>5. ~IsFolder(d, q) /\ IsFolder(d, Front(q)) /\ Perms(d, q, u).write
    BY <2>3, CheckWritableTargetIs, AuthorizeNewIs
  <2> QED BY <2>3, <2>4, <2>5, PutIs DEF OnlyOwn, Differs, IsFile
<1> QED BY <1>1, <1>2

LEMMA MakingIs ==
  ASSUME NEW d, WellFormed(d), NEW p \in Paths, NEW u
  PROVE  WellFormed(Making(d, p, u).disk) /\ OnlyOwn(d, Making(d, p, u).disk, u)
<1>1. CASE Making(d, p, u).code # OkCode
  BY <1>1 DEF Making, OnlyOwn, Differs
<1>2. CASE Making(d, p, u).code = OkCode
  <2> DEFINE there == IF Present(d, p) THEN Exists ELSE OkCode
  <2>1. there = OkCode <=> ~Present(d, p)
    BY DEF Exists, OkCode
  <2>2. Making(d, p, u).code = First(<<AuthorizeNew(d, p, u), there>>)
    BY DEF Making
  <2> HIDE DEF there
  <2>3. ~Present(d, p) /\ AuthorizeNew(d, p, u) = OkCode
    BY <1>2, <2>1, <2>2, FirstOk
  <2>4. Making(d, p, u).disk = Put(d, p, Folder)
    BY <1>2 DEF Making
  <2>5. ~IsFolder(d, p) /\ IsFolder(d, Front(p)) /\ Perms(d, p, u).write
    BY <2>3, AuthorizeNewIs, KindIs
  <2> QED BY <2>4, <2>5, PutIs DEF OnlyOwn, Differs
<1> QED BY <1>1, <1>2

\* What a request changes, its caller may write, but for the folders on the way
\* to their own home.
May(d, e, u) ==
  \A p \in Paths : Differs(d, e, p) =>
     \/ Perms(d, p, u).write
     \/ ~Present(d, p) /\ IsPrefix(p, HomeOf(u))

FilesAs(d, e) == \A p \in Paths : IsFile(d, p) => e.tree[p] = d.tree[p]

LEMMA FolderAgain ==
  ASSUME NEW d, WellFormed(d), NEW p \in Paths, IsFolder(d, p)
  PROVE  Put(d, p, Folder) = d
<1>1. d \in DiskSet
  BY DiskIs
<1>2. [d.tree EXCEPT ![p] = Folder] = d.tree
  BY <1>1 DEF DiskSet, IsFolder
<1> QED BY <1>1, <1>2 DEF Put, DiskSet

\* A new folder, or one that is there.
LEMMA FolderPut ==
  ASSUME NEW d, WellFormed(d), NEW p \in Paths, p # <<>>, IsFolder(d, Front(p)), ~IsFile(d, p)
  PROVE  /\ WellFormed(Put(d, p, Folder)) /\ Put(d, p, Folder).rules = d.rules
         /\ IsFolder(Put(d, p, Folder), p)
         /\ \A q \in Paths : Put(d, p, Folder).tree[q] # d.tree[q] => q = p /\ ~Present(d, p)
<1>1. CASE IsFolder(d, p)
  BY <1>1, FolderAgain
<1>2. CASE ~IsFolder(d, p)
  <2>1. ~Present(d, p)
    BY <1>2, KindIs
  <2> QED BY <1>2, <2>1, PutIs DEF IsFolder
<1> QED BY <1>1, <1>2

LEMMA HomeIs ==
  ASSUME NEW u, HomeOf(u) \in Paths
  PROVE  /\ <<HomeName>> \in Paths /\ <<HomeName>> # <<>> /\ HomeOf(u) # <<>>
         /\ Front(<<HomeName>>) = <<>> /\ Front(HomeOf(u)) = <<HomeName>>
         /\ IsPrefix(<<HomeName>>, HomeOf(u)) /\ IsPrefix(HomeOf(u), HomeOf(u))
<1>1. HomeOf(u) = <<HomeName, u>> /\ HomeOf(u) # <<>> /\ Len(HomeOf(u)) = 2
  BY DEF HomeOf
<1>2. /\ Front(HomeOf(u)) \in Paths /\ Len(Front(HomeOf(u))) = 2 - 1
      /\ Front(HomeOf(u)) = Up(HomeOf(u), 2 - 1) /\ IsPrefix(Front(HomeOf(u)), HomeOf(u))
  <2> DEFINE home == HomeOf(u)
             m == Len(home)
  <2> HIDE DEF home
  <2>1. /\ Front(home) \in Paths /\ Len(Front(home)) = m - 1
        /\ Front(home) = Up(home, m - 1) /\ IsPrefix(Front(home), home)
    BY <1>1, FrontIs DEF home
  <2> QED BY <1>1, <2>1 DEF home
<1>3. 1 \in 0..Len(HomeOf(u))
  BY <1>1
<1>4. Front(HomeOf(u))[1] = HomeName
  BY <1>1, <1>2, <1>3, UpIs
<1>5. Front(HomeOf(u)) = <<HomeName>>
  BY <1>2, <1>4, PathIs, SeqEqual
<1>6. Front(<<HomeName>>) \in Paths /\ Len(Front(<<HomeName>>)) = 0
  <2> DEFINE top == <<HomeName>>
  <2>1. top \in Paths /\ top # <<>> /\ Len(top) = 1
    BY <1>2, <1>5
  <2> HIDE DEF top
  <2>2. Front(top) \in Paths /\ Len(Front(top)) = Len(top) - 1
    BY <2>1, FrontIs
  <2> QED BY <2>1, <2>2 DEF top
<1>7. Front(<<HomeName>>) = <<>>
  BY <1>6, PathIs
<1> QED BY <1>1, <1>2, <1>5, <1>7, PrefixOrder

LEMMA MaySame ==
  ASSUME NEW d, NEW u
  PROVE  May(d, d, u) /\ FilesAs(d, d)
  BY DEF May, FilesAs, Differs

LEMMA WithHomeIs ==
  ASSUME NEW d, WellFormed(d), NEW u
  PROVE  /\ WellFormed(WithHome(d, u)) /\ WithHome(d, u).rules = d.rules
         /\ May(d, WithHome(d, u), u)
         /\ \A q \in Paths : Present(d, q) => WithHome(d, u).tree[q] = d.tree[q]
<1> DEFINE home == HomeOf(u)
           e == Put(d, <<HomeName>>, Folder)
           f == Put(e, home, Folder)
<1>1. CASE WithHome(d, u) = d
  BY <1>1, MaySame
<1>2. CASE WithHome(d, u) # d
  <2>1. WithHome(d, u) = f /\ home \in Paths /\ ~Present(d, home) /\ ~IsFile(d, <<HomeName>>)
    BY <1>2 DEF WithHome
  <2>2. /\ <<HomeName>> \in Paths /\ <<HomeName>> # <<>> /\ home # <<>>
        /\ Front(<<HomeName>>) = <<>> /\ Front(home) = <<HomeName>>
        /\ IsPrefix(<<HomeName>>, home) /\ IsPrefix(home, home)
    BY <2>1, HomeIs
  <2>3. /\ WellFormed(e) /\ e.rules = d.rules /\ IsFolder(e, <<HomeName>>)
        /\ \A q \in Paths : e.tree[q] # d.tree[q] => q = <<HomeName>> /\ ~Present(d, <<HomeName>>)
    BY <2>1, <2>2, DiskIs, FolderPut
  <2> HIDE DEF e, home
  <2>4. ~Present(e, home) /\ ~IsFile(e, home)
    <3>1. home # <<HomeName>>
      BY <2>2, <2>1, FrontIs
    <3>2. e.tree[home] = d.tree[home]
      BY <2>1, <2>3, <3>1
    <3> QED BY <2>1, <2>3, <3>2, KindIs DEF Present
  <2>5. /\ WellFormed(f) /\ f.rules = e.rules
        /\ \A q \in Paths : f.tree[q] # e.tree[q] => q = home /\ ~Present(e, home)
    BY <2>1, <2>2, <2>3, <2>4, FolderPut
  <2> HIDE DEF f
  <2>6. \A q \in Paths : f.tree[q] # d.tree[q] => ~Present(d, q) /\ IsPrefix(q, home)
    BY <2>1, <2>2, <2>3, <2>5 DEF Present
  <2> QED BY <2>1, <2>3, <2>5, <2>6 DEF May, Differs, home
<1> QED BY <1>1, <1>2

LEMMA WithHomeKeeps ==
  ASSUME NEW d, WellFormed(d), NEW u
  PROVE  FilesAs(d, WithHome(d, u))
  BY WithHomeIs, KindIs DEF FilesAs

\* What comes after the home is made, made by rules that are the same.
LEMMA AfterHome ==
  ASSUME NEW d, WellFormed(d), NEW u, NEW e, OnlyOwn(WithHome(d, u), e, u)
  PROVE  May(d, e, u)
<1> DEFINE h == WithHome(d, u)
<1>1. h.rules = d.rules /\ May(d, h, u)
  BY WithHomeIs
<1> HIDE DEF h
<1>2. ASSUME NEW p \in Paths, Differs(d, e, p)
      PROVE  Perms(d, p, u).write \/ (~Present(d, p) /\ IsPrefix(p, HomeOf(u)))
  <2>1. CASE Differs(d, h, p)
    BY <1>1, <2>1 DEF May
  <2>2. CASE ~Differs(d, h, p)
    <3>1. Differs(h, e, p)
      BY <1>2, <2>2 DEF Differs
    <3>2. Perms(h, p, u).write
      BY <3>1 DEF OnlyOwn, h
    <3>3. Perms(h, p, u) = Perms(d, p, u)
      BY <1>1, PermsSame
    <3> QED BY <3>2, <3>3
  <2> QED BY <2>1, <2>2
<1> QED BY <1>2 DEF May

-----------------------------------------------------------------------------
(* The invariant.                                                          *)

Apart(p, q) == ~IsPrefix(p, q) /\ ~IsPrefix(q, p)

\* What holds of a request whatever the others do.
Sound(r, u) ==
  /\ r = [op |-> r.op, from |-> r.from, to |-> r.to, flag |-> r.flag,
          at |-> r.at, code |-> r.code, before |-> r.before, copied |-> r.copied]
  /\ r.from \in Paths /\ r.to \in Paths /\ r.flag \in BOOLEAN
  /\ r.at = "act" => r.op \in {"write", "mkdir", "remove"} /\ r.from = r.to
  /\ r.at = "act" /\ r.op = "remove" => r.from # <<>>
  /\ r.at \in {"folders", "store"} => r.op = "upload"
  /\ r.at = "folders" => r.to # <<>> /\ r.from = Front(r.to)
  /\ r.at = "body" => r.op = "put"
  /\ r.at = "clear" => r.op \in Jobs /\ r.copied = {}
  /\ r.at = "carry" => r.op \in {"move", "copy"}
  /\ r.op \in Jobs =>
       /\ WellFormed(r.before)
       /\ JobCode(r.before, r.op, r.from, r.to, r.flag, u) = OkCode
       /\ IF r.op = "delete" THEN r.from = r.to ELSE Fits(r.before, r.from, r.to)

SameAt(d, e, q) == d.tree[q] = e.tree[q] /\ d.rules[q] = e.rules[q]
GoneAt(d, q) == d.tree[q] = Absent /\ d.rules[q] = NoRules

\* While what is to go goes: all else is as it was, and of that some is gone.
Clearing(r, d) ==
  /\ \A q \in Paths : ~IsPrefix(r.to, q) => SameAt(d, r.before, q)
  /\ \A q \in Paths : IsPrefix(r.to, q) => SameAt(d, r.before, q) \/ GoneAt(d, q)

\* And once it is gone.
Emptied(r, d) ==
  /\ \A q \in Paths : ~IsPrefix(r.to, q) => SameAt(d, r.before, q)
  /\ \A q \in Paths : IsPrefix(r.to, q) => GoneAt(d, q)

\* What a COPY is to copy.
ToCopy(r, e) == e \in Paths /\ IsPrefix(r.from, e) /\ ~IsPrefix(r.to, e) /\ Present(r.before, e)

\* Halfway a copy: what was copied is there, with the folders it is in, and no
\* rules.
Partway(r, d) ==
  /\ \A q \in Paths : ~IsPrefix(r.to, q) => SameAt(d, r.before, q)
  /\ \A q \in Paths : IsPrefix(r.to, q) =>
       LET s == Landing(q, r.to, r.from)
       IN  /\ d.rules[q] = NoRules
           /\ d.tree[q] = IF s \in r.copied THEN r.before.tree[s] ELSE Absent
  /\ \A e \in r.copied :
       /\ ToCopy(r, e)
       /\ \A f \in Paths : IsPrefix(r.from, f) /\ IsPrefix(f, e) => f \in r.copied

WithStray(r) == r.op = "copy" /\ Stray(r.before, r.from)

\* What is left of the disk when it ends.
Ended(r, d) == IF Crossed(r) THEN r.code # OkCode /\ d = Without(r.before, r.to) ELSE Completed(r, d)

\* What its checks found still holds of the disk, or its work so far is on it.
Stands(r, d, u) ==
  /\ r.at = "act" /\ r.op = "write" => WriteCheck(d, r.to, r.flag, u) = OkCode
  /\ r.at = "act" /\ r.op = "mkdir" => AuthorizeNew(d, r.to, u) = OkCode
  /\ r.at = "act" /\ r.op = "remove" => CheckRemovable(d, r.from, u) = OkCode
  /\ r.at = "folders" => Perms(d, r.to, u).write
  /\ r.at = "body" => IsFile(d, r.to) /\ Perms(d, r.to, u).write
  /\ r.at = "clear" => Clearing(r, d)
  /\ r.at = "carry" /\ r.op = "move" => Emptied(r, d)
  /\ r.at = "carry" /\ r.op = "copy" => Partway(r, d)
  /\ r.at = "done" /\ r.op \in Jobs /\ ~WithStray(r) => Ended(r, d)

FileServerInv ==
  /\ WellFormed(disk) /\ by \in Clients /\ disturbed \in [Clients -> BOOLEAN]
  /\ req = [c \in Clients |-> req[c]]
  /\ \A c \in Clients : /\ Sound(req[c], UserOf[c])
                        /\ ~disturbed[c] => Stands(req[c], disk, UserOf[c])

\* The files a request for something new must spare.
Spares(r, d, e) ==
  AsksForNew(r) =>
     \A p \in Paths : IsFile(d, p) /\ ~(r.op = "move" /\ IsPrefix(r.from, p)) => e.tree[p] = d.tree[p]

\* What a step of c that leaves d and r must be.
Rightful(c, d, r) ==
  /\ WellFormed(d) /\ Sound(r, UserOf[c])
  /\ ~disturbed[c] => /\ Stands(r, d, UserOf[c])
                      /\ May(disk, d, UserOf[c])
                      /\ Spares(r, disk, d)

\* What every step does.
Kept == FileServerInv' /\ ByRights /\ FilesKept

LEMMA InvIs ==
  ASSUME FileServerInv, NEW c \in Clients
  PROVE  /\ WellFormed(disk) /\ Sound(req[c], UserOf[c]) /\ UserOf[c] \in Callers
         /\ ~disturbed[c] => Stands(req[c], disk, UserOf[c])
  BY ServerAssumption DEF FileServerInv

LEMMA StepIs ==
  ASSUME FileServerInv, NEW c \in Clients, NEW d, NEW r, Step(c, d, r), Rightful(c, d, r)
  PROVE  Kept
<1>1. /\ disk' = d /\ by' = c /\ req' = [req EXCEPT ![c] = r]
      /\ disturbed' = [o \in Clients |-> disturbed[o] \/ (o # c /\ d # disk)]
  BY DEF Step
<1>2. disturbed'[c] = disturbed[c]
  BY <1>1 DEF FileServerInv
<1>3. req'[c] = r /\ \A o \in Clients : o # c => req'[o] = req[o]
  BY <1>1 DEF FileServerInv
<1>4. req' = [o \in Clients |-> req'[o]]
  BY <1>1, <1>3 DEF FileServerInv
<1>5. disturbed' \in [Clients -> BOOLEAN]
  BY <1>1 DEF FileServerInv
<1>6. ASSUME NEW o \in Clients
      PROVE  Sound(req'[o], UserOf[o]) /\ (~disturbed'[o] => Stands(req'[o], disk', UserOf[o]))
  <2>1. CASE o = c
    BY <1>1, <1>2, <1>3, <2>1 DEF Rightful
  <2>2. CASE o # c
    <3>1. Sound(req'[o], UserOf[o])
      BY <1>3, <2>2 DEF FileServerInv
    <3>2. ~disturbed'[o] => disk' = disk /\ ~disturbed[o]
      BY <1>1, <2>2
    <3> QED BY <1>3, <2>2, <3>1, <3>2 DEF FileServerInv
  <2> QED BY <2>1, <2>2
<1>7. FileServerInv'
  BY <1>1, <1>4, <1>5, <1>6 DEF FileServerInv, Rightful
<1>8. ByRights
  BY <1>1, <1>2 DEF ByRights, Rightful, May, Differs
<1>9. FilesKept
  BY <1>1, <1>2, <1>3 DEF FilesKept, Rightful, Spares
<1> QED BY <1>7, <1>8, <1>9 DEF Kept

Asked(r, d, code, next) ==
  IF code # OkCode THEN Idle
  ELSE [r EXCEPT !.at = next, !.before = IF r.op \in Jobs THEN d ELSE Absent]

LEMMA BeginIs ==
  ASSUME FileServerInv, NEW c \in Clients, NEW r, NEW d, NEW code, NEW next,
         Begin(c, r, d, code, next), WellFormed(d), May(disk, d, UserOf[c]),
         AsksForNew(Asked(r, d, code, next)) => FilesAs(disk, d),
         code = OkCode => LET a == Asked(r, d, code, next)
                          IN  Sound(a, UserOf[c]) /\ Stands(a, d, UserOf[c])
  PROVE  Kept
<1> DEFINE a == Asked(r, d, code, next)
<1>1. /\ disk' = d /\ by' = c /\ req' = [req EXCEPT ![c] = a]
      /\ disturbed' = [o \in Clients |-> o # c /\ (disturbed[o] \/ d # disk)]
  BY DEF Begin, Asked
<1>2. ~disturbed'[c]
  BY <1>1
<1>3. Sound(Idle, UserOf[c]) /\ Stands(Idle, d, UserOf[c])
  BY JailAssumption DEF Idle, Sound, Stands, Jobs
<1>4. Sound(a, UserOf[c]) /\ Stands(a, d, UserOf[c])
  BY <1>3 DEF Asked
<1> HIDE DEF a
<1>5. req'[c] = a /\ \A o \in Clients : o # c => req'[o] = req[o]
  BY <1>1 DEF FileServerInv
<1>6. req' = [o \in Clients |-> req'[o]]
  BY <1>1, <1>5 DEF FileServerInv
<1>7. disturbed' \in [Clients -> BOOLEAN]
  BY <1>1 DEF FileServerInv
<1>8. ASSUME NEW o \in Clients
      PROVE  Sound(req'[o], UserOf[o]) /\ (~disturbed'[o] => Stands(req'[o], disk', UserOf[o]))
  <2>1. CASE o = c
    BY <1>1, <1>4, <1>5, <2>1
  <2>2. CASE o # c
    <3>1. Sound(req'[o], UserOf[o])
      BY <1>5, <2>2 DEF FileServerInv
    <3>2. ~disturbed'[o] => disk' = disk /\ ~disturbed[o]
      BY <1>1, <2>2
    <3> QED BY <1>5, <2>2, <3>1, <3>2 DEF FileServerInv
  <2> QED BY <2>1, <2>2
<1>9. FileServerInv'
  BY <1>1, <1>6, <1>7, <1>8 DEF FileServerInv
<1>10. ByRights
  BY <1>1 DEF ByRights, May, Differs
<1>11. AsksForNew(a) => FilesAs(disk, d)
  BY DEF a
<1>12. FilesKept
  BY <1>1, <1>5, <1>11 DEF FilesKept, FilesAs
<1> QED BY <1>9, <1>10, <1>12 DEF Kept

-----------------------------------------------------------------------------
(* The steps that begin a request.                                         *)

LEMMA HomeReady ==
  ASSUME FileServerInv, NEW u
  PROVE  /\ WellFormed(WithHome(disk, u)) /\ May(disk, WithHome(disk, u), u)
         /\ FilesAs(disk, WithHome(disk, u))
  BY WithHomeIs, WithHomeKeeps DEF FileServerInv

\* A request that goes on at its act, with its checks just made.
LEMMA ActBegins ==
  ASSUME NEW op \in {"write", "mkdir", "remove"}, NEW p \in Paths, NEW flag \in BOOLEAN, NEW d, NEW u,
         op = "write" => WriteCheck(d, p, flag, u) = OkCode,
         op = "mkdir" => AuthorizeNew(d, p, u) = OkCode,
         op = "remove" => CheckRemovable(d, p, u) = OkCode
  PROVE  LET a == Asked(Request(op, p, p, flag), d, OkCode, "act")
         IN  Sound(a, u) /\ Stands(a, d, u)
<1>1. op = "remove" => p # <<>>
  BY CheckRemovableIs DEF Removable
<1> QED BY <1>1 DEF Asked, Request, Idle, Sound, Stands, Jobs, OkCode

LEMMA WriteFileIs ==
  ASSUME FileServerInv, NEW c \in Clients, NEW p \in Paths, NEW f \in BOOLEAN, WriteFile(c, p, f)
  PROVE  Kept
<1> DEFINE u == UserOf[c]
           d == WithHome(disk, u)
           r == Request("write", p, p, f)
           code == WriteCheck(d, p, f, u)
<1>1. Begin(c, r, d, code, "act")
  BY DEF WriteFile
<1>2. code = OkCode => LET a == Asked(r, d, code, "act") IN Sound(a, u) /\ Stands(a, d, u)
  BY ActBegins
<1> HIDE DEF r, code
<1> QED BY <1>1, <1>2, HomeReady, BeginIs

LEMMA CreateDirIs ==
  ASSUME FileServerInv, NEW c \in Clients, NEW p \in Paths, CreateDir(c, p)
  PROVE  Kept
<1> DEFINE u == UserOf[c]
           d == WithHome(disk, u)
           r == Request("mkdir", p, p, FALSE)
           code == AuthorizeNew(d, p, u)
<1>1. Begin(c, r, d, code, "act")
  BY DEF CreateDir
<1>2. code = OkCode => LET a == Asked(r, d, code, "act") IN Sound(a, u) /\ Stands(a, d, u)
  BY ActBegins
<1> HIDE DEF r, code
<1> QED BY <1>1, <1>2, HomeReady, BeginIs

LEMMA RemoveEntryIs ==
  ASSUME FileServerInv, NEW c \in Clients, NEW p \in Paths, RemoveEntry(c, p)
  PROVE  Kept
<1> DEFINE u == UserOf[c]
           d == WithHome(disk, u)
           r == Request("remove", p, p, FALSE)
           code == CheckRemovable(d, p, u)
<1>1. Begin(c, r, d, code, "act")
  BY DEF RemoveEntry
<1>2. code = OkCode => LET a == Asked(r, d, code, "act") IN Sound(a, u) /\ Stands(a, d, u)
  BY ActBegins
<1> HIDE DEF r, code
<1> QED BY <1>1, <1>2, HomeReady, BeginIs

LEMMA UploadIs ==
  ASSUME FileServerInv, NEW c \in Clients, NEW p \in Paths, Upload(c, p)
  PROVE  Kept
<1> DEFINE u == UserOf[c]
           r == Request("upload", Front(p), p, FALSE)
           code == Check(Perms(disk, p, u), "write")
<1>1. p # <<>> /\ Begin(c, r, disk, code, "folders")
  BY DEF Upload
<1>2. Front(p) \in Paths
  BY <1>1, FrontIs
<1>3. code = OkCode => Perms(disk, p, u).write
  BY PermsAre
<1>4. code = OkCode => LET a == Asked(r, disk, code, "folders") IN Sound(a, u) /\ Stands(a, disk, u)
  BY <1>1, <1>2, <1>3 DEF Asked, Request, Idle, Sound, Stands, Jobs, OkCode
<1>5. WellFormed(disk)
  BY DEF FileServerInv
<1> HIDE DEF r, code
<1> QED BY <1>1, <1>4, <1>5, MaySame, BeginIs

\* The file is there from the start, made or emptied.
LEMMA PutFileIs ==
  ASSUME FileServerInv, NEW c \in Clients, NEW p \in Paths, PutFile(c, p)
  PROVE  Kept
<1> DEFINE u == UserOf[c]
           h == WithHome(disk, u)
           r == Request("put", p, p, FALSE)
           code == CheckWritableTarget(h, p, u)
           d == IF code = OkCode THEN Put(h, p, Part) ELSE h
           a == Asked(r, d, code, "body")
<1>1. Begin(c, r, d, code, "body")
  BY DEF PutFile
<1>2. WellFormed(h) /\ Part \in Texts
  BY HomeReady, ServerAssumption
<1>3. ~AsksForNew(a)
  BY DEF Asked, Request, Idle, AsksForNew
<1> HIDE DEF h
<1>4. WellFormed(d) /\ OnlyOwn(h, d, u)
      /\ (code = OkCode => IsFile(d, p) /\ Perms(d, p, u).write)
  <2>1. CASE code # OkCode
    BY <1>2, <2>1 DEF OnlyOwn, Differs
  <2>2. CASE code = OkCode
    <3>1. d = Put(h, p, Part)
      BY <2>2
    <3>2. ~IsFolder(h, p) /\ IsFolder(h, Front(p)) /\ Perms(h, p, u).write
      BY <2>2, CheckWritableTargetIs, AuthorizeNewIs
    <3> HIDE DEF d, code
    <3>3. /\ WellFormed(d) /\ d.rules = h.rules
          /\ \A q \in Paths : d.tree[q] = IF q = p THEN Part ELSE h.tree[q]
      BY <1>2, <3>1, <3>2, PutIs
    <3>4. Perms(d, p, u) = Perms(h, p, u)
      BY <3>3, PermsSame
    <3> QED BY <1>2, <3>2, <3>3, <3>4 DEF OnlyOwn, Differs, IsFile
  <2> QED BY <2>1, <2>2
<1>5. code = OkCode => Sound(a, u) /\ Stands(a, d, u)
  <2>1. code = OkCode => a = [op |-> "put", from |-> p, to |-> p, flag |-> FALSE, at |-> "body",
                              code |-> OkCode, before |-> Absent, copied |-> {}]
    BY DEF Asked, Request, Idle, Jobs
  <2> HIDE DEF a, d
  <2>2. code = OkCode => Sound(a, u)
    <3>1. code = OkCode =>
             /\ a = [op |-> a.op, from |-> a.from, to |-> a.to, flag |-> a.flag,
                     at |-> a.at, code |-> a.code, before |-> a.before, copied |-> a.copied]
             /\ a.op = "put" /\ a.from = p /\ a.to = p /\ a.flag = FALSE /\ a.at = "body"
      BY <2>1
    <3> QED BY <3>1 DEF Sound, Jobs
  <2>3. code = OkCode => Stands(a, d, u)
    BY <1>4, <2>1 DEF Stands, Jobs
  <2> QED BY <2>2, <2>3
<1>6. May(disk, d, u)
  BY <1>4, AfterHome DEF FileServerInv, h
<1> HIDE DEF r, code, d
<1> QED BY <1>1, <1>3, <1>4, <1>5, <1>6, BeginIs

\* A folder is made where nothing was.
LEMMA MakingKeeps ==
  ASSUME NEW d, WellFormed(d), NEW p \in Paths, NEW u
  PROVE  FilesAs(d, Making(d, p, u).disk)
<1>1. CASE Making(d, p, u).code # OkCode
  BY <1>1 DEF Making, FilesAs
<1>2. CASE Making(d, p, u).code = OkCode
  <2> DEFINE there == IF Present(d, p) THEN Exists ELSE OkCode
  <2>1. there = OkCode <=> ~Present(d, p)
    BY DEF Exists, OkCode
  <2>2. Making(d, p, u).code = First(<<AuthorizeNew(d, p, u), there>>)
    BY DEF Making
  <2> HIDE DEF there
  <2>3. ~Present(d, p) /\ AuthorizeNew(d, p, u) = OkCode
    BY <1>2, <2>1, <2>2, FirstOk
  <2>4. Making(d, p, u).disk = Put(d, p, Folder)
    BY <1>2 DEF Making
  <2>5. ~IsFolder(d, p) /\ IsFolder(d, Front(p)) /\ ~IsFile(d, p)
    BY <2>3, AuthorizeNewIs, KindIs
  <2> QED BY <2>4, <2>5, PutIs DEF FilesAs
<1> QED BY <1>1, <1>2

LEMMA MakeCollectionIs ==
  ASSUME FileServerInv, NEW c \in Clients, NEW p \in Paths, MakeCollection(c, p)
  PROVE  Kept
<1> DEFINE u == UserOf[c]
           h == WithHome(disk, u)
           d == Making(h, p, u).disk
           code == Making(h, p, u).code
           r == Request("mkcol", p, p, FALSE)
<1>1. Begin(c, r, d, code, "done")
  BY DEF MakeCollection
<1>2. code = OkCode => LET a == Asked(r, d, code, "done") IN Sound(a, u) /\ Stands(a, d, u)
  BY DEF Asked, Request, Idle, Sound, Stands, Jobs, OkCode
<1>3. WellFormed(h) /\ FilesAs(disk, h)
  BY HomeReady
<1>4. WellFormed(d) /\ OnlyOwn(h, d, u) /\ FilesAs(h, d)
  BY <1>3, MakingIs, MakingKeeps
<1>5. May(disk, d, u)
  BY <1>4, AfterHome DEF FileServerInv
<1>6. FilesAs(disk, d)
  BY <1>3, <1>4 DEF FilesAs, IsFile
<1> HIDE DEF r, code, d, h
<1> QED BY <1>1, <1>2, <1>4, <1>5, <1>6, BeginIs

LEMMA DavJobIs ==
  ASSUME FileServerInv, NEW c \in Clients, NEW op \in Jobs, NEW p \in Paths, NEW q \in Paths,
         NEW overwrite \in BOOLEAN, op = "delete" => p = q, DavJob(c, op, p, q, overwrite)
  PROVE  Kept
<1> DEFINE u == UserOf[c]
           d == WithHome(disk, u)
           r == Request(op, p, q, overwrite)
           code == JobCode(d, op, p, q, overwrite, u)
<1>1. Begin(c, r, d, code, "clear") /\ (op # "delete" => Fits(d, p, q))
  BY DEF DavJob
<1>2. WellFormed(d)
  BY HomeReady
<1>3. ASSUME code = OkCode
      PROVE  LET a == Asked(r, d, code, "clear") IN Sound(a, u) /\ Stands(a, d, u)
  <2> DEFINE a == Asked(r, d, code, "clear")
  <2>1. a = [op |-> op, from |-> p, to |-> q, flag |-> overwrite, at |-> "clear",
             code |-> OkCode, before |-> d, copied |-> {}]
    BY <1>3 DEF Asked, Request, Idle
  <2> HIDE DEF a, d
  <2>2. Sound(a, u)
    BY <1>1, <1>2, <1>3, <2>1 DEF Sound, Jobs
  <2>3. Clearing(a, d)
    BY <2>1 DEF Clearing, SameAt
  <2>4. Stands(a, d, u)
    BY <2>1, <2>3 DEF Stands
  <2> QED BY <2>2, <2>4 DEF a
<1> HIDE DEF r, code
<1> QED BY <1>1, <1>2, <1>3, HomeReady, BeginIs

LEMMA AskIs ==
  ASSUME FileServerInv, NEW c \in Clients, Ask(c)
  PROVE  Kept
<1>1. PICK p \in Paths :
       \/ \E createOnly \in BOOLEAN : WriteFile(c, p, createOnly)
       \/ Upload(c, p) \/ PutFile(c, p)
       \/ CreateDir(c, p) \/ RemoveEntry(c, p) \/ MakeCollection(c, p) \/ Delete(c, p)
       \/ \E q \in Paths, overwrite \in BOOLEAN : MoveTo(c, p, q, overwrite) \/ CopyTo(c, p, q, overwrite)
  BY DEF Ask
<1>2. CASE \E createOnly \in BOOLEAN : WriteFile(c, p, createOnly)
  BY <1>2, WriteFileIs
<1>3. CASE Upload(c, p)
  BY <1>3, UploadIs
<1>4. CASE PutFile(c, p)
  BY <1>4, PutFileIs
<1>5. CASE CreateDir(c, p)
  BY <1>5, CreateDirIs
<1>6. CASE RemoveEntry(c, p)
  BY <1>6, RemoveEntryIs
<1>7. CASE MakeCollection(c, p)
  BY <1>7, MakeCollectionIs
<1>8. "delete" \in Jobs /\ "move" \in Jobs /\ "copy" \in Jobs
  BY DEF Jobs
<1>9. CASE Delete(c, p)
  BY <1>8, <1>9, DavJobIs DEF Delete
<1>10. CASE \E q \in Paths, overwrite \in BOOLEAN : MoveTo(c, p, q, overwrite) \/ CopyTo(c, p, q, overwrite)
  <2>1. PICK q \in Paths, overwrite \in BOOLEAN : MoveTo(c, p, q, overwrite) \/ CopyTo(c, p, q, overwrite)
    BY <1>10
  <2>2. CASE MoveTo(c, p, q, overwrite)
    BY <1>8, <2>2, DavJobIs DEF MoveTo
  <2>3. CASE CopyTo(c, p, q, overwrite)
    BY <1>8, <2>3, DavJobIs DEF CopyTo
  <2> QED BY <2>1, <2>2, <2>3
<1> QED BY <1>1, <1>2, <1>3, <1>4, <1>5, <1>6, <1>7, <1>9, <1>10

-----------------------------------------------------------------------------
(* The steps that act on a file or a folder.                               *)

LEMMA EndIs ==
  ASSUME NEW r, NEW u, Sound(r, u), r.op \notin Jobs, NEW code, NEW d
  PROVE  /\ Sound(End(r, code), u) /\ Stands(End(r, code), d, u)
         /\ End(r, code).op = r.op /\ End(r, code).flag = r.flag
<1>1. End(r, code) = [op |-> r.op, from |-> <<>>, to |-> <<>>, flag |-> r.flag,
                      at |-> "done", code |-> OkCode, before |-> Absent, copied |-> {}]
  BY DEF End, Idle
<1> DEFINE e == End(r, code)
<1>2. /\ e.op = r.op /\ e.flag = r.flag /\ e.from = <<>> /\ e.to = <<>> /\ e.at = "done"
      /\ e = [op |-> e.op, from |-> e.from, to |-> e.to, flag |-> e.flag,
              at |-> e.at, code |-> e.code, before |-> e.before, copied |-> e.copied]
  BY <1>1
<1> HIDE DEF e
<1>3. Sound(e, u)
  BY <1>2, JailAssumption DEF Sound
<1>4. Stands(e, d, u)
  BY <1>2 DEF Stands
<1> QED BY <1>2, <1>3, <1>4 DEF e

\* A step that leaves the disk as it is spares everything.
LEMMA IdleStep ==
  ASSUME FileServerInv, NEW c \in Clients, NEW r, Sound(r, UserOf[c]),
         ~disturbed[c] => Stands(r, disk, UserOf[c]), Step(c, disk, r)
  PROVE  Kept
<1>1. Rightful(c, disk, r)
  BY MaySame DEF FileServerInv, Rightful, Spares
<1> QED BY <1>1, StepIs DEF FileServerInv

LEMMA WriteCheckIs ==
  ASSUME NEW d, NEW p \in Paths, NEW createOnly \in BOOLEAN, NEW u
  PROVE  WriteCheck(d, p, createOnly, u) = OkCode
           => /\ AuthorizeNew(d, p, u) = OkCode /\ ~IsFolder(d, p)
              /\ createOnly => ~Present(d, p)
<1> DEFINE there == IF IsFolder(d, p) \/ (createOnly /\ Present(d, p)) THEN Exists ELSE OkCode
           theirs == IF Present(d, p) THEN Authorize(d, p, u, "write") ELSE OkCode
           code == WriteCheck(d, p, createOnly, u)
<1>1. there = OkCode <=> ~(IsFolder(d, p) \/ (createOnly /\ Present(d, p)))
  BY DEF Exists, OkCode
<1>2. code = First(<<AuthorizeNew(d, p, u), there, theirs>>)
  BY DEF WriteCheck
<1> HIDE DEF there, theirs, code
<1>3. code = OkCode => AuthorizeNew(d, p, u) = OkCode /\ there = OkCode
  <2>1. First(<<AuthorizeNew(d, p, u), there, theirs>>) = OkCode
          => AuthorizeNew(d, p, u) = OkCode /\ there = OkCode
    BY FirstOk
  <2> QED BY <1>2, <2>1
<1>4. there = OkCode => ~IsFolder(d, p) /\ (createOnly => ~Present(d, p))
  BY <1>1
<1> QED BY <1>3, <1>4 DEF code

\* A file written, or a folder made, by one who may.
LEMMA PutKeeps ==
  ASSUME FileServerInv, NEW c \in Clients, NEW p \in Paths, NEW kind \in Texts \union {Folder},
         CanWrite(disk, p), NEW r, Sound(r, UserOf[c]), Step(c, Put(disk, p, kind), r),
         ~disturbed[c] => /\ Perms(disk, p, UserOf[c]).write
                          /\ Stands(r, Put(disk, p, kind), UserOf[c])
                          /\ AsksForNew(r) => ~IsFile(disk, p)
  PROVE  Kept
<1> DEFINE d == Put(disk, p, kind)
<1>1. WellFormed(d) /\ d.rules = disk.rules
      /\ \A q \in Paths : d.tree[q] = IF q = p THEN kind ELSE disk.tree[q]
  BY PutIs DEF CanWrite, FileServerInv
<1> HIDE DEF d
<1>2. ~disturbed[c] => May(disk, d, UserOf[c])
  BY <1>1 DEF May, Differs
<1>3. ~disturbed[c] => Spares(r, disk, d)
  BY <1>1 DEF Spares
<1>4. Rightful(c, d, r)
  BY <1>1, <1>2, <1>3 DEF Rightful, d
<1> QED BY <1>4, StepIs DEF d

LEMMA ActWriteIs ==
  ASSUME FileServerInv, NEW c \in Clients, ActWrite(c)
  PROVE  Kept
<1> DEFINE r == req[c]
           u == UserOf[c]
           p == r.to
<1>1. /\ Sound(r, u) /\ r.at = "act" /\ r.op = "write" /\ p \in Paths /\ r.op \notin Jobs
      /\ r.flag \in BOOLEAN
  BY InvIs DEF ActWrite, Sound, Jobs
<1>2. TextOf[c] \in Texts
  BY ServerAssumption
<1>3. ~disturbed[c] => WriteCheck(disk, p, r.flag, u) = OkCode
  BY <1>1, InvIs DEF Stands
<1>4. ~disturbed[c] => Perms(disk, p, u).write /\ (r.flag => ~Present(disk, p))
  BY <1>1, <1>3, WriteCheckIs, AuthorizeNewIs
<1> HIDE DEF r
<1>5. CASE CanWrite(disk, p)
  <2> DEFINE e == End(r, OkCode)
             d == Put(disk, p, TextOf[c])
  <2>1. Step(c, d, e)
    BY <1>5 DEF ActWrite, r
  <2>2. Sound(e, u) /\ Stands(e, d, u) /\ e.op = "write" /\ e.flag = r.flag
    BY <1>1, EndIs
  <2> HIDE DEF e
  <2>3. AsksForNew(e) => r.flag
    BY <2>2 DEF AsksForNew
  <2>4. ~Present(disk, p) => ~IsFile(disk, p)
    BY <1>1, KindIs DEF FileServerInv
  <2> QED BY <1>1, <1>2, <1>4, <1>5, <2>1, <2>2, <2>3, <2>4, PutKeeps
<1>6. CASE ~CanWrite(disk, p)
  <2>1. Step(c, disk, End(r, Io))
    BY <1>6 DEF ActWrite, r
  <2> QED BY <1>1, <2>1, EndIs, IdleStep
<1> QED BY <1>5, <1>6

LEMMA ActCreateDirIs ==
  ASSUME FileServerInv, NEW c \in Clients, ActCreateDir(c)
  PROVE  Kept
<1> DEFINE r == req[c]
           u == UserOf[c]
           p == r.to
<1>1. /\ Sound(r, u) /\ r.at = "act" /\ r.op = "mkdir" /\ p \in Paths /\ r.op \notin Jobs
  BY InvIs DEF ActCreateDir, Sound, Jobs
<1>2. ~disturbed[c] => AuthorizeNew(disk, p, u) = OkCode
  BY <1>1, InvIs DEF Stands
<1>3. ~disturbed[c] => Perms(disk, p, u).write
  BY <1>1, <1>2, AuthorizeNewIs
<1> HIDE DEF r
<1>4. CASE CanMake(disk, p)
  <2> DEFINE e == End(r, OkCode)
             d == Put(disk, p, Folder)
  <2>1. Step(c, d, e)
    BY <1>4 DEF ActCreateDir, CanMake, r
  <2>2. Sound(e, u) /\ Stands(e, d, u)
    BY <1>1, EndIs
  <2>3. ~IsFile(disk, p) /\ CanWrite(disk, p)
    BY <1>1, <1>4, KindIs DEF FileServerInv, CanMake, CanWrite
  <2> HIDE DEF e
  <2> QED BY <1>1, <1>3, <2>1, <2>2, <2>3, PutKeeps
<1>5. CASE ~CanMake(disk, p)
  <2>1. Step(c, disk, End(r, Exists)) \/ Step(c, disk, End(r, Io))
    BY <1>5 DEF ActCreateDir, r
  <2> QED BY <1>1, <2>1, EndIs, IdleStep
<1> QED BY <1>4, <1>5

LEMMA ActRemoveIs ==
  ASSUME FileServerInv, NEW c \in Clients, ActRemove(c)
  PROVE  Kept
<1> DEFINE r == req[c]
           u == UserOf[c]
           p == r.from
<1>1. /\ Sound(r, u) /\ r.at = "act" /\ r.op = "remove" /\ p \in Paths /\ r.op \notin Jobs
      /\ p # <<>> /\ WellFormed(disk)
  BY InvIs DEF ActRemove, Sound, Jobs
<1>2. ~disturbed[c] => CheckRemovable(disk, p, u) = OkCode
  BY <1>1, InvIs DEF Stands
<1> HIDE DEF r
<1>3. CASE Present(disk, p)
  <2> DEFINE e == End(r, OkCode)
             d == Without(disk, p)
  <2>1. Step(c, d, e)
    BY <1>3 DEF ActRemove, r
  <2>2. Sound(e, u) /\ Stands(e, d, u) /\ e.op = "remove"
    BY <1>1, EndIs
  <2>3. WellFormed(d)
    BY <1>1, WithoutIs
  <2>4. ~disturbed[c] => May(disk, d, u)
    BY <1>1, <1>2, RemovingIs DEF Removing, OnlyOwn, May
  <2> HIDE DEF e, d
  <2>5. Spares(e, disk, d)
    BY <2>2 DEF Spares, AsksForNew
  <2> QED BY <2>1, <2>2, <2>3, <2>4, <2>5, StepIs DEF Rightful
<1>4. CASE ~Present(disk, p)
  <2>1. Step(c, disk, End(r, NotFound))
    BY <1>4 DEF ActRemove, r
  <2> QED BY <1>1, <2>1, EndIs, IdleStep
<1> QED BY <1>3, <1>4

LEMMA StoreUploadIs ==
  ASSUME FileServerInv, NEW c \in Clients, StoreUpload(c)
  PROVE  Kept
<1> DEFINE r == req[c]
           u == UserOf[c]
           p == r.to
           able == IF CanWrite(disk, p) THEN OkCode ELSE Io
           code == First(<<Check(Perms(disk, p, u), "write"), able>>)
           e == End(r, code)
<1>1. /\ Sound(r, u) /\ r.op = "upload" /\ p \in Paths /\ r.op \notin Jobs
  BY InvIs DEF StoreUpload, Sound, Jobs
<1>2. Step(c, IF code = OkCode THEN Put(disk, p, TextOf[c]) ELSE disk, e)
  BY DEF StoreUpload
<1>3. able = OkCode <=> CanWrite(disk, p)
  BY DEF Io, OkCode
<1> HIDE DEF able
<1>4. code = OkCode => Perms(disk, p, u).write /\ CanWrite(disk, p)
  BY <1>1, <1>3, FirstOk, PermsAre
<1> HIDE DEF code, r
<1>5. \A d : Sound(e, u) /\ Stands(e, d, u) /\ e.op = "upload"
  BY <1>1, EndIs
<1> HIDE DEF e
<1>6. TextOf[c] \in Texts
  BY ServerAssumption
<1>7. ~AsksForNew(e)
  BY <1>5 DEF AsksForNew
<1>8. CASE code = OkCode
  BY <1>1, <1>2, <1>4, <1>5, <1>6, <1>7, <1>8, PutKeeps
<1>9. CASE code # OkCode
  BY <1>2, <1>5, <1>9, IdleStep
<1> QED BY <1>8, <1>9

LEMMA PutBodyIs ==
  ASSUME FileServerInv, NEW c \in Clients, PutBody(c)
  PROVE  Kept
<1> DEFINE r == req[c]
           u == UserOf[c]
<1>1. /\ Sound(r, u) /\ r.at = "body" /\ r.op = "put" /\ r.op \notin Jobs /\ WellFormed(disk)
  BY InvIs DEF PutBody, Sound, Jobs
<1>2. \A code, d : Sound(End(r, code), u) /\ Stands(End(r, code), d, u) /\ ~AsksForNew(End(r, code))
  BY <1>1, EndIs DEF AsksForNew
<1>3. TextOf[c] \in Texts /\ Part \in Texts
  BY ServerAssumption
<1>4. ASSUME NEW p \in OpenAt(c), NEW text \in {TextOf[c], Part}, NEW code,
             Step(c, Put(disk, p, text), End(r, code))
      PROVE  Kept
  <2>1. p \in Paths /\ IsFile(disk, p) /\ (~disturbed[c] => p = r.to)
    BY DEF OpenAt
  <2>2. ~IsFolder(disk, p) /\ Present(disk, p)
    BY <1>1, <2>1, KindIs
  <2>3. CanWrite(disk, p)
    BY <1>1, <2>1, <2>2, DiskIs DEF CanWrite
  <2>4. ~disturbed[c] => Perms(disk, p, u).write
    BY <1>1, <2>1, InvIs DEF Stands
  <2> QED BY <1>2, <1>3, <1>4, <2>1, <2>3, <2>4, PutKeeps
<1>5. CASE Step(c, disk, End(r, OkCode))
  BY <1>2, <1>5, IdleStep
<1> QED BY <1>4, <1>5 DEF PutBody

\* The folders missing on the way to p are made.
LEMMA FoldersMade ==
  ASSUME NEW d, WellFormed(d), NEW p \in Paths,
         \A q \in Paths : IsPrefix(q, p) => ~IsFile(d, q),
         NEW e, e = [d EXCEPT !.tree = [q \in Paths |->
                       IF q \in {o \in Paths : IsPrefix(o, p) /\ ~Present(d, o)} THEN Folder ELSE d.tree[q]]]
  PROVE  /\ WellFormed(e) /\ e.rules = d.rules
         /\ \A q \in Paths : e.tree[q] = IF IsPrefix(q, p) /\ ~Present(d, q) THEN Folder ELSE d.tree[q]
<1>1. d \in DiskSet
  BY DiskIs
<1>2. e \in DiskSet /\ e.rules = d.rules
  BY <1>1 DEF DiskSet
<1>3. \A q \in Paths : e.tree[q] = IF IsPrefix(q, p) /\ ~Present(d, q) THEN Folder ELSE d.tree[q]
  BY <1>1 DEF DiskSet
<1>4. \A q \in Paths : IsFolder(d, q) => IsFolder(e, q)
  BY <1>3 DEF IsFolder
<1>5. ASSUME NEW q \in Paths, q # <<>>, Present(e, q) PROVE IsFolder(e, Front(q))
  <2>1. Front(q) \in Paths /\ IsPrefix(Front(q), q)
    BY <1>5, FrontIs
  <2>2. CASE Present(d, q)
    BY <1>4, <1>5, <2>1, <2>2, DiskIs
  <2>3. CASE ~Present(d, q)
    <3>1. IsPrefix(q, p)
      BY <1>3, <1>5, <2>3 DEF Present
    <3>2. IsPrefix(Front(q), p)
      BY <2>1, <3>1, PrefixOrder
    <3>3. ~Present(d, Front(q)) \/ IsFolder(d, Front(q))
      BY <2>1, <3>2, KindIs
    <3> QED BY <1>3, <1>4, <2>1, <3>2, <3>3 DEF IsFolder
  <2> QED BY <2>2, <2>3
<1>6. \A q \in Paths : e.rules[q] # NoRules => IsFolder(e, q)
  BY <1>2, <1>4, DiskIs
<1>7. IsFolder(e, <<>>)
  BY <1>4, DiskIs
<1>8. WellFormed(e)
  BY <1>2, <1>5, <1>6, <1>7 DEF WellFormed, DiskSet
<1> QED BY <1>2, <1>3, <1>8

\* The path of a home has /home before it.
LEMMA UnderHome ==
  ASSUME NEW d, NEW p \in Paths, NEW u, Perms(d, p, u).write, IsPrefix(<<HomeName>>, p),
         <<HomeName>> \in Paths
  PROVE  IsPrefix(<<HomeName>>, HomeOf(u))
<1> DEFINE h == <<HomeName, u>>
<1>1. Len(<<HomeName>>) = 1 /\ <<HomeName>>[1] = HomeName /\ Len(p) \in Nat
  BY PathIs
<1>2. p # <<HomeName>> /\ Len(p) >= 1 /\ p[1] = HomeName
  BY <1>1, HomeFolder, PrefixIs
<1>3. Len(p) > 1
  <2>1. ASSUME Len(p) = 1 PROVE FALSE
    <3>1. p = <<p[1]>>
      BY <2>1, PathIs, SeqEqual
    <3> QED BY <1>2, <3>1
  <2>2. \A k \in Nat : k >= 1 /\ k # 1 => k > 1
    OBVIOUS
  <2> QED BY <1>1, <1>2, <2>1, <2>2, Zenon
<1>4. p[2] = u
  <2>1. Perms(d, p, u) = IF p[2] = u THEN All ELSE Nothing
    BY <1>1, <1>2, <1>3, JailAssumption DEF Perms
  <2> QED BY <2>1 DEF Nothing
<1>5. 2 \in 0..Len(p)
  BY <1>1, <1>3
<1>6. /\ Up(p, 2) \in Paths /\ Len(Up(p, 2)) = 2
      /\ Up(p, 2)[1] = HomeName /\ Up(p, 2)[2] = u
  <2> DEFINE n == 2
             t == Up(p, n)
  <2>1. n \in 0..Len(p) /\ 1 \in 1..n /\ 2 \in 1..n
    BY <1>5
  <2> HIDE DEF n
  <2>2. t \in Paths /\ Len(t) = n /\ \A i \in 1..n : t[i] = p[i]
    BY <2>1, UpIs
  <2> HIDE DEF t
  <2>3. t[1] = p[1] /\ t[2] = p[2]
    BY <2>1, <2>2
  <2> QED BY <1>2, <1>4, <2>2, <2>3 DEF n, t
<1>7. /\ h \in Seq(STRING) /\ Len(h) = 2 /\ h[1] = HomeName /\ h[2] = u
      /\ Up(p, 2) \in Seq(STRING)
  BY <1>1, <1>2, <1>3, <1>4, <1>6, PathIs
<1> HIDE DEF h
<1>8. Up(p, 2) = h
  BY <1>6, <1>7, SeqEqual
<1>9. HomeOf(u) \in Paths
  BY <1>6, <1>8 DEF HomeOf, h
<1> QED BY <1>9, HomeIs

LEMMA MakeFoldersIs ==
  ASSUME FileServerInv, NEW c \in Clients, MakeFolders(c)
  PROVE  Kept
<1> DEFINE r == req[c]
           u == UserOf[c]
           p == r.from
           q == r.to
           through == \E n \in 1..Len(p) : IsFile(disk, Up(p, n))
           e == [disk EXCEPT !.tree = [x \in Paths |->
                    IF x \in {o \in Paths : IsPrefix(o, p) /\ ~Present(disk, o)} THEN Folder ELSE disk.tree[x]]]
           s == [r EXCEPT !.at = "store"]
<1>1. /\ Sound(r, u) /\ r.at = "folders" /\ r.op = "upload" /\ p \in Paths /\ q \in Paths /\ r.op \notin Jobs
      /\ q # <<>> /\ p = Front(q) /\ WellFormed(disk)
  BY InvIs DEF MakeFolders, Sound, Jobs
<1>2. ~disturbed[c] => Perms(disk, q, u).write
  BY <1>1, InvIs DEF Stands
<1>3. CASE through
  <2>1. Step(c, disk, End(r, Io))
    BY <1>3 DEF MakeFolders
  <2> HIDE DEF r
  <2> QED BY <1>1, <2>1, EndIs, IdleStep
<1>4. CASE ~through
  <2>1. Step(c, e, s)
    BY <1>4 DEF MakeFolders
  <2>2. ASSUME NEW x \in Paths, IsPrefix(x, p) PROVE ~IsFile(disk, x)
    <3>1. Len(p) \in Nat /\ Len(x) \in Nat /\ Len(x) <= Len(p) /\ x = Up(p, Len(x))
      BY <1>1, <2>2, PathIs, PrefixOrder
    <3>2. CASE Len(x) = 0
      BY <1>1, <3>2, PathIs, KindIs, DiskIs
    <3>3. CASE Len(x) # 0
      <4>1. Len(x) \in 1..Len(p)
        BY <3>1, <3>3
      <4> QED BY <1>4, <3>1, <4>1
    <3> QED BY <3>2, <3>3
  <2>3. /\ WellFormed(e) /\ e.rules = disk.rules
        /\ \A x \in Paths : e.tree[x] = IF IsPrefix(x, p) /\ ~Present(disk, x) THEN Folder ELSE disk.tree[x]
    BY <1>1, <2>2, FoldersMade
  <2>4. /\ s = [op |-> r.op, from |-> p, to |-> q, flag |-> r.flag, at |-> "store",
                code |-> r.code, before |-> r.before, copied |-> r.copied]
        /\ r.flag \in BOOLEAN
    BY <1>1 DEF Sound
  <2> HIDE DEF e, s, r
  <2>5. Sound(s, u) /\ Stands(s, e, u) /\ ~AsksForNew(s)
    BY <1>1, <2>4 DEF Sound, Stands, AsksForNew, Jobs
  <2>6. ASSUME ~disturbed[c], NEW x \in Paths, Differs(disk, e, x)
        PROVE  Perms(disk, x, u).write \/ (~Present(disk, x) /\ IsPrefix(x, HomeOf(u)))
    <3>1. IsPrefix(x, p) /\ ~Present(disk, x) /\ ~IsFolder(disk, x)
      BY <1>1, <2>3, <2>6, KindIs DEF Differs
    <3>2. IsPrefix(x, q) /\ x # <<>>
      BY <1>1, <3>1, FrontIs, PrefixOrder, DiskIs
    <3>3. CASE x = <<HomeName>>
      BY <1>1, <1>2, <2>6, <3>1, <3>2, <3>3, UnderHome
    <3>4. CASE x # <<HomeName>>
      BY <1>1, <1>2, <2>6, <3>1, <3>2, <3>4, BelowInherits
    <3> QED BY <3>3, <3>4
  <2>7. ~disturbed[c] => May(disk, e, u)
    BY <2>6 DEF May
  <2> QED BY <2>1, <2>3, <2>5, <2>7, StepIs DEF Rightful, Spares
<1> QED BY <1>3, <1>4

-----------------------------------------------------------------------------
(* What a job was let start with, and how it clears its way.               *)

LEMMA JobIs ==
  ASSUME NEW b, WellFormed(b), NEW op \in Jobs, NEW p \in Paths, NEW q \in Paths,
         NEW overwrite \in BOOLEAN, NEW u, op = "delete" => p = q,
         JobCode(b, op, p, q, overwrite, u) = OkCode
  PROVE  /\ op # "copy" => Removable(b, p, u)
         /\ op = "copy" => /\ Perms(b, p, u).read /\ Present(b, p)
                           /\ \A x \in Below(p) : IsFolder(b, x) => Perms(b, x, u).read
         /\ op # "delete" => AuthorizeNew(b, q, u) = OkCode
         /\ op # "delete" /\ Present(b, q) => overwrite
         /\ Present(b, q) => Removable(b, q, u)
         /\ q # <<>>
         /\ op # "delete" => p # q
<1> DEFINE source == IF op = "copy" THEN CheckReadableTree(b, p, u) ELSE CheckRemovable(b, p, u)
           new == IF op = "delete" THEN OkCode ELSE AuthorizeNew(b, q, u)
           old == IF op # "delete" /\ Present(b, q) /\ overwrite THEN CheckRemovable(b, q, u) ELSE OkCode
           spared == IF op # "delete" /\ Present(b, q) /\ ~overwrite THEN Exists ELSE OkCode
           same == IF op # "delete" /\ p = q THEN Denied ELSE OkCode
           pre == Preflight(b, op, p, q, overwrite, u)
           code == JobCode(b, op, p, q, overwrite, u)
<1>1. pre = First(<<source, new, old>>)
  BY DEF Preflight
<1>2. code = First(<<pre, spared, same>>) /\ code = OkCode
  BY DEF JobCode
<1>3. spared = OkCode => (op # "delete" /\ Present(b, q) => overwrite)
  BY DEF Exists, OkCode
<1>4. old = OkCode => (op # "delete" /\ Present(b, q) /\ overwrite => Removable(b, q, u))
  BY CheckRemovableIs
<1>5. new = OkCode => (op # "delete" => AuthorizeNew(b, q, u) = OkCode)
  OBVIOUS
<1>6. source = OkCode => (op # "copy" => Removable(b, p, u))
  BY CheckRemovableIs
<1>7. source = OkCode => (op = "copy" => /\ Perms(b, p, u).read /\ Present(b, p)
                                         /\ \A x \in Below(p) : IsFolder(b, x) => Perms(b, x, u).read)
  BY CheckReadableTreeIs
<1>13. same = OkCode => (op # "delete" => p # q)
  BY DEF Denied, OkCode
<1> HIDE DEF source, new, old, spared, same, pre, code
<1>8. pre = OkCode /\ spared = OkCode /\ same = OkCode
  <2>1. First(<<pre, spared, same>>) = OkCode
    BY <1>2
  <2> QED BY <2>1, FirstOk
<1>9. First(<<source, new, old>>) = OkCode
  BY <1>1, <1>8
<1>10. source = OkCode /\ new = OkCode /\ old = OkCode
  BY <1>9, FirstOk
<1>11. Present(b, q) => Removable(b, q, u)
  BY <1>3, <1>4, <1>6, <1>8, <1>10
<1>12. q # <<>>
  BY <1>5, <1>6, <1>10, AuthorizeNewIs DEF Removable
<1> QED BY <1>3, <1>5, <1>6, <1>7, <1>8, <1>10, <1>11, <1>12, <1>13

LEMMA JobStands ==
  ASSUME NEW r, NEW u, Sound(r, u), r.op \in Jobs
  PROVE  /\ WellFormed(r.before) /\ r.from \in Paths /\ r.to \in Paths /\ r.to # <<>>
         /\ r.op # "copy" => Removable(r.before, r.from, u)
         /\ r.op = "copy" => /\ Perms(r.before, r.from, u).read /\ Present(r.before, r.from)
                             /\ \A x \in Below(r.from) : IsFolder(r.before, x) => Perms(r.before, x, u).read
         /\ r.op # "delete" => AuthorizeNew(r.before, r.to, u) = OkCode
         /\ r.op # "delete" /\ Present(r.before, r.to) => r.flag
         /\ Present(r.before, r.to) => Removable(r.before, r.to, u)
         /\ r.op # "delete" => r.from # r.to
<1> DEFINE b == r.before
           op == r.op
           p == r.from
           q == r.to
           f == r.flag
<1>1. /\ WellFormed(b) /\ op \in Jobs /\ p \in Paths /\ q \in Paths /\ f \in BOOLEAN
      /\ (op = "delete" => p = q) /\ JobCode(b, op, p, q, f, u) = OkCode
  BY DEF Sound
<1> HIDE DEF b, op, p, q, f
<1>2. /\ op # "copy" => Removable(b, p, u)
      /\ op = "copy" => /\ Perms(b, p, u).read /\ Present(b, p)
                        /\ \A x \in Below(p) : IsFolder(b, x) => Perms(b, x, u).read
      /\ op # "delete" => AuthorizeNew(b, q, u) = OkCode
      /\ op # "delete" /\ Present(b, q) => f
      /\ Present(b, q) => Removable(b, q, u)
      /\ q # <<>>
      /\ op # "delete" => p # q
  BY <1>1, JobIs
<1> QED BY <1>1, <1>2 DEF b, op, p, q, f

\* The rules for what is left are those of before.
LEMMA ClearingPerms ==
  ASSUME NEW r, NEW d, WellFormed(d), r.to \in Paths, Clearing(r, d),
         NEW q \in Paths, Present(d, q) \/ ~IsPrefix(r.to, q), NEW u
  PROVE  Perms(d, q, u) = Perms(r.before, q, u)
<1>1. ASSUME NEW x \in Paths, IsPrefix(x, q) PROVE d.rules[x] = r.before.rules[x]
  <2>1. CASE ~IsPrefix(r.to, x)
    BY <2>1 DEF Clearing, SameAt
  <2>2. CASE IsPrefix(r.to, x)
    <3>1. Present(d, q)
      BY <1>1, <2>2, PrefixOrder
    <3>2. Present(d, x)
      BY <1>1, <3>1, WayIsFolders, KindIs
    <3> QED BY <2>2, <3>2 DEF Clearing, SameAt, GoneAt, Present
  <2> QED BY <2>1, <2>2
<1> QED BY <1>1, PermsSame

\* So what is left of it may go.
LEMMA ClearingMay ==
  ASSUME NEW r, NEW u, Sound(r, u), r.op \in Jobs, NEW d, WellFormed(d), Clearing(r, d),
         NEW e \in Paths, IsPrefix(r.to, e), Present(d, e)
  PROVE  Removable(d, e, u) /\ Present(r.before, r.to)
<1> DEFINE b == r.before
           to == r.to
<1>1. WellFormed(b) /\ to \in Paths /\ to # <<>> /\ (Present(b, to) => Removable(b, to, u))
  BY JobStands
<1>2. ASSUME NEW x \in Paths, IsPrefix(to, x), Present(d, x)
      PROVE  Perms(d, x, u).write /\ Present(b, to)
  <2>1. Present(b, x)
    BY <1>2 DEF Clearing, SameAt, GoneAt, Present
  <2>2. Present(b, to)
    BY <1>1, <1>2, <2>1, WayIsFolders, KindIs
  <2>3. Perms(b, x, u).write
    BY <1>1, <1>2, <2>1, <2>2, RemovableAll
  <2>4. Perms(d, x, u) = Perms(b, x, u)
    BY <1>1, <1>2, ClearingPerms
  <2> QED BY <2>2, <2>3, <2>4
<1>3. e # <<>>
  BY <1>1, PrefixOrder, DiskIs
<1>4. Front(e) \in Paths /\ IsPrefix(Front(e), e) /\ Front(e) # e
  BY <1>3, FrontIs
<1>5. IsFolder(d, Front(e)) /\ Present(d, Front(e))
  BY <1>3, <1>4, DiskIs, KindIs
<1>6. Perms(d, Front(e), u).write
  <2>1. CASE e = to
    <3>1. ~IsPrefix(to, Front(e))
      BY <1>1, <1>4, <2>1, PrefixOrder
    <3>2. Perms(d, Front(e), u) = Perms(b, Front(e), u)
      BY <1>1, <1>4, <3>1, ClearingPerms
    <3>3. Removable(b, to, u)
      BY <1>1, <1>2
    <3> QED BY <2>1, <3>2, <3>3 DEF Removable
  <2>2. CASE e # to
    <3>1. IsPrefix(to, Front(e))
      BY <1>1, <1>3, <2>2, FrontIs
    <3> QED BY <1>2, <1>4, <1>5, <3>1
  <2> QED BY <2>1, <2>2
<1>7. ASSUME NEW x \in Below(e), IsFolder(d, x) PROVE Perms(d, x, u).write
  <2>1. x \in Paths /\ IsPrefix(e, x)
    BY BelowIs
  <2>2. IsPrefix(to, x) /\ Present(d, x)
    BY <1>1, <1>7, <2>1, PrefixOrder, KindIs
  <2> QED BY <1>2, <2>1, <2>2
<1> QED BY <1>2, <1>3, <1>5, <1>6, <1>7 DEF Removable

\* When nothing is reached, all of it is gone.
LEMMA ClearingEnds ==
  ASSUME NEW r, NEW u, r.to \in Paths, NEW d, WellFormed(d), Clearing(r, d), ~Present(d, r.to)
  PROVE  Emptied(r, d)
<1>1. ASSUME NEW q \in Paths, IsPrefix(r.to, q) PROVE GoneAt(d, q)
  <2>1. ~Present(d, q)
    BY <1>1, WayIsFolders, KindIs
  <2>2. d.rules[q] = NoRules
    BY <2>1, DiskIs, KindIs
  <2> QED BY <2>1, <2>2 DEF GoneAt, Present
<1> QED BY <1>1 DEF Emptied, Clearing

\* A disk is known by its paths.
LEMMA SameDisk ==
  ASSUME NEW d, WellFormed(d), NEW e, WellFormed(e), \A q \in Paths : SameAt(d, e, q)
  PROVE  d = e
<1>1. d \in DiskSet /\ e \in DiskSet
  BY DiskIs
<1>2. d.tree = e.tree
  BY <1>1 DEF DiskSet, SameAt
<1>3. d.rules = e.rules
  BY <1>1 DEF DiskSet, SameAt
<1> QED BY <1>1, <1>2, <1>3 DEF DiskSet

LEMMA EmptiedIs ==
  ASSUME NEW r, WellFormed(r.before), r.to \in Paths, r.to # <<>>, NEW d, WellFormed(d), Emptied(r, d)
  PROVE  d = Without(r.before, r.to)
<1> DEFINE w == Without(r.before, r.to)
<1>1. WellFormed(w) /\ \A q \in Paths :
           /\ w.tree[q] = IF IsPrefix(r.to, q) THEN Absent ELSE r.before.tree[q]
           /\ w.rules[q] = IF IsPrefix(r.to, q) THEN NoRules ELSE r.before.rules[q]
  BY WithoutIs
<1> HIDE DEF w
<1>2. \A q \in Paths : SameAt(d, w, q)
  BY <1>1 DEF Emptied, SameAt, GoneAt
<1> QED BY <1>1, <1>2, SameDisk DEF w

LEMMA ReachedIs ==
  ASSUME NEW d, NEW top \in Paths, NEW u
  PROVE  /\ Reached(d, top, u) \subseteq Paths
         /\ \A q \in Reached(d, top, u) : IsPrefix(top, q) /\ Present(d, q)
         /\ Present(d, top) => top \in Reached(d, top, u)
<1>1. \A q \in Within(top) : q \in Paths /\ IsPrefix(top, q)
  BY BelowIs
<1>2. top \in Within(top) /\ Len(top) \in Nat
  BY BelowIs, PrefixOrder, PathIs
<1>3. \A n \in (Len(top) + 1)..Len(top) : FALSE
  BY <1>2
<1> QED BY <1>1, <1>2, <1>3 DEF Reached

\* A job on its way is still the job that was asked for.
LEMMA SameJob ==
  ASSUME NEW r, NEW u, Sound(r, u), r.op \in Jobs, NEW at \in {"done", "clear", "carry"},
         at = "clear" => r.copied = {}, at = "carry" => r.op # "delete", NEW code, NEW copied,
         at = "clear" => copied = {},
         NEW s, s = [op |-> r.op, from |-> r.from, to |-> r.to, flag |-> r.flag,
                     at |-> at, code |-> code, before |-> r.before, copied |-> copied]
  PROVE  Sound(s, u)
<1>1. /\ s.op = r.op /\ s.from = r.from /\ s.to = r.to /\ s.flag = r.flag /\ s.before = r.before
      /\ s.at = at /\ s.copied = copied
      /\ s = [op |-> s.op, from |-> s.from, to |-> s.to, flag |-> s.flag,
              at |-> s.at, code |-> s.code, before |-> s.before, copied |-> s.copied]
  OBVIOUS
<1>2. r.op \in {"delete", "move", "copy"}
  BY DEF Jobs
<1>3. at = "carry" => r.op \in {"move", "copy"}
  BY <1>2
<1> QED BY <1>1, <1>3 DEF Sound

LEMMA JobEnd ==
  ASSUME NEW r, NEW u, Sound(r, u), r.op \in Jobs, NEW code
  PROVE  /\ Sound(End(r, code), u)
         /\ End(r, code) = [op |-> r.op, from |-> r.from, to |-> r.to, flag |-> r.flag,
                            at |-> "done", code |-> code, before |-> r.before, copied |-> r.copied]
<1>1. End(r, code) = [op |-> r.op, from |-> r.from, to |-> r.to, flag |-> r.flag,
                      at |-> "done", code |-> code, before |-> r.before, copied |-> r.copied]
  BY DEF End, Sound
<1> QED BY <1>1, SameJob

LEMMA ClearedIs ==
  ASSUME FileServerInv, NEW c \in Clients, NEW r, r = req[c], r.at = "clear",
         Reached(disk, r.to, UserOf[c]) = {},
         Step(c, disk, IF r.op = "delete" THEN End(r, OkCode) ELSE [r EXCEPT !.at = "carry"])
  PROVE  Kept
<1> DEFINE u == UserOf[c]
           s == IF r.op = "delete" THEN End(r, OkCode) ELSE [r EXCEPT !.at = "carry"]
<1>1. Sound(r, u) /\ r.op \in Jobs /\ WellFormed(disk) /\ r.copied = {}
  BY InvIs DEF Sound
<1>2. WellFormed(r.before) /\ r.from \in Paths /\ r.to \in Paths /\ r.to # <<>>
  BY <1>1, JobStands
<1>3. ~Present(disk, r.to)
  BY <1>2, ReachedIs
<1>4. ~disturbed[c] => Emptied(r, disk)
  BY <1>1, <1>2, <1>3, InvIs, ClearingEnds DEF Stands
<1>5. CASE r.op = "delete"
  <2>1. /\ Sound(s, u)
        /\ s = [op |-> r.op, from |-> r.from, to |-> r.to, flag |-> r.flag, at |-> "done",
                code |-> OkCode, before |-> r.before, copied |-> r.copied]
    BY <1>1, <1>5, JobEnd
  <2>2. r.from = r.to
    BY <1>1, <1>5 DEF Sound
  <2>3. ~disturbed[c] => disk = Without(r.before, r.to)
    BY <1>1, <1>2, <1>4, EmptiedIs
  <2> HIDE DEF s
  <2>4. ~disturbed[c] => Ended(s, disk)
    BY <1>5, <2>1, <2>2, <2>3 DEF Completed, Ended, Crossed
  <2>5. ~disturbed[c] => Stands(s, disk, u)
    BY <2>1, <2>4 DEF Stands
  <2> QED BY <2>1, <2>5, IdleStep DEF s
<1>6. CASE r.op # "delete"
  <2>1. s = [op |-> r.op, from |-> r.from, to |-> r.to, flag |-> r.flag, at |-> "carry",
             code |-> r.code, before |-> r.before, copied |-> r.copied]
    BY <1>1, <1>6 DEF Sound
  <2> HIDE DEF s
  <2>2. Sound(s, u)
    BY <1>1, <1>6, <2>1, SameJob
  <2>3. Emptied(r, disk) => Emptied(s, disk) /\ Partway(s, disk)
    BY <1>1, <2>1 DEF Emptied, Partway, GoneAt, SameAt
  <2>4. ~disturbed[c] => Stands(s, disk, u)
    BY <1>4, <2>1, <2>3 DEF Stands
  <2> QED BY <2>2, <2>4, IdleStep DEF s
<1> QED BY <1>5, <1>6

LEMMA ClearEntryIs ==
  ASSUME FileServerInv, NEW c \in Clients, ClearEntry(c)
  PROVE  Kept
<1> DEFINE r == req[c]
           u == UserOf[c]
           reached == Reached(disk, r.to, u)
<1>1. Sound(r, u) /\ r.at = "clear" /\ r.op \in Jobs /\ WellFormed(disk) /\ r.copied = {}
  BY InvIs DEF ClearEntry, Sound
<1>2. WellFormed(r.before) /\ r.from \in Paths /\ r.to \in Paths /\ r.to # <<>>
  BY <1>1, JobStands
<1>3. CASE reached = {}
  BY <1>1, <1>3, ClearedIs DEF ClearEntry
<1>4. CASE reached # {}
  <2>1. PICK e \in reached :
          Step(c, Removing(disk, e, u).disk,
               IF Removing(disk, e, u).code = OkCode THEN r ELSE End(r, Removing(disk, e, u).code))
    BY <1>4 DEF ClearEntry
  <2> DEFINE d == Removing(disk, e, u).disk
             code == Removing(disk, e, u).code
             s == IF code = OkCode THEN r ELSE End(r, code)
  <2>2. e \in Paths /\ IsPrefix(r.to, e) /\ Present(disk, e)
    BY <1>2, <2>1, ReachedIs
  <2>3. WellFormed(d) /\ OnlyOwn(disk, d, u)
    BY <1>1, <2>2, RemovingIs
  <2>4. Sound(s, u)
    BY <1>1, JobEnd
  <2>5. ASSUME ~disturbed[c] PROVE Stands(s, d, u) /\ May(disk, d, u) /\ Spares(s, disk, d)
    <3>1. Clearing(r, disk)
      BY <1>1, <2>5, InvIs DEF Stands
    <3>2. Removable(disk, e, u) /\ Present(r.before, r.to)
      BY <1>1, <2>2, <3>1, ClearingMay
    <3>3. code = OkCode /\ d = Without(disk, e)
      BY <2>2, <3>2, CheckRemovableIs DEF Removing
    <3>4. s = r
      BY <3>3
    <3>5. e # <<>>
      BY <3>2 DEF Removable
    <3> HIDE DEF d, s, code
    <3>6. \A q \in Paths : /\ d.tree[q] = IF IsPrefix(e, q) THEN Absent ELSE disk.tree[q]
                           /\ d.rules[q] = IF IsPrefix(e, q) THEN NoRules ELSE disk.rules[q]
      BY <1>1, <2>2, <3>3, <3>5, WithoutIs
    <3>7. \A q \in Paths : IsPrefix(e, q) => IsPrefix(r.to, q)
      BY <1>2, <2>2, PrefixOrder
    <3>8. Clearing(r, d)
      BY <3>1, <3>6, <3>7 DEF Clearing, SameAt, GoneAt
    <3>9. Stands(s, d, u)
      BY <1>1, <3>4, <3>8 DEF Stands
    <3>10. May(disk, d, u)
      BY <2>3 DEF May, OnlyOwn
    <3>11. r.op # "delete" => r.flag
      BY <1>1, <3>2, JobStands
    <3>12. ~AsksForNew(s)
      BY <1>1, <3>4, <3>11 DEF AsksForNew, Jobs
    <3> QED BY <3>9, <3>10, <3>12 DEF Spares
  <2> HIDE DEF d, s
  <2> QED BY <2>1, <2>3, <2>4, <2>5, StepIs DEF Rightful, s, d
<1> QED BY <1>3, <1>4

-----------------------------------------------------------------------------
(* Onto what was cleared.                                                  *)

\* A folder with no rules in the root is as the root, but for the two built in.
LEMMA PermsOfTop ==
  ASSUME NEW d, NEW p \in Paths, p # <<>>, Front(p) = <<>>, NEW u,
         p # <<HomeName>>, p[1] # DesktopsName, d.rules[p] = NoRules
  PROVE  Perms(d, p, u) = Perms(d, <<>>, u)
<1>1. Len(p) = 1
  <2>1. Len(<<>>) = Len(p) - 1 /\ Len(p) \in Nat
    BY FrontIs, PathIs
  <2> QED BY <2>1
<1>2. <<>> \in Paths /\ Len(<<>>) = 0
  BY JailAssumption
<1>3. Up(p, 1) = p /\ Up(p, 0) = <<>> /\ Up(<<>>, 0) = <<>>
  <2>1. IsPrefix(p, p) /\ IsPrefix(<<>>, p) /\ IsPrefix(<<>>, <<>>)
    BY <1>2, PrefixOrder
  <2>2. p = Up(p, Len(p)) /\ <<>> = Up(p, Len(<<>>)) /\ <<>> = Up(<<>>, Len(<<>>))
    BY <1>2, <2>1, PrefixOrder
  <2> QED BY <1>1, <1>2, <2>2
<1> DEFINE o == <<>>
<1>4. Ruled(d, p) = Ruled(d, o) /\ Ruled(d, o) \subseteq {0}
  <2>1. \A n \in 0..Len(p) : n = 0 \/ n = 1
    BY <1>1
  <2>2. \A n \in 0..Len(o) : n = 0
    BY <1>2
  <2>3. 0 \in 0..Len(p) /\ 0 \in 0..Len(o)
    BY <1>1, <1>2
  <2> HIDE DEF o
  <2> QED BY <1>3, <2>1, <2>2, <2>3 DEF Ruled, o
<1>5. p[1] # HomeName
  <2>1. ASSUME p[1] = HomeName PROVE FALSE
    <3>1. p = <<p[1]>>
      BY <1>1, PathIs, SeqEqual
    <3> QED BY <2>1, <3>1
  <2> QED BY <2>1
<1>6. ~(Len(p) > 1) /\ ~(Len(o) > 1)
  BY <1>1, <1>2
<1>7. o # <<HomeName>> /\ o = <<>>
  OBVIOUS
<1> HIDE DEF o
<1>8. CASE Ruled(d, o) = {}
  <2>1. Perms(d, p, u) = All
    BY <1>4, <1>5, <1>6, <1>8 DEF Perms
  <2>2. Perms(d, o, u) = All
    BY <1>4, <1>6, <1>7, <1>8 DEF Perms
  <2> QED BY <2>1, <2>2 DEF o
<1>9. CASE Ruled(d, o) # {}
  <2> DEFINE n == CHOOSE k \in Ruled(d, o) : \A x \in Ruled(d, o) : x <= k
  <2>1. n = 0
    BY <1>2, <1>4, <1>9, NearestRule DEF o
  <2>2. Up(p, n) = o /\ Up(o, n) = o
    BY <1>3, <2>1 DEF o
  <2> HIDE DEF n
  <2>3. Perms(d, p, u) = RulePerms(d.rules[o], u)
    BY <1>4, <1>5, <1>6, <1>9, <2>2 DEF Perms, n
  <2>4. Perms(d, o, u) = RulePerms(d.rules[o], u)
    BY <1>6, <1>7, <1>9, <2>2 DEF Perms, n
  <2> QED BY <2>3, <2>4 DEF o
<1> QED BY <1>8, <1>9

\* What has gone may be put back: its folder is there, and lets the caller.
LEMMA TargetMay ==
  ASSUME NEW b, WellFormed(b), NEW to \in Paths, NEW u, AuthorizeNew(b, to, u) = OkCode,
         Present(b, to) => Removable(b, to, u),
         NEW d, \A q \in Paths : ~IsPrefix(to, q) => SameAt(d, b, q), d.rules[to] = NoRules
  PROVE  /\ to # <<>> /\ to # <<HomeName>>
         /\ IsFolder(d, Front(to)) /\ Perms(d, to, u).write
<1>1. /\ to # <<>> /\ Perms(b, to, u).write /\ IsFolder(b, Front(to)) /\ to # <<HomeName>>
  BY AuthorizeNewIs, HomeFolder
<1>2. /\ Front(to) \in Paths /\ IsPrefix(Front(to), to) /\ Front(to) # to
  BY <1>1, FrontIs
<1>3. ~IsPrefix(to, Front(to))
  BY <1>2, PrefixOrder
<1>4. IsFolder(d, Front(to))
  BY <1>1, <1>2, <1>3 DEF SameAt, IsFolder
<1>5. ASSUME NEW x \in Paths, IsPrefix(x, to), x # to PROVE d.rules[x] = b.rules[x]
  <2>1. ~IsPrefix(to, x)
    BY <1>5, PrefixOrder
  <2> QED BY <2>1 DEF SameAt
<1>6. CASE b.rules[to] = NoRules
  <2>1. \A x \in Paths : IsPrefix(x, to) => d.rules[x] = b.rules[x]
    BY <1>5, <1>6
  <2>2. Perms(d, to, u) = Perms(b, to, u)
    BY <2>1, PermsSame
  <2> QED BY <1>1, <1>4, <2>2
<1>7. CASE b.rules[to] # NoRules
  <2>1. Removable(b, to, u)
    BY <1>7, DiskIs, KindIs
  <2>2. Perms(b, Front(to), u).write
    BY <2>1 DEF Removable
  <2>3. Perms(d, Front(to), u) = Perms(b, Front(to), u)
    <3>1. \A x \in Paths : IsPrefix(x, Front(to)) => IsPrefix(x, to) /\ x # to
      BY <1>2, PrefixOrder
    <3> QED BY <1>2, <1>5, <3>1, PermsSame
  <2>4. Front(to) # <<HomeName>>
    BY <2>2, HomeFolder
  <2>5. Perms(d, to, u) = Perms(d, Front(to), u)
    <3>1. CASE Front(to) # <<>>
      <4>1. \A x \in Paths : IsPrefix(Front(to), x) /\ x # Front(to) /\ IsPrefix(x, to) => x = to
        BY <1>1, <1>2, FrontIs, PrefixOrder
      <4> QED BY <1>2, <2>4, <3>1, <4>1, PermsInherit
    <3>2. CASE Front(to) = <<>>
      <4>1. to[1] # DesktopsName
        <5>1. ASSUME to[1] = DesktopsName PROVE Perms(b, to, u) = Nothing
          BY <1>1, <5>1, JailAssumption DEF Perms
        <5> QED BY <1>1, <5>1 DEF Nothing
      <4> QED BY <1>1, <3>2, <4>1, PermsOfTop
    <3> QED BY <3>1, <3>2
  <2> QED BY <1>1, <1>4, <2>2, <2>3, <2>5
<1> QED BY <1>6, <1>7

LEMMA ApartIs ==
  ASSUME NEW p \in Paths, NEW q \in Paths, Apart(p, q), NEW x \in Paths, IsPrefix(p, x)
  PROVE  ~IsPrefix(q, x)
<1>1. Len(p) \in Nat /\ Len(q) \in Nat
  BY PathIs
<1>2. Len(p) <= Len(q) \/ Len(q) <= Len(p)
  BY <1>1
<1> QED BY <1>2, PrefixOrder DEF Apart

LEMMA RenamingOk ==
  ASSUME NEW d, NEW p \in Paths, NEW q \in Paths, NEW u, Removable(d, p, u),
         CheckWritableTarget(d, q, u) = OkCode, ~IsPrefix(p, q), CanMove(d, p, q)
  PROVE  Renaming(d, p, q, u).code = OkCode /\ Renaming(d, p, q, u).disk = Moved(d, p, q)
<1> DEFINE itself == IF IsPrefix(p, q) THEN Denied ELSE OkCode
           able   == IF CanMove(d, p, q) THEN OkCode ELSE Io
           code   == First(<<CheckRemovable(d, p, u), CheckWritableTarget(d, q, u), itself, able>>)
<1>1. itself = OkCode /\ able = OkCode
  OBVIOUS
<1>2. Renaming(d, p, q, u) = [code |-> code, disk |-> IF code = OkCode THEN Moved(d, p, q) ELSE d]
  BY DEF Renaming
<1>3. CheckRemovable(d, p, u) = OkCode
  BY CheckRemovableIs
<1> HIDE DEF itself, able
<1>4. code = OkCode
  BY <1>1, <1>3, FirstOk
<1> HIDE DEF code
<1> QED BY <1>2, <1>4

\* Source and destination of a job that does not cross.
LEMMA ApartJob ==
  ASSUME NEW r, NEW u, Sound(r, u), r.op \in {"move", "copy"}
  PROVE  /\ r.op = "move" => (Crossed(r) <=> ~Apart(r.from, r.to))
         /\ r.op = "copy" => (Crossed(r) <=> IsPrefix(r.to, r.from))
         /\ r.from # r.to /\ Fits(r.before, r.from, r.to)
<1>1. r.from # r.to
  BY JobStands DEF Jobs
<1>2. Fits(r.before, r.from, r.to)
  BY DEF Sound, Jobs
<1> QED BY <1>1, <1>2 DEF Crossed, IsStrictPrefix, Apart

\* A move whose way is clear is let through, if it does not cross.
LEMMA MoveClear ==
  ASSUME NEW r, NEW u, Sound(r, u), r.op = "move", ~Crossed(r), NEW d, WellFormed(d), Emptied(r, d)
  PROVE  /\ Renaming(d, r.from, r.to, u).code = OkCode
         /\ Renaming(d, r.from, r.to, u).disk = Moved(d, r.from, r.to)
         /\ IsFolder(d, Front(r.to)) /\ Apart(r.from, r.to)
<1> DEFINE b == r.before
           p == r.from
           q == r.to
<1>1. /\ WellFormed(b) /\ p \in Paths /\ q \in Paths /\ q # <<>> /\ Removable(b, p, u)
      /\ AuthorizeNew(b, q, u) = OkCode /\ (Present(b, q) => Removable(b, q, u))
  BY JobStands DEF Jobs
<1>2. Apart(p, q) /\ Fits(b, p, q)
  BY ApartJob
<1>3. /\ \A x \in Paths : ~IsPrefix(q, x) => SameAt(d, b, x)
      /\ \A x \in Paths : IsPrefix(q, x) => GoneAt(d, x)
  BY DEF Emptied
<1> HIDE DEF b, p, q
<1>4. GoneAt(d, q)
  BY <1>1, <1>3, PrefixOrder
<1>5. IsFolder(d, Front(q)) /\ Perms(d, q, u).write
  BY <1>1, <1>3, <1>4, TargetMay DEF GoneAt
<1>6. ~Present(d, q) /\ ~IsFile(d, q) /\ ~IsFolder(d, q)
  BY <1>1, <1>4, KindIs DEF GoneAt, Present
<1>7. CheckWritableTarget(d, q, u) = OkCode
  <2>1. Front(q) \in Paths
    BY <1>1, FrontIs
  <2>2. AuthorizeNew(d, q, u) = OkCode
    BY <1>1, <1>5, <2>1, AuthorizeNewIs, KindIs
  <2> QED BY <1>1, <1>6, <2>2, CheckWritableTargetIs
<1>8. ASSUME NEW x \in Paths, ~IsPrefix(q, x)
      PROVE  d.tree[x] = b.tree[x] /\ Perms(d, x, u) = Perms(b, x, u)
  <2>1. ASSUME NEW y \in Paths, IsPrefix(y, x) PROVE d.rules[y] = b.rules[y]
    <3>1. ~IsPrefix(q, y)
      BY <1>1, <1>8, <2>1, PrefixOrder
    <3> QED BY <1>3, <3>1 DEF SameAt
  <2>2. Perms(d, x, u) = Perms(b, x, u)
    BY <2>1, PermsSame
  <2> QED BY <1>3, <1>8, <2>2 DEF SameAt
<1>9. p # <<>> /\ Front(p) \in Paths /\ IsPrefix(Front(p), p)
  BY <1>1, FrontIs DEF Removable
<1>10. ~IsPrefix(q, p) /\ ~IsPrefix(q, Front(p)) /\ ~IsPrefix(p, q)
  BY <1>1, <1>2, <1>9, PrefixOrder DEF Apart
<1>11. Removable(d, p, u)
  <2>1. /\ Present(d, p) /\ Present(d, Front(p))
        /\ Perms(d, p, u).write /\ Perms(d, Front(p), u).write
    BY <1>1, <1>8, <1>9, <1>10 DEF Removable, Present
  <2>2. ASSUME NEW x \in Below(p), IsFolder(d, x) PROVE Perms(d, x, u).write
    <3>1. x \in Paths /\ IsPrefix(p, x)
      BY <1>1, BelowIs
    <3>2. ~IsPrefix(q, x)
      BY <1>1, <1>2, <3>1, ApartIs
    <3>3. IsFolder(b, x) /\ Perms(d, x, u) = Perms(b, x, u)
      BY <1>8, <2>2, <3>1, <3>2 DEF IsFolder
    <3> QED BY <1>1, <3>3 DEF Removable
  <2> QED BY <1>9, <2>1, <2>2 DEF Removable
<1>12. CanMove(d, p, q)
  <2>1. Fits(d, p, q)
    <3>1. ASSUME NEW x \in Within(p) \ Within(q), Present(d, x) PROVE Landing(x, p, q) \in Paths
      <4>1. x \in Paths /\ ~IsPrefix(q, x)
        BY <1>1, BelowIs
      <4>2. Present(b, x)
        BY <1>8, <3>1, <4>1 DEF Present
      <4> QED BY <1>2, <3>1, <4>2 DEF Fits
    <3> QED BY <3>1 DEF Fits
  <2>2. ASSUME NEW x \in Inside(q), Present(d, x) PROVE FALSE
    <3>1. x \in Paths /\ IsPrefix(q, x)
      BY <1>1, BelowIs
    <3> QED BY <1>3, <2>2, <3>1 DEF GoneAt, Present
  <2> QED BY <1>5, <1>6, <1>11, <2>1, <2>2 DEF CanMove, Removable
<1>13. /\ Renaming(d, p, q, u).code = OkCode /\ Renaming(d, p, q, u).disk = Moved(d, p, q)
  BY <1>1, <1>7, <1>10, <1>11, <1>12, RenamingOk
<1> QED BY <1>2, <1>5, <1>13 DEF p, q

LEMMA CarryMoveIs ==
  ASSUME FileServerInv, NEW c \in Clients, CarryMove(c)
  PROVE  Kept
<1> DEFINE r == req[c]
           u == UserOf[c]
           code == Renaming(disk, r.from, r.to, u).code
           d == Renaming(disk, r.from, r.to, u).disk
           s == End(r, code)
<1>1. Sound(r, u) /\ r.at = "carry" /\ r.op = "move" /\ r.op \in Jobs /\ WellFormed(disk)
  BY InvIs DEF CarryMove, Jobs
<1>2. WellFormed(r.before) /\ r.from \in Paths /\ r.to \in Paths /\ r.to # <<>>
  BY <1>1, JobStands
<1>3. Step(c, d, s)
  BY DEF CarryMove
<1>4. WellFormed(d) /\ OnlyOwn(disk, d, u)
  BY <1>1, <1>2, RenamingIs
<1>5. /\ Sound(s, u)
      /\ s = [op |-> r.op, from |-> r.from, to |-> r.to, flag |-> r.flag,
              at |-> "done", code |-> code, before |-> r.before, copied |-> r.copied]
  BY <1>1, JobEnd
<1>6. ASSUME ~disturbed[c] PROVE Stands(s, d, u) /\ May(disk, d, u) /\ Spares(s, disk, d)
  <2>1. Emptied(r, disk)
    BY <1>1, <1>6, InvIs DEF Stands
  <2>2. disk = Without(r.before, r.to)
    BY <1>1, <1>2, <2>1, EmptiedIs
  <2>3. May(disk, d, u)
    BY <1>4 DEF May, OnlyOwn
  <2>4. CASE Crossed(r)
    <3>1. ~Apart(r.from, r.to)
      BY <1>1, <2>4, ApartJob
    <3>2. code # OkCode
      BY <1>1, <1>2, <3>1, RenamingClear DEF Apart
    <3>3. d = disk
      BY <3>2 DEF Renaming
    <3> HIDE DEF s, d, code
    <3>4. Ended(s, d)
      BY <1>5, <2>2, <2>4, <3>2, <3>3 DEF Ended, Crossed
    <3>5. Stands(s, d, u)
      BY <1>5, <3>4 DEF Stands
    <3> QED BY <2>3, <3>3, <3>5 DEF Spares
  <2>5. CASE ~Crossed(r)
    <3>1. /\ code = OkCode /\ d = Moved(disk, r.from, r.to)
          /\ IsFolder(disk, Front(r.to)) /\ Apart(r.from, r.to)
      BY <1>1, <2>1, <2>5, MoveClear
    <3>2. \A q \in Paths : ~IsPrefix(r.from, q) /\ ~IsPrefix(r.to, q) => d.tree[q] = disk.tree[q]
      BY <1>1, <1>2, <3>1, MovedIs DEF Apart
    <3>3. \A q \in Paths : IsPrefix(r.to, q) => ~IsFile(disk, q)
      BY <1>1, <2>1, KindIs DEF Emptied, GoneAt, Present
    <3> HIDE DEF s, d, code
    <3>4. Ended(s, d)
      BY <1>1, <1>5, <2>2, <2>5, <3>1 DEF Completed, Ended, Crossed
    <3>5. Stands(s, d, u)
      BY <1>5, <3>4 DEF Stands
    <3>6. Spares(s, disk, d)
      BY <1>1, <1>5, <3>2, <3>3 DEF Spares
    <3> QED BY <2>3, <3>5, <3>6
  <2> QED BY <2>4, <2>5
<1> HIDE DEF s, d
<1> QED BY <1>3, <1>4, <1>5, <1>6, StepIs DEF Rightful

-----------------------------------------------------------------------------
(* A copy, one entry after the other.                                      *)

\* Outside what is copied onto, a copy leaves the disk and its rules.
LEMMA PartwayAs ==
  ASSUME NEW r, NEW d, r.to \in Paths, Partway(r, d), NEW x \in Paths, ~IsPrefix(r.to, x), NEW u
  PROVE  SameAt(d, r.before, x) /\ Perms(d, x, u) = Perms(r.before, x, u)
<1>1. ASSUME NEW y \in Paths, IsPrefix(y, x) PROVE d.rules[y] = r.before.rules[y]
  <2>1. ~IsPrefix(r.to, y)
    BY <1>1, PrefixOrder
  <2> QED BY <2>1 DEF Partway, SameAt
<1>2. Perms(d, x, u) = Perms(r.before, x, u)
  BY <1>1, PermsSame
<1> QED BY <1>2 DEF Partway

\* There, the caller may write, all the way down.
LEMMA PartwayMay ==
  ASSUME NEW r, NEW u, Sound(r, u), r.op = "copy", NEW d, Partway(r, d)
  PROVE  /\ r.to # <<>> /\ IsFolder(d, Front(r.to))
         /\ \A q \in Paths : IsPrefix(r.to, q) => Perms(d, q, u).write
<1> DEFINE b == r.before
           to == r.to
<1>1. /\ WellFormed(b) /\ to \in Paths /\ AuthorizeNew(b, to, u) = OkCode
      /\ Present(b, to) => Removable(b, to, u)
  BY JobStands DEF Jobs
<1>2. /\ \A q \in Paths : ~IsPrefix(to, q) => SameAt(d, b, q)
      /\ \A q \in Paths : IsPrefix(to, q) => d.rules[q] = NoRules
  BY DEF Partway
<1> HIDE DEF b, to
<1>3. d.rules[to] = NoRules
  BY <1>1, <1>2, PrefixOrder
<1>4. to # <<>> /\ to # <<HomeName>> /\ IsFolder(d, Front(to)) /\ Perms(d, to, u).write
  BY <1>1, <1>2, <1>3, TargetMay
<1>5. ASSUME NEW q \in Paths, IsPrefix(to, q) PROVE Perms(d, q, u).write
  <2>1. Perms(d, q, u) = Perms(d, to, u)
    BY <1>1, <1>2, <1>4, <1>5, PermsInherit
  <2> QED BY <1>4, <2>1
<1> QED BY <1>4, <1>5 DEF to

\* A caller may see all of what preflight let them copy, and list it.
LEMMA SourceSeen ==
  ASSUME NEW r, NEW u, Sound(r, u), r.op = "copy", NEW d, WellFormed(d), Partway(r, d),
         NEW x \in Paths, IsPrefix(r.from, x), ~IsPrefix(r.to, x), IsFolder(r.before, x)
  PROVE  Perms(d, x, u).read
<1>1. /\ r.from \in Paths /\ r.to \in Paths /\ Perms(r.before, r.from, u).read
      /\ \A y \in Below(r.from) : IsFolder(r.before, y) => Perms(r.before, y, u).read
  BY JobStands DEF Jobs
<1>4. Perms(d, x, u) = Perms(r.before, x, u)
  BY <1>1, PartwayAs
<1>5. x = r.from \/ x \in Below(r.from)
  BY <1>1, BelowIs
<1> QED BY <1>1, <1>4, <1>5

LEMMA CopyReaches ==
  ASSUME NEW r, NEW u, Sound(r, u), r.op = "copy", NEW d, WellFormed(d), Partway(r, d),
         NEW x \in Paths, ~IsPrefix(r.to, x)
  PROVE  x \in Reached(d, r.from, u) <=> ToCopy(r, x)
<1> DEFINE b == r.before
           p == r.from
<1>1. p \in Paths /\ r.to \in Paths
  BY DEF Sound
<1>2. ASSUME NEW y \in Paths, IsPrefix(y, x)
      PROVE  /\ ~IsPrefix(r.to, y)
             /\ Present(d, y) <=> Present(b, y)
             /\ IsFolder(d, y) <=> IsFolder(b, y)
  <2>1. ~IsPrefix(r.to, y)
    BY <1>1, <1>2, PrefixOrder
  <2>2. SameAt(d, b, y)
    BY <1>1, <2>1, PartwayAs
  <2> QED BY <2>1, <2>2 DEF SameAt, Present, IsFolder
<1>5. IsPrefix(x, x)
  BY PrefixOrder
<1>3. x \in Reached(d, p, u) => IsPrefix(p, x) /\ Present(b, x)
  BY <1>1, <1>2, <1>5, ReachedIs
<1>4. ASSUME IsPrefix(p, x), Present(b, x) PROVE x \in Reached(d, p, u)
  <2>1. Len(p) \in Nat /\ Len(x) \in Nat /\ Len(p) <= Len(x) /\ p = Up(x, Len(p))
    BY <1>1, <1>4, PathIs, PrefixOrder
  <2>2. Present(d, x) /\ x \in Within(p)
    BY <1>1, <1>2, <1>4, <1>5, BelowIs
  <2>3. ASSUME NEW n \in (Len(p) + 1)..Len(x)
        PROVE  Up(x, n) \in VisibleEntries(d, Up(x, n - 1), u)
    <3> DEFINE y == Up(x, n)
               z == Up(x, n - 1)
    <3>1. n \in 0..Len(x) /\ n - 1 \in 0..Len(x) /\ n >= 1 /\ n > Len(p) /\ n - 1 >= Len(p)
      BY <2>1
    <3>2. y \in Paths /\ Len(y) = n /\ IsPrefix(y, x) /\ z \in Paths /\ Len(z) = n - 1 /\ IsPrefix(z, x)
      BY <3>1, UpIs, UpPrefix
    <3>3. n - 1 \in 0..Len(y)
      BY <3>1, <3>2
    <3>4. Up(y, n - 1) = z
      BY <3>2, <3>3, UpOfPrefix
    <3>5. y # <<>>
      BY <3>1, <3>2, PathIs
    <3>6. Front(y) = z /\ IsPrefix(z, y) /\ z # y
      BY <3>2, <3>4, <3>5, FrontIs
    <3>7. IsPrefix(p, z) /\ IsPrefix(p, y) /\ y # p
      BY <1>1, <1>4, <3>1, <3>2, PrefixOrder
    <3> HIDE DEF y, z
    <3>8. Present(d, y)
      BY <2>2, <3>2, WayIsFolders, KindIs
    <3>9. IsFolder(d, z)
      BY <3>2, <3>5, <3>6, <3>8, DiskIs
    <3>10. CASE IsFile(d, y)
      <4>1. Perms(d, z, u).read
        BY <1>2, <3>2, <3>7, <3>9, SourceSeen
      <4>2. EntryPerms(d, y, u) = Perms(d, z, u)
        BY <3>6, <3>10 DEF EntryPerms
      <4> QED BY <3>2, <3>5, <3>6, <3>8, <4>1, <4>2, BelowIs DEF VisibleEntries, y, z
    <3>11. CASE ~IsFile(d, y)
      <4>1. IsFolder(d, y)
        BY <3>2, <3>8, <3>11, KindIs
      <4>2. Perms(d, y, u).read
        BY <1>2, <3>2, <3>7, <4>1, SourceSeen
      <4>3. EntryPerms(d, y, u) = Perms(d, y, u)
        BY <3>11 DEF EntryPerms
      <4> QED BY <3>2, <3>5, <3>6, <3>8, <4>2, <4>3, BelowIs DEF VisibleEntries, y, z
    <3> QED BY <3>10, <3>11
  <2> QED BY <2>2, <2>3 DEF Reached
<1> QED BY <1>3, <1>4 DEF ToCopy

\* The next entry of a copy has a folder to go to, and nothing in its way.
LEMMA CopyPlace ==
  ASSUME NEW r, NEW u, Sound(r, u), r.op = "copy", NEW d, WellFormed(d), Partway(r, d),
         NEW e, ToCopy(r, e), e \notin r.copied,
         \A f \in Paths : IsPrefix(r.from, f) /\ IsPrefix(f, e) /\ f # e => f \in r.copied
  PROVE  LET l == Landing(e, r.from, r.to)
         IN  /\ l \in Paths /\ l # <<>> /\ IsPrefix(r.to, l) /\ Landing(l, r.to, r.from) = e
             /\ ~Present(d, l) /\ IsFolder(d, Front(l)) /\ Perms(d, l, u).write
             /\ d.tree[e] = r.before.tree[e]
<1> DEFINE b == r.before
           p == r.from
           q == r.to
           l == Landing(e, p, q)
<1>1. /\ WellFormed(b) /\ p \in Paths /\ q \in Paths /\ Fits(b, p, q)
      /\ e \in Paths /\ IsPrefix(p, e) /\ ~IsPrefix(q, e) /\ Present(b, e)
  BY DEF Sound, Jobs, ToCopy
<1>2. l \in Paths
  <2>1. e \in Within(p) \ Within(q)
    BY <1>1, BelowIs
  <2> QED BY <1>1, <2>1 DEF Fits
<1>3. IsPrefix(q, l) /\ Landing(l, q, p) = e /\ (l = q <=> e = p)
  BY <1>1, <1>2, LandingIs
<1>4. q # <<>> /\ IsFolder(d, Front(q)) /\ Perms(d, l, u).write
  BY <1>2, <1>3, PartwayMay
<1>6. d.tree[e] = b.tree[e]
  BY <1>1, PartwayAs DEF SameAt
<1>7. ~Present(d, l)
  BY <1>2, <1>3 DEF Partway, Present
<1>8. l # <<>>
  BY <1>1, <1>3, <1>4, PrefixOrder, DiskIs
<1>9. IsFolder(d, Front(l))
  <2>1. CASE e = p
    BY <1>3, <1>4, <2>1
  <2>2. CASE e # p
    <3>1. /\ e # <<>> /\ IsPrefix(p, Front(e)) /\ Landing(Front(e), p, q) = Front(l)
      BY <1>1, <1>2, <2>2, LandingFront
    <3>2. Front(e) \in Paths /\ IsPrefix(Front(e), e) /\ Front(e) # e
      BY <1>1, <3>1, FrontIs
    <3>3. Front(e) \in r.copied
      BY <3>1, <3>2
    <3>4. Front(l) \in Paths
      BY <1>2, <1>8, FrontIs
    <3>5. IsPrefix(q, Front(l)) /\ Landing(Front(l), q, p) = Front(e)
      <4> DEFINE g == Front(e)
      <4>1. g \in Paths /\ IsPrefix(p, g) /\ Landing(g, p, q) \in Paths
        BY <3>1, <3>2, <3>4
      <4>2. IsPrefix(q, Landing(g, p, q)) /\ Landing(Landing(g, p, q), q, p) = g
        BY <1>1, <4>1, LandingIs
      <4> QED BY <3>1, <4>2
    <3>6. d.tree[Front(l)] = b.tree[Front(e)]
      BY <3>3, <3>4, <3>5 DEF Partway
    <3>7. IsFolder(b, Front(e))
      BY <1>1, <3>1, DiskIs
    <3> QED BY <3>6, <3>7 DEF IsFolder
  <2> QED BY <2>1, <2>2
<1> QED BY <1>2, <1>3, <1>4, <1>6, <1>7, <1>8, <1>9

\* With it there, one more entry is copied.
LEMMA CopyOne ==
  ASSUME NEW r, NEW u, Sound(r, u), r.op = "copy", NEW d, WellFormed(d), Partway(r, d),
         NEW e, ToCopy(r, e), e \notin r.copied,
         \A f \in Paths : IsPrefix(r.from, f) /\ IsPrefix(f, e) /\ f # e => f \in r.copied,
         NEW s, s.from = r.from, s.to = r.to, s.before = r.before, s.copied = r.copied \union {e}
  PROVE  Partway(s, Put(d, Landing(e, r.from, r.to), d.tree[e]))
<1> DEFINE b == r.before
           p == r.from
           q == r.to
           l == Landing(e, p, q)
           n == Put(d, l, d.tree[e])
<1>1. /\ p \in Paths /\ q \in Paths /\ WellFormed(b)
      /\ e \in Paths /\ IsPrefix(p, e) /\ Present(b, e)
  BY DEF Sound, Jobs, ToCopy
<1>2. /\ l \in Paths /\ l # <<>> /\ IsPrefix(q, l) /\ Landing(l, q, p) = e
      /\ ~Present(d, l) /\ IsFolder(d, Front(l)) /\ d.tree[e] = b.tree[e]
  BY CopyPlace
<1>3. d.tree[e] \in Texts \union {Folder} /\ ~IsFolder(d, l)
  BY <1>1, <1>2, KindIs DEF Present, IsFile, IsFolder
<1>4. /\ n.rules = d.rules
      /\ \A x \in Paths : n.tree[x] = IF x = l THEN b.tree[e] ELSE d.tree[x]
  BY <1>2, <1>3, PutIs
<1> HIDE DEF n
<1>5. ASSUME NEW x \in Paths, ~IsPrefix(q, x) PROVE SameAt(n, b, x)
  <2>1. x # l
    BY <1>2, <1>5
  <2> QED BY <1>4, <1>5, <2>1 DEF Partway, SameAt
<1>6. ASSUME NEW x \in Paths, IsPrefix(q, x)
      PROVE  LET y == Landing(x, q, p)
             IN  n.rules[x] = NoRules /\ n.tree[x] = IF y \in s.copied THEN b.tree[y] ELSE Absent
  <2> DEFINE y == Landing(x, q, p)
  <2>1. n.rules[x] = NoRules
    BY <1>4, <1>6 DEF Partway
  <2>2. CASE x = l
    BY <1>2, <1>4, <2>1, <2>2
  <2>3. CASE x # l
    <3>1. y # e
      <4>1. ASSUME y = e PROVE FALSE
        <5>1. Landing(y, p, q) = x
          BY <1>1, <1>6, <4>1, LandingIs
        <5> QED BY <2>3, <4>1, <5>1
      <4> QED BY <4>1
    <3>2. n.tree[x] = IF y \in r.copied THEN b.tree[y] ELSE Absent
      BY <1>4, <1>6, <2>3 DEF Partway
    <3> QED BY <2>1, <3>1, <3>2
  <2> QED BY <2>2, <2>3
<1>7. ASSUME NEW x \in s.copied
      PROVE  /\ ToCopy(s, x)
             /\ \A f \in Paths : IsPrefix(p, f) /\ IsPrefix(f, x) => f \in s.copied
  BY <1>7 DEF Partway, ToCopy
<1> QED BY <1>5, <1>6, <1>7 DEF Partway, n

\* A file comes over if it can be read, and a folder always.
LEMMA CopyingOk ==
  ASSUME NEW d, NEW e \in Paths, NEW l \in Paths, NEW u, WellFormed(d), IsFile(d, e),
         l # <<>>, ~Present(d, l), IsFolder(d, Front(l)), Perms(d, l, u).write
  PROVE  /\ Perms(d, e, u).read => Copying(d, e, l, u).code = OkCode
         /\ Copying(d, e, l, u).code = OkCode => Copying(d, e, l, u).disk = Put(d, l, d.tree[e])
         /\ Copying(d, e, l, u).code # OkCode => Copying(d, e, l, u).disk = d
<1> DEFINE kind == IF IsFile(d, e) THEN OkCode ELSE Denied
           code == First(<<Authorize(d, e, u, "read"), kind, CheckWritableTarget(d, l, u)>>)
<1>1. Copying(d, e, l, u) = [code |-> code, disk |-> IF code = OkCode THEN Put(d, l, d.tree[e]) ELSE d]
  BY DEF Copying
<1>2. Front(l) \in Paths
  BY FrontIs
<1>3. AuthorizeNew(d, l, u) = OkCode
  BY <1>2, AuthorizeNewIs, KindIs
<1>4. ~IsFolder(d, l) /\ ~IsFile(d, l)
  BY KindIs
<1>5. CheckWritableTarget(d, l, u) = OkCode
  BY <1>3, <1>4, CheckWritableTargetIs
<1>6. kind = OkCode
  OBVIOUS
<1> HIDE DEF kind
<1>7. Perms(d, e, u).read => Authorize(d, e, u, "read") = OkCode
  BY KindIs, AuthorizeIs
<1>8. Authorize(d, e, u, "read") = OkCode => code = OkCode
  BY <1>5, <1>6, FirstOk
<1> HIDE DEF code
<1> QED BY <1>1, <1>7, <1>8

LEMMA MakingOk ==
  ASSUME NEW d, NEW l \in Paths, NEW u, WellFormed(d),
         l # <<>>, ~Present(d, l), IsFolder(d, Front(l)), Perms(d, l, u).write
  PROVE  Making(d, l, u).code = OkCode /\ Making(d, l, u).disk = Put(d, l, Folder)
<1> DEFINE there == IF Present(d, l) THEN Exists ELSE OkCode
           code == First(<<AuthorizeNew(d, l, u), there>>)
<1>1. Making(d, l, u) = [code |-> code, disk |-> IF code = OkCode THEN Put(d, l, Folder) ELSE d]
  BY DEF Making
<1>2. Front(l) \in Paths
  BY FrontIs
<1>3. AuthorizeNew(d, l, u) = OkCode
  BY <1>2, AuthorizeNewIs, KindIs
<1>4. there = OkCode
  OBVIOUS
<1> HIDE DEF there
<1>5. code = OkCode
  BY <1>3, <1>4, FirstOk
<1> HIDE DEF code
<1> QED BY <1>1, <1>5

\* A file is read by its folder's rules, but for a stray one.
LEMMA SourceRead ==
  ASSUME NEW r, NEW u, Sound(r, u), r.op = "copy", NEW d, WellFormed(d), Partway(r, d),
         NEW e, ToCopy(r, e), IsFile(r.before, e), ~WithStray(r)
  PROVE  Perms(d, e, u).read
<1> DEFINE b == r.before
           p == r.from
<1>1. /\ p \in Paths /\ r.to \in Paths /\ WellFormed(b) /\ Perms(b, p, u).read
      /\ e \in Paths /\ IsPrefix(p, e) /\ ~IsPrefix(r.to, e)
  BY JobStands DEF Jobs, ToCopy
<1>2. SameAt(d, b, e) /\ Perms(d, e, u) = Perms(b, e, u)
  BY <1>1, PartwayAs
<1>3. CASE e = p
  BY <1>1, <1>2, <1>3
<1>4. CASE e # p
  <2>1. e # <<>>
    BY <1>1, <1>4, PrefixOrder, DiskIs
  <2>2. /\ Front(e) \in Paths /\ IsPrefix(Front(e), e) /\ Front(e) # e /\ IsPrefix(p, Front(e))
        /\ Len(Front(e)) = Len(e) - 1
    BY <1>1, <1>4, <2>1, FrontIs
  <2>3. IsFolder(b, Front(e)) /\ ~IsPrefix(r.to, Front(e))
    BY <1>1, <2>1, <2>2, DiskIs, KindIs, PrefixOrder
  <2>4. Perms(d, Front(e), u).read
    BY <1>1, <2>2, <2>3, SourceSeen
  <2>5. d.rules[e] = NoRules
    BY <1>1, <1>2, DiskIs, KindIs DEF SameAt
  <2>6. e \in Below(p)
    BY <1>1, <1>4, BelowIs
  <2>7. Front(e) # <<HomeName>> /\ e # <<HomeName>> /\ e # <<DesktopsName>>
    BY <2>6 DEF WithStray, Stray
  <2>8. CASE Front(e) = <<>>
    <3>1. Len(e) = 1
      BY <1>1, <2>2, <2>8, PathIs
    <3>2. e = <<e[1]>>
      BY <1>1, <3>1, PathIs, SeqEqual
    <3>3. e[1] # DesktopsName
      BY <2>7, <3>2
    <3> QED BY <1>1, <2>1, <2>4, <2>5, <2>7, <2>8, <3>3, PermsOfTop
  <2>9. CASE Front(e) # <<>>
    <3>1. \A x \in Paths : IsPrefix(Front(e), x) /\ x # Front(e) /\ IsPrefix(x, e) => d.rules[x] = NoRules
      BY <1>1, <2>1, <2>2, <2>5, FrontIs, PrefixOrder
    <3>2. Perms(d, e, u) = Perms(d, Front(e), u)
      BY <1>1, <2>2, <2>7, <2>9, <3>1, PermsInherit
    <3> QED BY <2>4, <3>2
  <2> QED BY <2>8, <2>9
<1> QED BY <1>3, <1>4

\* A copy of all there was is the copy that was asked for.
LEMMA CopyWhole ==
  ASSUME NEW r, NEW u, Sound(r, u), r.op = "copy", NEW d, WellFormed(d), Partway(r, d),
         \A e : ToCopy(r, e) => e \in r.copied
  PROVE  d = Copied(Without(r.before, r.to), r.from, r.to)
<1> DEFINE b == r.before
           p == r.from
           q == r.to
           w == Without(b, q)
           k == Copied(w, p, q)
           s(x) == Landing(x, q, p)
<1>1. p \in Paths /\ q \in Paths /\ WellFormed(b) /\ q # <<>>
  BY JobStands DEF Jobs
<1>2. /\ \A x \in Paths : ~IsPrefix(q, x) => SameAt(w, b, x)
      /\ \A x \in Paths : IsPrefix(q, x) => w.tree[x] = Absent
  BY <1>1, WithoutIs DEF SameAt
<1> HIDE DEF w
<1>3. /\ k = [tree |-> k.tree, rules |-> k.rules]
      /\ k.tree = [x \in Paths |-> IF ~IsPrefix(q, x) THEN w.tree[x]
                                   ELSE IF s(x) \in Paths THEN w.tree[s(x)] ELSE Absent]
      /\ k.rules = [x \in Paths |-> IF IsPrefix(q, x) THEN NoRules ELSE w.rules[x]]
  BY DEF Copied
<1> HIDE DEF k
<1>4. ASSUME NEW x \in Paths PROVE d.tree[x] = k.tree[x] /\ d.rules[x] = k.rules[x]
  <2>1. CASE ~IsPrefix(q, x)
    BY <1>2, <1>3, <2>1 DEF Partway, SameAt
  <2>2. CASE IsPrefix(q, x)
    <3> DEFINE y == s(x)
    <3>1. d.rules[x] = NoRules /\ d.tree[x] = IF y \in r.copied THEN b.tree[y] ELSE Absent
      BY <2>2 DEF Partway
    <3>2. k.rules[x] = NoRules /\ k.tree[x] = IF y \in Paths THEN w.tree[y] ELSE Absent
      BY <1>3, <2>2
    <3>3. y \in r.copied => y \in Paths /\ ~IsPrefix(q, y)
      BY DEF Partway, ToCopy
    <3>4. y \in Paths => IsPrefix(p, y)
      BY <1>1, <2>2, LandingIs
    <3> HIDE DEF y, s
    <3>5. y \in Paths /\ ~IsPrefix(q, y) => w.tree[y] = b.tree[y]
      BY <1>2 DEF SameAt
    <3>6. y \in Paths /\ ~IsPrefix(q, y) /\ y \notin r.copied => b.tree[y] = Absent
      BY <3>4 DEF ToCopy, Present
    <3>7. y \in Paths /\ IsPrefix(q, y) => w.tree[y] = Absent
      BY <1>2
    <3> QED BY <3>1, <3>2, <3>3, <3>5, <3>6, <3>7
  <2> QED BY <2>1, <2>2
<1>5. d \in DiskSet
  BY DiskIs
<1>6. d.tree = k.tree /\ d.rules = k.rules
  <2>1. d.tree = [x \in Paths |-> d.tree[x]] /\ d.rules = [x \in Paths |-> d.rules[x]]
    BY <1>5 DEF DiskSet
  <2>2. k.tree = [x \in Paths |-> k.tree[x]] /\ k.rules = [x \in Paths |-> k.rules[x]]
    BY <1>3
  <2> QED BY <1>4, <2>1, <2>2
<1>7. d = [tree |-> d.tree, rules |-> d.rules]
  BY <1>5 DEF DiskSet
<1>8. d = k
  BY <1>3, <1>6, <1>7
<1> QED BY <1>8 DEF k, w

\* Onto a folder around it, nothing is left to copy.
LEMMA CopyCrossed ==
  ASSUME NEW r, r.from \in Paths, r.to \in Paths, IsPrefix(r.to, r.from), NEW d, Partway(r, d)
  PROVE  r.copied = {} /\ Emptied(r, d)
<1>1. ASSUME NEW e \in r.copied PROVE FALSE
  <2>1. e \in Paths /\ IsPrefix(r.from, e) /\ ~IsPrefix(r.to, e)
    BY DEF Partway, ToCopy
  <2> QED BY <2>1, PrefixOrder
<1>2. r.copied = {}
  BY <1>1
<1> QED BY <1>2 DEF Partway, Emptied, GoneAt

\* What one entry comes to.
Landed(d, e, l, u) ==
  LET made == Making(d, l, u)
  IN  IF IsFile(d, e) THEN Copying(d, e, l, u)
      ELSE IF made.code = Exists THEN [made EXCEPT !.code = OkCode]
      ELSE made

LEMMA LandedIs ==
  ASSUME NEW d, WellFormed(d), NEW e \in Paths, NEW l \in Paths, NEW u
  PROVE  WellFormed(Landed(d, e, l, u).disk) /\ OnlyOwn(d, Landed(d, e, l, u).disk, u)
<1> DEFINE made == Making(d, l, u)
<1>1. [made EXCEPT !.code = OkCode].disk = made.disk
  BY DEF Making
<1>2. Landed(d, e, l, u).disk = Copying(d, e, l, u).disk \/ Landed(d, e, l, u).disk = made.disk
  BY <1>1 DEF Landed
<1> HIDE DEF made
<1> QED BY <1>2, CopyingIs, MakingIs DEF made

LEMMA CopyEntryIs ==
  ASSUME FileServerInv, NEW c \in Clients, NEW r, r = req[c], r.at = "carry", r.op = "copy", NEW u, u = UserOf[c],
         NEW e \in Reached(disk, r.from, u), e \notin r.copied,
         ~(IsPrefix(r.from, r.to) /\ IsPrefix(r.to, e)), Landing(e, r.from, r.to) \in Paths,
         \A f \in Reached(disk, r.from, u) : IsStrictPrefix(f, e) => f \in r.copied,
         NEW land, land = Landed(disk, e, Landing(e, r.from, r.to), u),
         Step(c, land.disk, IF land.code = OkCode THEN [r EXCEPT !.copied = @ \union {e}]
                            ELSE End(r, land.code))
  PROVE  Kept
<1> DEFINE b == r.before
           p == r.from
           q == r.to
           l == Landing(e, p, q)
           code == land.code
           d == land.disk
           s == IF code = OkCode THEN [r EXCEPT !.copied = @ \union {e}] ELSE End(r, code)
<1>1. /\ Sound(r, u) /\ r.op \in Jobs /\ WellFormed(disk) /\ p \in Paths /\ q \in Paths /\ l \in Paths
  BY InvIs DEF Sound, Jobs
<1>2. e \in Paths /\ IsPrefix(p, e) /\ Present(disk, e)
  BY <1>1, ReachedIs
<1>3. WellFormed(d) /\ OnlyOwn(disk, d, u)
  BY <1>1, <1>2, LandedIs
<1>4. /\ code = OkCode => s = [op |-> r.op, from |-> r.from, to |-> r.to, flag |-> r.flag,
                              at |-> "carry", code |-> r.code, before |-> r.before,
                              copied |-> r.copied \union {e}]
      /\ code # OkCode => s = [op |-> r.op, from |-> r.from, to |-> r.to, flag |-> r.flag,
                               at |-> "done", code |-> code, before |-> r.before, copied |-> r.copied]
  <2>1. r = [op |-> r.op, from |-> r.from, to |-> r.to, flag |-> r.flag,
             at |-> r.at, code |-> r.code, before |-> r.before, copied |-> r.copied]
    BY <1>1 DEF Sound
  <2> DEFINE more == r.copied \union {e}
             k == [r EXCEPT !.copied = @ \union {e}]
  <2>2. k = [r EXCEPT !.copied = more]
    OBVIOUS
  <2> HIDE DEF more
  <2>3. k = [op |-> r.op, from |-> r.from, to |-> r.to, flag |-> r.flag,
             at |-> "carry", code |-> r.code, before |-> r.before, copied |-> more]
    BY <2>1, <2>2
  <2> HIDE DEF k, code
  <2>4. code = OkCode => s = k
    BY DEF k
  <2>5. code # OkCode => s = End(r, code)
    OBVIOUS
  <2> HIDE DEF s
  <2> QED BY <1>1, <2>3, <2>4, <2>5, JobEnd DEF more
<1>5. Sound(s, u)
  <2> HIDE DEF s, code
  <2>1. CASE code = OkCode
    BY <1>1, <1>4, <2>1, SameJob
  <2>2. CASE code # OkCode
    BY <1>1, <1>4, <2>2, SameJob
  <2> QED BY <2>1, <2>2
<1>6. ASSUME ~disturbed[c] PROVE Stands(s, d, u) /\ May(disk, d, u) /\ Spares(s, disk, d)
  <2>1. Partway(r, disk)
    BY <1>6, InvIs DEF Stands
  <2>10. ~IsPrefix(q, e)
    <3>1. ASSUME IsPrefix(q, e) PROVE FALSE
      <4>1. Len(p) \in Nat /\ Len(q) \in Nat
        BY <1>1, PathIs
      <4>2. Len(p) <= Len(q) \/ Len(q) <= Len(p)
        BY <4>1
      <4>3. IsPrefix(q, p)
        BY <1>1, <1>2, <3>1, <4>2, PrefixOrder
      <4>4. GoneAt(disk, e)
        BY <1>1, <1>2, <2>1, <3>1, <4>3, CopyCrossed DEF Emptied
      <4> QED BY <1>2, <4>4 DEF GoneAt, Present
    <3> QED BY <3>1
  <2>2. ToCopy(r, e) /\ Present(b, e)
    BY <1>1, <1>2, <2>1, <2>10, CopyReaches DEF ToCopy
  <2>3. ASSUME NEW f \in Paths, IsPrefix(p, f), IsPrefix(f, e), f # e PROVE f \in r.copied
    <3>1. WellFormed(b) /\ ~IsPrefix(q, f)
      BY <1>1, <1>2, <2>3, <2>10, PrefixOrder DEF Sound
    <3>2. Present(b, f)
      BY <1>2, <2>2, <2>3, <3>1, WayIsFolders, KindIs
    <3>3. f \in Reached(disk, p, u)
      BY <1>1, <2>1, <2>3, <3>1, <3>2, CopyReaches DEF ToCopy
    <3>4. IsStrictPrefix(f, e)
      BY <2>3 DEF IsStrictPrefix
    <3> QED BY <3>3, <3>4
  <2>4. /\ l # <<>> /\ IsPrefix(q, l) /\ ~Present(disk, l) /\ IsFolder(disk, Front(l))
        /\ Perms(disk, l, u).write /\ disk.tree[e] = b.tree[e]
    BY <1>1, <1>2, <2>1, <2>2, <2>3, CopyPlace
  <2>5. /\ code = OkCode => d = Put(disk, l, disk.tree[e])
        /\ code # OkCode => d = disk
        /\ code # OkCode => WithStray(r)
    <3>1. CASE IsFile(disk, e)
      <4>1. land = Copying(disk, e, l, u)
        BY <3>1 DEF Landed
      <4>2. ~WithStray(r) => Perms(disk, e, u).read
        <5>1. IsFile(b, e)
          BY <2>4, <3>1 DEF IsFile
        <5> QED BY <1>1, <2>1, <2>2, <5>1, SourceRead
      <4> QED BY <1>1, <1>2, <2>4, <3>1, <4>1, <4>2, CopyingOk
    <3>2. CASE ~IsFile(disk, e)
      <4>1. Making(disk, l, u).code = OkCode /\ Making(disk, l, u).disk = Put(disk, l, Folder)
        BY <1>1, <2>4, MakingOk
      <4>2. land = Making(disk, l, u)
        BY <3>2, <4>1 DEF Landed, Exists, OkCode
      <4>3. disk.tree[e] = Folder
        BY <1>1, <1>2, <2>2, <2>4, <3>2, KindIs DEF Present, IsFolder
      <4> QED BY <4>1, <4>2, <4>3
    <3> QED BY <3>1, <3>2
  <2>6. May(disk, d, u)
    BY <1>3 DEF May, OnlyOwn
  <2>7. Spares(s, disk, d)
    <3>1. disk.tree[e] \in Texts \union {Folder} /\ ~IsFolder(disk, l) /\ ~IsFile(disk, l)
      BY <1>1, <1>2, <2>2, <2>4, KindIs DEF Present, IsFile, IsFolder
    <3>2. \A x \in Paths : Put(disk, l, disk.tree[e]).tree[x] = IF x = l THEN disk.tree[e] ELSE disk.tree[x]
      BY <1>1, <2>4, <3>1, PutIs
    <3> HIDE DEF l, s, d, code
    <3> QED BY <2>5, <3>1, <3>2 DEF Spares
  <2>8. CASE code = OkCode
    <3>1. d = Put(disk, l, disk.tree[e])
      BY <2>5, <2>8
    <3>2. /\ s.from = p /\ s.to = q /\ s.before = b /\ s.copied = r.copied \union {e}
          /\ s.at = "carry" /\ s.op = "copy"
      BY <1>4, <2>8
    <3> HIDE DEF s, d, code
    <3>3. Partway(s, Put(disk, Landing(e, p, q), disk.tree[e]))
      BY <1>1, <1>2, <2>1, <2>2, <2>3, <3>2, CopyOne
    <3>4. Stands(s, d, u)
      BY <3>1, <3>2, <3>3 DEF Stands
    <3> QED BY <2>6, <2>7, <3>4
  <2>9. CASE code # OkCode
    <3>1. WithStray(r)
      BY <2>5, <2>9
    <3>2. s.from = p /\ s.before = b /\ s.at = "done" /\ s.op = "copy"
      BY <1>4, <2>9
    <3> HIDE DEF s, d, code
    <3>3. WithStray(s)
      BY <3>1, <3>2 DEF WithStray
    <3>4. Stands(s, d, u)
      BY <3>2, <3>3 DEF Stands
    <3> QED BY <2>6, <2>7, <3>4
  <2> QED BY <2>8, <2>9
<1>7. Step(c, d, s)
  OBVIOUS
<1> HIDE DEF s, d
<1> QED BY <1>3, <1>5, <1>6, <1>7, StepIs DEF Rightful

LEMMA CopyEndIs ==
  ASSUME FileServerInv, NEW c \in Clients, NEW r, r = req[c], r.at = "carry", r.op = "copy", NEW u, u = UserOf[c],
         \A e \in Reached(disk, r.from, u) :
            /\ ~(IsPrefix(r.from, r.to) /\ IsPrefix(r.to, e))
            /\ Landing(e, r.from, r.to) \in Paths
            => e \in r.copied,
         Step(c, disk, End(r, IF r.copied = {} THEN NotFound ELSE OkCode))
  PROVE  Kept
<1> DEFINE b == r.before
           p == r.from
           code == IF r.copied = {} THEN NotFound ELSE OkCode
           s == End(r, code)
<1>1. /\ Sound(r, u) /\ r.op \in Jobs /\ WellFormed(disk) /\ p \in Paths /\ r.to \in Paths
      /\ Fits(b, p, r.to) /\ Present(b, p) /\ WellFormed(b) /\ r.to # <<>>
  BY InvIs, JobStands DEF Sound, Jobs
<1>2. /\ Sound(s, u)
      /\ s = [op |-> r.op, from |-> r.from, to |-> r.to, flag |-> r.flag,
              at |-> "done", code |-> code, before |-> r.before, copied |-> r.copied]
  BY <1>1, JobEnd
<1>3. ASSUME ~disturbed[c] PROVE Stands(s, disk, u)
  <2>1. Partway(r, disk)
    BY <1>3, InvIs DEF Stands
  <2>2. ASSUME NEW e, ToCopy(r, e) PROVE e \in r.copied
    <3>1. e \in Reached(disk, p, u)
      BY <1>1, <2>1, <2>2, CopyReaches DEF ToCopy
    <3>2. e \in Within(p) \ Within(r.to) /\ Present(b, e) /\ ~IsPrefix(r.to, e)
      BY <1>1, <2>2, BelowIs DEF ToCopy
    <3>3. Landing(e, p, r.to) \in Paths
      BY <1>1, <3>2 DEF Fits
    <3> QED BY <3>1, <3>2, <3>3
  <2>3. CASE Crossed(r)
    <3>1. r.copied = {} /\ Emptied(r, disk)
      BY <1>1, <2>1, <2>3, ApartJob, CopyCrossed
    <3>2. disk = Without(b, r.to)
      BY <1>1, <3>1, EmptiedIs
    <3>3. code # OkCode
      BY <3>1 DEF NotFound, OkCode
    <3> HIDE DEF s, code
    <3>4. Ended(s, disk)
      BY <1>2, <2>3, <3>2, <3>3 DEF Ended, Crossed
    <3> QED BY <1>2, <3>4 DEF Stands
  <2>4. CASE ~Crossed(r)
    <3>1. ToCopy(r, p)
      BY <1>1, <2>4, ApartJob, PrefixOrder DEF ToCopy
    <3>2. code = OkCode
      BY <2>2, <3>1
    <3>3. disk = Copied(Without(b, r.to), p, r.to)
      BY <1>1, <2>1, <2>2, CopyWhole
    <3> HIDE DEF s, code
    <3>4. Ended(s, disk)
      BY <1>2, <2>4, <3>2, <3>3 DEF Completed, Ended, Crossed
    <3> QED BY <1>2, <3>4 DEF Stands
  <2> QED BY <2>3, <2>4
<1> HIDE DEF s
<1> QED BY <1>2, <1>3, IdleStep DEF s

LEMMA CarryCopyIs ==
  ASSUME FileServerInv, NEW c \in Clients, CarryCopy(c)
  PROVE  Kept
<1> DEFINE r == req[c]
           u == UserOf[c]
           left == {e \in Reached(disk, r.from, u) \ r.copied :
                      /\ ~(IsPrefix(r.from, r.to) /\ IsPrefix(r.to, e))
                      /\ Landing(e, r.from, r.to) \in Paths}
<1>1. r.at = "carry" /\ r.op = "copy"
  BY DEF CarryCopy
<1>2. CASE left = {}
  <2>1. Step(c, disk, End(r, IF r.copied = {} THEN NotFound ELSE OkCode))
    BY <1>2 DEF CarryCopy
  <2> QED BY <1>1, <1>2, <2>1, CopyEndIs
<1>3. CASE left # {}
  <2>1. PICK e \in left :
          /\ \A f \in Reached(disk, r.from, u) : IsStrictPrefix(f, e) => f \in r.copied
          /\ LET land == Landed(disk, e, Landing(e, r.from, r.to), u)
             IN  Step(c, land.disk, IF land.code = OkCode THEN [r EXCEPT !.copied = @ \union {e}]
                                    ELSE End(r, land.code))
    BY <1>3 DEF CarryCopy, Landed
  <2> QED BY <1>1, <2>1, CopyEntryIs
<1> QED BY <1>2, <1>3

-----------------------------------------------------------------------------
(* The theorems.                                                           *)

LEMMA InitIs == Init => FileServerInv
<1> SUFFICES ASSUME Init PROVE FileServerInv
  OBVIOUS
<1>1. by \in Clients /\ WellFormed(disk) /\ disturbed \in [Clients -> BOOLEAN]
  BY ServerAssumption DEF Init
<1>2. ASSUME NEW c \in Clients, NEW u PROVE Sound(req[c], u) /\ Stands(req[c], disk, u)
  <2>1. req[c] = Idle
    BY DEF Init
  <2>2. Sound(Idle, u) /\ Stands(Idle, disk, u)
    BY JailAssumption DEF Idle, Sound, Stands, Jobs
  <2> QED BY <2>1, <2>2
<1>3. req = [c \in Clients |-> req[c]]
  BY DEF Init
<1> QED BY <1>1, <1>2, <1>3 DEF FileServerInv

LEMMA NextIs == ASSUME FileServerInv, Next PROVE Kept
  BY AskIs, ActWriteIs, ActCreateDirIs, ActRemoveIs, MakeFoldersIs, StoreUploadIs, PutBodyIs,
     ClearEntryIs, CarryMoveIs, CarryCopyIs DEF Next

LEMMA StutterIs == ASSUME FileServerInv, UNCHANGED vars PROVE FileServerInv'
  BY DEF FileServerInv, vars

\* Files and requests are always in one of the states below (FileServerInv).
THEOREM FileServerInvariant == Spec => []FileServerInv
<1>1. FileServerInv /\ [Next]_vars => FileServerInv'
  BY NextIs, StutterIs DEF Kept
<1> QED BY InitIs, <1>1, PTL DEF Spec

\* A DELETE, MOVE or COPY let start, and left alone by other requests, does the
\* whole of what it was asked (dav.rs:22): no check of one entry stops it halfway.
\* Not so a COPY with a stray file in it, nor one whose source and destination
\* cross, which is refused when its destination is cleared, and nothing else.
THEOREM StartedAlwaysCompletes == Spec => []StartedCompletes
<1>1. FileServerInv => StartedCompletes
  BY DEF FileServerInv, StartedCompletes, Stands, WithStray, Ended
<1> QED BY FileServerInvariant, <1>1, PTL

\* A request no other came between changes only what its caller may write by the
\* rules of that moment, but for making the caller's own home (access.rs:34).
THEOREM ChangesByRights == Spec => OnlyWritable
<1>1. FileServerInv /\ [Next]_vars => [ByRights]_vars
  BY NextIs DEF Kept
<1> QED BY FileServerInvariant, <1>1, PTL DEF Spec, OnlyWritable

\* A request for something new, left alone by other requests, leaves every file
\* outside its source as it was (fs_api.rs:213).
THEOREM NewKeeps == Spec => NewKeepsFiles
<1>1. FileServerInv /\ [Next]_vars => [FilesKept]_vars
  BY NextIs DEF Kept
<1> QED BY FileServerInvariant, <1>1, PTL DEF Spec, NewKeepsFiles

-----------------------------------------------------------------------------
(* What is hidden is as if it were missing.                                *)

\* Outside p all is as with p gone, every answer's code among it.
LEMMA GoneOutside ==
  ASSUME NEW d, WellFormed(d), NEW p \in Paths, p # <<>>, NEW y \in Paths, ~IsPrefix(p, y), NEW u
  PROVE  LET gone == Without(d, p)
         IN  /\ d.tree[y] = gone.tree[y] /\ Perms(d, y, u) = Perms(gone, y, u)
             /\ \A need : Authorize(d, y, u, need) = Authorize(gone, y, u, need)
<1> DEFINE gone == Without(d, p)
<1>1. ASSUME NEW x \in Paths, IsPrefix(x, y) PROVE d.tree[x] = gone.tree[x] /\ d.rules[x] = gone.rules[x]
  <2>1. ~IsPrefix(p, x)
    BY <1>1, PrefixOrder
  <2> QED BY <2>1, WithoutIs
<1> HIDE DEF gone
<1>2. d.tree[y] = gone.tree[y]
  BY <1>1, PrefixOrder
<1>3. Perms(d, y, u) = Perms(gone, y, u)
  BY <1>1, PermsSame
<1>4. Resolve(d, y) = Resolve(gone, y)
  <2>1. \A n \in 1..(Len(y) - 1) : Up(y, n) \in Paths /\ IsPrefix(Up(y, n), y)
    <3>1. Len(y) \in Nat
      BY PathIs
    <3>2. \A n \in 1..(Len(y) - 1) : n \in 0..Len(y)
      BY <3>1
    <3> QED BY <3>2, UpIs, UpPrefix
  <2>2. \A n \in 1..(Len(y) - 1) : IsFile(d, Up(y, n)) <=> IsFile(gone, Up(y, n))
    BY <1>1, <2>1 DEF IsFile
  <2>3. Present(d, y) <=> Present(gone, y)
    BY <1>2 DEF Present
  <2> QED BY <2>2, <2>3 DEF Resolve
<1>5. \A need : Authorize(d, y, u, need) = Authorize(gone, y, u, need)
  BY <1>3, <1>4 DEF Authorize
<1> QED BY <1>2, <1>3, <1>5 DEF gone

\* Of a path that answers "not found" nothing is shown.
LEMMA UnreadShows ==
  ASSUME NEW d, NEW q \in Paths, NEW u, Authorize(d, q, u, "read") = NotFound
  PROVE  Shown(d, q, u) = <<[code |-> NotFound, entries |-> {}],
                            [code |-> NotFound, text |-> Absent, writable |-> FALSE],
                            Nothing, [code |-> NotFound, hits |-> {}],
                            [code |-> NotFound, folder |-> FALSE], NotFound>>
<1> DEFINE folder == IF IsFolder(d, q) THEN OkCode ELSE NotADirectory
           notFolder == IF IsFolder(d, q) THEN NotADirectory ELSE OkCode
           file == IF IsFile(d, q) THEN OkCode ELSE NotFound
<1>1. NotFound # OkCode
  BY DEF NotFound, OkCode
<1>2. \A k : First(<<NotFound, k>>) = NotFound
  BY <1>1, FirstIs
<1>3. ListDir(d, q, u) = [code |-> NotFound, entries |-> {}]
  <2>1. First(<<Authorize(d, q, u, "read"), folder>>) = NotFound
    BY <1>2
  <2> QED BY <1>1, <2>1 DEF ListDir
<1>4. ReadFile(d, q, u) = [code |-> NotFound, text |-> Absent, writable |-> FALSE]
  <2>1. First(<<Authorize(d, q, u, "read"), notFolder>>) = NotFound
    BY <1>2
  <2> QED BY <1>1, <2>1 DEF ReadFile
<1>5. AccessOf(d, q, u) = Nothing
  BY <1>1 DEF AccessOf
<1>6. Search(d, q, u) = [code |-> NotFound, hits |-> {}]
  BY <1>1 DEF Search
<1>7. Locate(d, q, u) = [code |-> NotFound, folder |-> FALSE]
  BY <1>1 DEF Locate
<1>8. ImageInfo(d, q, u) = NotFound
  <2>1. First(<<Authorize(d, q, u, "read"), file>>) = NotFound
    BY <1>2
  <2> QED BY <2>1 DEF ImageInfo
<1> QED BY <1>3, <1>4, <1>5, <1>6, <1>7, <1>8 DEF Shown

LEMMA HiddenInside ==
  ASSUME NEW d, WellFormed(d), NEW p \in Paths, p # <<>>, IsFolder(d, p), NEW u,
         \A q \in Within(p) : ~Perms(d, q, u).read, NEW q \in Paths, IsPrefix(p, q)
  PROVE  Shown(d, q, u) = Shown(Without(d, p), q, u)
<1> DEFINE gone == Without(d, p)
           need == "read"
<1>1. ~Perms(d, q, u).read
  BY BelowIs
<1>2. Authorize(d, q, u, need) = NotFound
  <2>1. Check(Perms(d, q, u), need) = NotFound
    BY <1>1 DEF Check
  <2> QED BY <2>1, FirstIs DEF Authorize, NotFound, OkCode
<1>3. Authorize(gone, q, u, need) = NotFound
  <2>1. Check(Perms(gone, q, u), need) = NotFound \/ Check(Perms(gone, q, u), need) = OkCode
    BY DEF Check
  <2>2. Resolve(gone, q) = NotFound
    <3>1. ~Present(gone, q)
      BY WithoutIs DEF Present
    <3>2. ASSUME NEW n \in 1..(Len(q) - 1) PROVE ~IsFile(gone, Up(q, n))
      <4>1. Len(q) \in Nat
        BY PathIs
      <4>2. n \in 0..Len(q) /\ n # Len(q)
        BY <4>1
      <4>3. Up(q, n) \in Paths /\ IsPrefix(Up(q, n), q) /\ Up(q, n) # q
        BY <4>2, UpIs, UpPrefix
      <4>4. CASE IsPrefix(p, Up(q, n))
        <5>1. gone.tree[Up(q, n)] = Absent
          BY <4>3, <4>4, WithoutIs
        <5> QED BY <5>1, JailAssumption DEF IsFile
      <4>5. CASE ~IsPrefix(p, Up(q, n))
        <5>1. IsPrefix(Up(q, n), p)
          <6>1. Len(p) \in Nat /\ Len(Up(q, n)) \in Nat
            BY <4>3, PathIs
          <6>2. Len(p) <= Len(Up(q, n)) \/ Len(Up(q, n)) <= Len(p)
            BY <6>1
          <6> QED BY <4>3, <4>5, <6>2, PrefixOrder
        <5>2. Up(q, n) # p
          BY <4>5, PrefixOrder
        <5>3. IsFolder(d, Up(q, n))
          BY <4>3, <5>1, <5>2, WayIsFolders, KindIs
        <5>4. gone.tree[Up(q, n)] = Folder
          BY <4>3, <4>5, <5>3, WithoutIs DEF IsFolder
        <5> QED BY <5>4, JailAssumption DEF IsFile
      <4> QED BY <4>4, <4>5
    <3> QED BY <3>1, <3>2 DEF Resolve
  <2> HIDE DEF gone
  <2> QED BY <2>1, <2>2, FirstIs DEF Authorize, NotFound, OkCode
<1> QED BY <1>2, <1>3, UnreadShows

LEMMA HiddenAbove ==
  ASSUME NEW d, WellFormed(d), NEW p \in Paths, p # <<>>, IsFolder(d, p), NEW u,
         \A q \in Within(p) : ~Perms(d, q, u).read, NEW q \in Paths, IsPrefix(q, p), q # p
  PROVE  Shown(d, q, u) = Shown(Without(d, p), q, u)
<1> DEFINE gone == Without(d, p)
<1>1. ~Perms(d, p, u).read /\ IsFolder(d, q)
  BY BelowIs, WayIsFolders, KindIs, PrefixOrder
<1>2. ~IsPrefix(p, q)
  BY PrefixOrder
<1>3. ASSUME NEW y \in Paths, ~IsPrefix(p, y)
      PROVE  /\ d.tree[y] = gone.tree[y] /\ Perms(d, y, u) = Perms(gone, y, u)
             /\ \A need : Authorize(d, y, u, need) = Authorize(gone, y, u, need)
  BY <1>3, GoneOutside
<1>4. ASSUME NEW y \in Paths, IsPrefix(p, y) PROVE ~Present(gone, y) /\ ~IsFile(gone, y)
  <2>1. gone.tree[y] = Absent
    BY <1>4, WithoutIs
  <2> QED BY <2>1, JailAssumption DEF Present, IsFile
<1> HIDE DEF gone
<1>5. \A y \in Paths : ~IsPrefix(p, y) =>
          /\ IsFolder(d, y) <=> IsFolder(gone, y)
          /\ IsFile(d, y) <=> IsFile(gone, y)
          /\ Present(d, y) <=> Present(gone, y)
  BY <1>3 DEF IsFolder, IsFile, Present
<1>6. ASSUME NEW y \in Inside(q), ~IsPrefix(p, y) PROVE EntryPerms(d, y, u) = EntryPerms(gone, y, u)
  <2>1. y \in Paths /\ Front(y) = q
    BY BelowIs
  <2> QED BY <1>2, <1>3, <1>5, <1>6, <2>1 DEF EntryPerms
<1>7. ASSUME NEW y \in Inside(q), IsPrefix(p, y)
      PROVE  ~(Present(d, y) /\ EntryPerms(d, y, u).read)
  <2>1. y \in Paths /\ y # <<>> /\ Front(y) = q
    BY BelowIs
  <2>2. y = p
    <3>1. p # y => IsPrefix(p, Front(y))
      BY <1>7, <2>1, FrontIs
    <3> QED BY <1>2, <2>1, <3>1
  <2>3. EntryPerms(d, y, u) = Perms(d, p, u)
    BY <2>2, KindIs DEF EntryPerms
  <2> QED BY <1>1, <2>3
<1>8. VisibleEntries(d, q, u) = VisibleEntries(gone, q, u)
  <2>1. \A y \in Inside(q) : y \in Paths
    BY BelowIs
  <2>2. ASSUME NEW y \in Inside(q)
        PROVE  Present(d, y) /\ EntryPerms(d, y, u).read <=> Present(gone, y) /\ EntryPerms(gone, y, u).read
    BY <1>4, <1>5, <1>6, <1>7, <2>1
  <2> QED BY <2>2 DEF VisibleEntries
<1>9. \A y \in VisibleEntries(d, q, u) :
         IsFolder(d, y) = IsFolder(gone, y) /\ EntryPerms(d, y, u) = EntryPerms(gone, y, u)
  <2>1. ASSUME NEW y \in VisibleEntries(d, q, u) PROVE y \in Inside(q) /\ y \in Paths /\ ~IsPrefix(p, y)
    <3>1. y \in Inside(q) /\ Present(d, y) /\ EntryPerms(d, y, u).read
      BY DEF VisibleEntries
    <3> QED BY <1>7, <3>1, BelowIs
  <2>2. ASSUME NEW y \in VisibleEntries(d, q, u) PROVE IsFolder(d, y) <=> IsFolder(gone, y)
    BY <1>5, <2>1
  <2> QED BY <1>6, <2>1, <2>2 DEF IsFolder
<1>10. \A need : Authorize(d, q, u, need) = Authorize(gone, q, u, need)
  BY <1>2, <1>3
<1>11. IsFolder(gone, q) /\ ~IsFile(gone, q) /\ ~IsFile(d, q) /\ Perms(d, q, u) = Perms(gone, q, u)
  BY <1>1, <1>2, <1>3, <1>5, KindIs
<1>12. ListDir(d, q, u) = ListDir(gone, q, u)
  <2> DEFINE Told(e, x) == [path |-> x, folder |-> IsFolder(e, x), writable |-> EntryPerms(e, x, u).write]
             Kind(e) == IF IsFolder(e, q) THEN OkCode ELSE NotADirectory
             Code(e) == First(<<Authorize(e, q, u, "read"), Kind(e)>>)
  <2>1. \A x \in VisibleEntries(d, q, u) : Told(d, x) = Told(gone, x)
    BY <1>9
  <2>2. Kind(d) = Kind(gone)
    BY <1>1, <1>11
  <2>3. Code(d) = Code(gone)
    <3>1. Authorize(d, q, u, "read") = Authorize(gone, q, u, "read")
      BY <1>10
    <3> HIDE DEF Kind
    <3> QED BY <2>2, <3>1
  <2>4. \A e : ListDir(e, q, u) =
          [code |-> Code(e),
           entries |-> IF Code(e) # OkCode THEN {} ELSE {Told(e, x) : x \in VisibleEntries(e, q, u)}]
    BY DEF ListDir
  <2> HIDE DEF Told, Kind, Code
  <2>5. {Told(d, x) : x \in VisibleEntries(d, q, u)} = {Told(gone, x) : x \in VisibleEntries(gone, q, u)}
    BY <1>8, <2>1
  <2> QED BY <2>3, <2>4, <2>5
<1>13. ReadFile(d, q, u) = ReadFile(gone, q, u)
  <2>1. \A k : First(<<k, NotADirectory>>) # OkCode
    BY FirstOk DEF NotADirectory, OkCode
  <2> QED BY <1>1, <1>10, <1>11, <2>1 DEF ReadFile
<1>14. AccessOf(d, q, u) = AccessOf(gone, q, u)
  BY <1>10, <1>11 DEF AccessOf
<1>15. Search(d, q, u) = Search(gone, q, u)
  <2> DEFINE Entered(e, x) == \A n \in (Len(q) + 1)..Len(x) : Authorize(e, Up(x, n), u, "read") = OkCode
  <2>1. ASSUME NEW x \in Below(q)
        PROVE  IsFile(d, x) /\ Entered(d, Front(x)) <=> IsFile(gone, x) /\ Entered(gone, Front(x))
    <3>1. x \in Paths /\ IsPrefix(q, x) /\ x # q
      BY BelowIs
    <3>2. x # <<>>
      BY <3>1, PrefixOrder, DiskIs
    <3>3. Front(x) \in Paths /\ IsPrefix(Front(x), x) /\ Len(Front(x)) \in Nat /\ Len(q) \in Nat /\ Len(p) \in Nat
      BY <3>1, <3>2, FrontIs, PathIs
    <3>4. CASE IsPrefix(p, x)
      <4>1. ~IsFile(gone, x)
        BY <1>4, <3>1, <3>4
      <4>2. ASSUME IsFile(d, x), Entered(d, Front(x)) PROVE FALSE
        <5>1. x # p
          BY <4>2, KindIs
        <5>2. IsPrefix(p, Front(x))
          BY <3>1, <3>2, <3>4, <5>1, FrontIs
        <5>3. Up(Front(x), Len(p)) = p /\ Len(p) <= Len(Front(x))
          BY <3>3, <5>2, PrefixOrder
        <5>4. Len(q) <= Len(p) /\ Len(q) # Len(p)
          BY PrefixOrder
        <5>5. Len(p) \in (Len(q) + 1)..Len(Front(x))
          BY <3>3, <5>3, <5>4
        <5>6. Authorize(d, p, u, "read") = OkCode
          BY <4>2, <5>3, <5>5
        <5> QED BY <1>1, <5>6, AuthorizeIs
      <4> QED BY <4>1, <4>2
    <3>5. CASE ~IsPrefix(p, x)
      <4>1. IsFile(d, x) <=> IsFile(gone, x)
        BY <1>5, <3>1, <3>5
      <4>2. ASSUME NEW n \in (Len(q) + 1)..Len(Front(x))
            PROVE  Authorize(d, Up(Front(x), n), u, "read") = Authorize(gone, Up(Front(x), n), u, "read")
        <5>1. n \in 0..Len(Front(x))
          BY <3>3
        <5>2. Up(Front(x), n) \in Paths /\ IsPrefix(Up(Front(x), n), Front(x))
          BY <3>3, <5>1, UpIs, UpPrefix
        <5>3. ~IsPrefix(p, Up(Front(x), n))
          BY <3>1, <3>3, <3>5, <5>2, PrefixOrder
        <5> QED BY <1>3, <5>2, <5>3
      <4> QED BY <4>1, <4>2
    <3> QED BY <3>4, <3>5
  <2>2. {x \in Below(q) : IsFile(d, x) /\ Entered(d, Front(x))}
          = {x \in Below(q) : IsFile(gone, x) /\ Entered(gone, Front(x))}
    BY <2>1
  <2>3. Authorize(d, q, u, "read") = Authorize(gone, q, u, "read")
    BY <1>10
  <2>4. \A e : Search(e, q, u) =
          [code |-> Authorize(e, q, u, "read"),
           hits |-> IF Authorize(e, q, u, "read") # OkCode THEN {}
                    ELSE {x \in Below(q) : IsFile(e, x) /\ Entered(e, Front(x))}]
    BY DEF Search
  <2> HIDE DEF Entered
  <2> QED BY <2>2, <2>3, <2>4
<1>16. Locate(d, q, u) = Locate(gone, q, u)
  BY <1>1, <1>10, <1>11 DEF Locate
<1>17. ImageInfo(d, q, u) = ImageInfo(gone, q, u)
  BY <1>10, <1>11 DEF ImageInfo
<1> QED BY <1>12, <1>13, <1>14, <1>15, <1>16, <1>17 DEF Shown, gone

\* The disk stays well formed, and a folder a caller may not read, with all in it,
\* is answered as one that is not there (fs_api.rs:38): at it, in it and above it.
THEOREM HiddenIsMissing == Spec => []HiddenAsMissing
<1>1. ASSUME WellFormed(disk), NEW u \in Callers, NEW p \in Paths \ {<<>>}, IsFolder(disk, p),
             \A q \in Within(p) : ~Perms(disk, q, u).read,
             NEW q \in Paths, IsPrefix(q, p) \/ IsPrefix(p, q)
      PROVE  Shown(disk, q, u) = Shown(Without(disk, p), q, u)
  <2>1. CASE IsPrefix(p, q)
    BY <1>1, <2>1, HiddenInside
  <2>2. CASE ~IsPrefix(p, q)
    <3>1. IsPrefix(q, p) /\ q # p
      BY <1>1, <2>2, PrefixOrder
    <3> QED BY <1>1, <3>1, HiddenAbove
  <2> QED BY <2>1, <2>2
<1>2. FileServerInv => HiddenAsMissing
  BY <1>1 DEF FileServerInv, HiddenAsMissing
<1> QED BY FileServerInvariant, <1>2, PTL
=============================================================================
