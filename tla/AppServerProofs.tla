--------------------------- MODULE AppServerProofs ---------------------------
(***************************************************************************)
(* Three parts of the server and two protocols of apps, for any number of  *)
(* steps.                                                                  *)
(*                                                                         *)
(* Of the server: the admin password all servers share, for any servers,   *)
(* starts, stops and faults; building a project, for any windows, projects,*)
(* limits and number of presses and restarts; and the web copies, for any  *)
(* files, requests, jobs, sizes, changes and stops of the server.          *)
(*                                                                         *)
(* The two copies of a text field agree, for any texts, ids and number of  *)
(* edits, if the app sets its text whenever it draws it in another place.  *)
(* The argument is IInv of TextSync: the edits on their way form a chain   *)
(* from the app's text to the shell's (EditsLead), which typing extends and*)
(* taking shortens; and a set is taken when it first arrives, never again  *)
(* (SetsAreNew, LastWasTaken).                                             *)
(*                                                                         *)
(* A Docs window keeps documents' texts apart, for any documents, texts and*)
(* clicks: DInv below.                                                     *)
(***************************************************************************)
EXTENDS Keycloak, Builds, WebCopies, TextSync, Docs, FiniteSetTheorems, SequenceTheorems,
        WellFoundedInduction, TLAPS

\* Where a start has settled on a password that the file is to hold.
HasPassword == {"forget", "inspect", "start", "port", "remove", "run", "clean", "wait",
                "token", "realm", "client"}

Pcs == HasPassword \cup {"off", "read", "create", "write", "gated", "open"}
Known == Passwords
Starts == [pc : Pcs, password : Known, spoiled : BOOLEAN]

KTypeOK ==
    /\ starts \in 0 .. MaxStarts
    /\ file \in Known
    /\ legacy \in [Servers -> {NoPassword} \cup OldPasswords]
    /\ found \in {NoPassword} \cup OldPasswords
    /\ server \in [Servers -> Starts]
    /\ volume \in [admin : Known, realm : BOOLEAN, client : BOOLEAN]

\* One start at most is writing the file, which is torn meanwhile.
OneWriter ==
    \A s \in Servers : server[s].pc = "write" =>
        /\ file = Torn
        /\ \A o \in Servers : server[o].pc = "write" => o = s

\* Whoever has gone on has the password in the file, or read a torn one.
HoldsFile ==
    \A s \in Servers :
        /\ server[s].pc \in {"create", "write"} => server[s].password # NoPassword
        /\ server[s].pc \in HasPassword =>
             server[s].password # NoPassword /\ server[s].password \in {Torn, file}

\* A password found in a checkout is the one that goes into the file.
FoundIsKept ==
    /\ found # NoPassword => file \in {Torn, found}
    /\ \A s \in Servers :
        /\ server[s].pc = "create" => legacy[s] \in {NoPassword, server[s].password}
        /\ server[s].pc = "write" => found \in {NoPassword, server[s].password}

\* PasswordsAgree is not inductive by itself: that the file is not written over
\* a password in use needs OneWriter, that docker run gives a new volume the
\* file's password needs HoldsFile, and that the file gets the password of a
\* volume that has one needs FoundIsKept.
KInv == KTypeOK /\ OneWriter /\ HoldsFile /\ FoundIsKept /\ PasswordsAgree

LEMMA KInit_KInv ==
  ASSUME KInit PROVE KInv
  BY KeycloakAssumption DEF KInit, KInv, KTypeOK, EarlierBuild, OneWriter, HoldsFile, FoundIsKept, PasswordsAgree, Off, HasPassword, Known, Passwords, Pcs, Starts

\* What a step makes of the record of a start.
Moved(r, c, x) == [r EXCEPT !.pc = c, !.spoiled = x]
Chosen(r, c, w) == [r EXCEPT !.pc = c, !.password = w]
Spoiled(r) == [r EXCEPT !.spoiled = TRUE]

LEMMA SpoiledRecord ==
  ASSUME NEW r \in Starts
  PROVE  Spoiled(r) \in Starts /\ Spoiled(r).pc = r.pc /\ Spoiled(r).password = r.password
  BY DEF Starts, Spoiled

LEMMA MovedRecord ==
  ASSUME NEW r \in Starts, NEW x \in BOOLEAN, NEW c \in Pcs
  PROVE  /\ Moved(r, c, x) \in Starts
         /\ Moved(r, c, x).pc = c
         /\ Moved(r, c, x).password = r.password
  BY DEF Starts, Moved

LEMMA FaultRecord ==
  ASSUME NEW r \in Starts, NEW c \in Pcs
  PROVE  /\ Moved(r, c, TRUE) \in Starts
         /\ Moved(r, c, TRUE).pc = c
         /\ Moved(r, c, TRUE).password = r.password
  BY DEF Starts, Moved

LEMMA ChosenRecord ==
  ASSUME NEW r \in Starts, NEW w \in Known, NEW c \in Pcs
  PROVE  /\ Chosen(r, c, w) \in Starts
         /\ Chosen(r, c, w).pc = c
         /\ Chosen(r, c, w).password = w
  BY DEF Starts, Chosen

\* One start becomes another record.
LEMMA OneStart ==
  ASSUME KTypeOK, NEW s \in Servers, NEW r \in Starts, server' = [server EXCEPT ![s] = r]
  PROVE  /\ server' \in [Servers -> Starts]
         /\ \A o \in Servers : server'[o] = IF o = s THEN r ELSE server[o]
  BY DEF KTypeOK

\* What Goes does: one start moves, none changes its password.
LEMMA GoesMoves ==
  ASSUME KTypeOK, NEW s \in Servers, NEW pc \in Pcs, Goes(s, pc)
  PROVE  /\ server' \in [Servers -> Starts]
         /\ \A o \in Servers : /\ server'[o].pc = IF o = s THEN pc ELSE server[o].pc
                               /\ server'[o].password = server[o].password
<1> DEFINE b == server[s].spoiled \/ \E other \in Servers \ {s} : Starting(other)
           new == Moved(server[s], pc, b)
           alike(o) == Spoiled(server[o])
<1>1. server' = [o \in Servers |-> IF o = s THEN new ELSE IF Starting(o) THEN alike(o) ELSE server[o]]
  BY Zenon DEF Goes, Moved, Spoiled
<1>2. \A o \in Servers : server[o] \in Starts
  BY DEF KTypeOK
<1>3. b \in BOOLEAN
  <2>1. server[s].spoiled \in BOOLEAN
    BY <1>2 DEF Starts
  <2> QED BY <2>1, Zenon
<1> HIDE DEF b
<1>4. new \in Starts /\ new.pc = pc /\ new.password = server[s].password
  BY <1>2, <1>3, MovedRecord
<1>5. \A o \in Servers : alike(o) \in Starts /\ alike(o).pc = server[o].pc
                                               /\ alike(o).password = server[o].password
  BY <1>2, SpoiledRecord, Zenon
<1> HIDE DEF new, alike
<1> QED BY <1>1, <1>2, <1>4, <1>5

\* A step that only moves one start on, with the password it has.
LEMMA MovesOn ==
  ASSUME KInv, NEW s \in Servers, NEW pc \in HasPassword \cup {"gated", "open"},
         Goes(s, pc), server[s].pc \in HasPassword \/ (pc = "open" /\ server[s].pc = "create"),
         UNCHANGED <<file, found, starts>>, legacy' \in [Servers -> {NoPassword} \cup OldPasswords],
         \A o \in Servers : server[o].pc = "create" => legacy'[o] = legacy[o],
         volume'.admin = volume.admin,
         volume' \in [admin : Known, realm : BOOLEAN, client : BOOLEAN]
  PROVE  KInv'
<1> USE DEF KInv, KTypeOK
<1>0. pc \in Pcs
  BY DEF Pcs
<1>2. \A o \in Servers : /\ server'[o].pc = IF o = s THEN pc ELSE server[o].pc
                         /\ server'[o].password = server[o].password
  BY <1>0, GoesMoves
<1>1. KTypeOK'
  BY <1>0, GoesMoves
<1>3. OneWriter'
  BY <1>2 DEF OneWriter, HasPassword
<1>4. HoldsFile'
  BY <1>2 DEF HoldsFile, HasPassword
<1>5. FoundIsKept'
  BY <1>2 DEF FoundIsKept, HasPassword
<1>6. PasswordsAgree'
  BY DEF PasswordsAgree, LockedOut
<1> QED BY <1>1, <1>3, <1>4, <1>5, <1>6

LEMMA Faults ==
  ASSUME KInv, NEW s \in Servers, NEW pc \in {"clean", "open"}, Fault(s, pc),
         server[s].pc \in HasPassword, UNCHANGED <<file, found, starts, legacy, volume>>
  PROVE  KInv'
<1> USE DEF KInv, KTypeOK
<1> DEFINE new == Moved(server[s], pc, TRUE)
<1>1. server' = [server EXCEPT ![s] = new]
  BY DEF Fault, Moved
<1>2. server[s] \in Starts /\ pc \in Pcs
  BY DEF Pcs, HasPassword
<1>3. new \in Starts /\ new.pc = pc /\ new.password = server[s].password
  BY <1>2, FaultRecord
<1> HIDE DEF new
<1>4. /\ server' \in [Servers -> Starts]
      /\ \A o \in Servers : server'[o] = IF o = s THEN new ELSE server[o]
  BY <1>1, <1>3, OneStart
<1> QED BY <1>3, <1>4 DEF HasPassword, OneWriter, HoldsFile, FoundIsKept, PasswordsAgree, LockedOut

LEMMA KNext_KInv ==
  ASSUME KInv, [KNext]_kvars PROVE KInv'
<1> USE DEF KInv, KTypeOK
<1>1. ASSUME NEW s \in Servers, Start(s) PROVE KInv'
  <2> DEFINE new == Moved(Off, "read", \E o \in Servers : Starting(o))
  <2>1. Off \in Starts /\ "read" \in Pcs
    BY DEF Off, Starts, Pcs, Known, Passwords
  <2>2. new \in Starts /\ new.pc = "read"
    <3>1. (\E o \in Servers : Starting(o)) \in BOOLEAN
      OBVIOUS
    <3> QED BY <2>1, <3>1, MovedRecord
  <2>3. server' = [server EXCEPT ![s] = new]
    BY <1>1, Zenon DEF Start, Moved
  <2> HIDE DEF new
  <2>4. /\ server' \in [Servers -> Starts]
        /\ \A o \in Servers : server'[o] = IF o = s THEN new ELSE server[o]
    BY <2>2, <2>3, OneStart
  <2>5. UNCHANGED <<file, found, legacy, volume>> /\ starts' \in 0 .. MaxStarts
    BY <1>1, KeycloakAssumption DEF Start
  <2> QED BY <2>2, <2>4, <2>5 DEF HasPassword, OneWriter, HoldsFile, FoundIsKept, PasswordsAgree, LockedOut
<1>2. ASSUME NEW s \in Servers, ReadPassword(s) PROVE KInv'
  <2>1. UNCHANGED <<file, found, volume, starts, legacy>> /\ server[s].pc = "read"
    BY <1>2 DEF ReadPassword
  <2>2. CASE file # NoPassword
    <3> DEFINE new == Chosen(server[s], "inspect", file)
    <3>1. server' = [server EXCEPT ![s] = new]
      BY <1>2, <2>2 DEF ReadPassword, Chosen
    <3>2. server[s] \in Starts /\ "inspect" \in Pcs
      BY DEF Pcs, HasPassword
    <3>3. new \in Starts /\ new.pc = "inspect" /\ new.password = file
      BY <3>2, ChosenRecord
    <3> HIDE DEF new
    <3>4. /\ server' \in [Servers -> Starts]
          /\ \A o \in Servers : server'[o] = IF o = s THEN new ELSE server[o]
      BY <3>1, <3>3, OneStart
    <3> QED BY <2>1, <2>2, <3>3, <3>4 DEF HasPassword, OneWriter, HoldsFile, FoundIsKept, PasswordsAgree, LockedOut
  <2>3. CASE file = NoPassword
    <3> DEFINE chosen == IF legacy[s] = NoPassword THEN starts ELSE legacy[s]
    <3>1. /\ chosen \in OldPasswords \cup 0 .. MaxStarts /\ chosen # NoPassword
          /\ legacy[s] \in {NoPassword, chosen}
      BY KeycloakAssumption
    <3>2. chosen \in Known
      BY <3>1 DEF Known, Passwords
    <3> DEFINE new == Chosen(server[s], "create", chosen)
    <3>3. server' = [server EXCEPT ![s] = new]
      BY <1>2, <2>3 DEF ReadPassword, Chosen
    <3>4. server[s] \in Starts /\ "create" \in Pcs
      BY DEF Pcs
    <3> HIDE DEF chosen
    <3>5. new \in Starts /\ new.pc = "create" /\ new.password = chosen
      BY <3>2, <3>4, ChosenRecord
    <3> HIDE DEF new
    <3>6. /\ server' \in [Servers -> Starts]
          /\ \A o \in Servers : server'[o] = IF o = s THEN new ELSE server[o]
      BY <3>3, <3>5, OneStart
    <3> QED BY <2>1, <3>1, <3>5, <3>6 DEF HasPassword, OneWriter, HoldsFile, FoundIsKept, PasswordsAgree, LockedOut
  <2> QED BY <2>2, <2>3
<1>3. ASSUME NEW s \in Servers, CreateFile(s) PROVE KInv'
  <2>1. CASE file = NoPassword
    <3>0. found' = legacy[s]
      BY <1>3, <2>1 DEF CreateFile
    <3>1. KTypeOK' BY <1>3, <2>1, <3>0, GoesMoves DEF CreateFile, Pcs, Known, Passwords
    <3>2. \A o \in Servers : /\ server'[o].pc = IF o = s THEN "write" ELSE server[o].pc
                             /\ server'[o].password = server[o].password
      BY <1>3, <2>1, GoesMoves DEF CreateFile, Pcs
    <3>3. file' = Torn /\ volume' = volume
      BY <1>3, <2>1 DEF CreateFile
    <3>4. OneWriter'
      BY <1>3, <2>1, <3>2, <3>3, KeycloakAssumption DEF CreateFile, OneWriter
    <3>5. HoldsFile'
      BY <1>3, <2>1, <3>2, <3>3 DEF CreateFile, HoldsFile, HasPassword
    <3>6. FoundIsKept'
      BY <1>3, <2>1, <3>0, <3>2, <3>3, KeycloakAssumption DEF CreateFile, FoundIsKept, OneWriter
    <3>7. PasswordsAgree'
      BY <2>1, <3>3, KeycloakAssumption DEF PasswordsAgree, LockedOut
    <3> QED BY <3>1, <3>4, <3>5, <3>6, <3>7
  <2>2. CASE file # NoPassword
    BY <1>3, <2>2, MovesOn DEF CreateFile, GivesUp
  <2> QED BY <2>1, <2>2
<1>4. ASSUME NEW s \in Servers, WriteFile(s) PROVE KInv'
  <2>1. KTypeOK'
    <3>1. server[s].password \in Known
      BY DEF Starts
    <3> QED BY <1>4, <3>1, GoesMoves DEF WriteFile, Pcs, HasPassword
  <2>2. \A o \in Servers : /\ server'[o].pc = IF o = s THEN "forget" ELSE server[o].pc
                           /\ server'[o].password = server[o].password
    BY <1>4, GoesMoves DEF WriteFile, Pcs, HasPassword
  <2>3. server[s].pc = "write" /\ file = Torn /\ file' = server[s].password /\ volume' = volume
    BY <1>4 DEF WriteFile, OneWriter
  <2>4. OneWriter'
    BY <2>2, <2>3 DEF OneWriter
  <2>5. HoldsFile'
    BY <2>2, <2>3 DEF HoldsFile, HasPassword
  <2>6. UNCHANGED <<found, legacy>> /\ found \in {NoPassword, server[s].password}
    BY <1>4, <2>3 DEF WriteFile, FoundIsKept
  <2>7. FoundIsKept'
    BY <2>2, <2>3, <2>6 DEF FoundIsKept
  <2>8. PasswordsAgree'
    BY <2>3, <2>6, KeycloakAssumption DEF PasswordsAgree, LockedOut
  <2> QED BY <2>1, <2>4, <2>5, <2>7, <2>8
<1>5. ASSUME NEW s \in Servers, ForgetLegacy(s) PROVE KInv'
  BY <1>5, MovesOn DEF ForgetLegacy, HasPassword
<1>6. ASSUME NEW s \in Servers, Inspect(s) PROVE KInv'
  <2>1. Verdict \in {"run", "remove", "port", "start"}
    BY DEF Verdict
  <2> QED BY <1>6, <2>1, MovesOn DEF Inspect, HasPassword
<1>7. ASSUME NEW s \in Servers, DockerStart(s) PROVE KInv'
  BY <1>7, MovesOn DEF DockerStart, GivesUp, HasPassword
<1>8. ASSUME NEW s \in Servers, CheckPort(s) PROVE KInv'
  BY <1>8, MovesOn DEF CheckPort, HasPassword
<1>9. ASSUME NEW s \in Servers, DockerRemove(s) PROVE KInv'
  BY <1>9, MovesOn DEF DockerRemove, GivesUp, HasPassword
<1>10. ASSUME NEW s \in Servers, DockerRun(s) PROVE KInv'
  <2>1. CASE Goes(s, "clean") /\ UNCHANGED volume
    BY <1>10, <2>1, MovesOn DEF DockerRun, HasPassword
  <2>2. CASE Goes(s, "wait") /\ volume' = [volume EXCEPT !.admin = IF @ = NoPassword THEN server[s].password ELSE @]
    <3> DEFINE admin == IF volume.admin = NoPassword THEN server[s].password ELSE volume.admin
    <3>0. admin \in Known /\ volume' = [volume EXCEPT !.admin = admin]
      BY <2>2 DEF Starts
    <3> HIDE DEF admin
    <3>8. volume' \in [admin : Known, realm : BOOLEAN, client : BOOLEAN]
      BY <3>0
    <3>1. KTypeOK' BY <1>10, <2>2, <3>8, GoesMoves DEF DockerRun, Pcs, HasPassword
    <3>2. \A o \in Servers : /\ server'[o].pc = IF o = s THEN "wait" ELSE server[o].pc
                             /\ server'[o].password = server[o].password
      BY <2>2, GoesMoves DEF Pcs, HasPassword
    <3>3. server[s].pc = "run" /\ file' = file
      BY <1>10 DEF DockerRun
    <3>4. OneWriter' /\ HoldsFile'
      BY <3>2, <3>3 DEF OneWriter, HoldsFile, HasPassword
    <3>5. server[s].password \in {Torn, file}
      BY <3>3 DEF HoldsFile, HasPassword
    <3>6. volume'.admin \in {volume.admin, server[s].password}
      BY <2>2
    <3>7. UNCHANGED <<found, legacy>>
      BY <1>10 DEF DockerRun
    <3>10. FoundIsKept'
      BY <3>2, <3>3, <3>7 DEF FoundIsKept
    <3>9. PasswordsAgree'
      BY <3>3, <3>5, <3>6, <3>7 DEF PasswordsAgree, LockedOut
    <3> QED BY <3>1, <3>4, <3>10, <3>9
  <2>3. CASE Fault(s, "clean") /\ UNCHANGED volume
    BY <1>10, <2>3, Faults DEF DockerRun, HasPassword
  <2> QED BY <1>10, <2>1, <2>2, <2>3 DEF DockerRun
<1>11. ASSUME NEW s \in Servers, CleanUp(s) PROVE KInv'
  BY <1>11, MovesOn DEF CleanUp, GivesUp, HasPassword
<1>12. ASSUME NEW s \in Servers, WaitUntilUp(s) PROVE KInv'
  <2>1. CASE Fault(s, "open")
    BY <1>12, <2>1, Faults DEF WaitUntilUp, HasPassword
  <2>2. CASE Goes(s, "token") \/ GivesUp(s)
    BY <1>12, <2>2, MovesOn DEF WaitUntilUp, GivesUp, HasPassword
  <2> QED BY <1>12, <2>1, <2>2 DEF WaitUntilUp
<1>13. ASSUME NEW s \in Servers, Provision(s) PROVE KInv'
  <2>1. volume'.admin = volume.admin
    BY <1>13 DEF Provision
  <2>2. \E pc \in {"realm", "client", "gated", "open"} : Goes(s, pc)
    BY <1>13 DEF Provision, GivesUp
  <2>3. server[s].pc \in HasPassword
    BY <1>13 DEF Provision, HasPassword
  <2> QED BY <1>13, <2>1, <2>2, <2>3, MovesOn DEF Provision, HasPassword
<1>14. ASSUME NEW s \in Servers, Stop(s) PROVE KInv'
  <2>1. Off \in Starts /\ Off.pc = "off"
    BY DEF Off, Starts, Pcs, Known, Passwords
  <2>2. /\ server' \in [Servers -> Starts]
        /\ \A o \in Servers : server'[o] = IF o = s THEN Off ELSE server[o]
    BY <1>14, <2>1, OneStart DEF Stop
  <2>3. UNCHANGED <<file, found, legacy, volume, starts>>
    BY <1>14 DEF Stop
  <2> QED BY <2>1, <2>2, <2>3 DEF HasPassword, OneWriter, HoldsFile, FoundIsKept, PasswordsAgree, LockedOut
<1>15. ASSUME Disturb PROVE KInv'
  <2> DEFINE alike(o) == Spoiled(server[o])
  <2>1. server' = [o \in Servers |-> IF Starting(o) THEN alike(o) ELSE server[o]]
    BY <1>15, Zenon DEF Disturb, Spoiled
  <2>2. \A o \in Servers : alike(o) \in Starts /\ alike(o).pc = server[o].pc
                                               /\ alike(o).password = server[o].password
    <3>1. \A o \in Servers : server[o] \in Starts
      OBVIOUS
    <3> QED BY <3>1, SpoiledRecord, Zenon
  <2> HIDE DEF alike
  <2>3. /\ server' \in [Servers -> Starts]
        /\ \A o \in Servers : server'[o].pc = server[o].pc /\ server'[o].password = server[o].password
    BY <2>1, <2>2
  <2>4. UNCHANGED <<file, found, legacy, volume, starts>>
    BY <1>15 DEF Disturb
  <2> QED BY <2>3, <2>4 DEF OneWriter, HoldsFile, FoundIsKept, PasswordsAgree, LockedOut
<1>16. ASSUME UNCHANGED kvars PROVE KInv'
  BY <1>16 DEF kvars, OneWriter, HoldsFile, FoundIsKept, PasswordsAgree, LockedOut
<1> QED
  BY <1>1, <1>2, <1>3, <1>4, <1>5, <1>6, <1>7, <1>8, <1>9, <1>10, <1>11, <1>12, <1>13,
     <1>14, <1>15, <1>16 DEF KNext

\* However servers start, stop and cross, and whatever passwords earlier builds
\* left, the password in the file is the one that Keycloak has, unless a file that
\* was never written was used, or the first start found another password in its
\* checkout than Keycloak already had (admin_password, keycloak.rs:214).
THEOREM PasswordsAgreeHolds == KSpec => []PasswordsAgree
<1>1. KInv => PasswordsAgree
  BY DEF KInv
<1> QED BY KInit_KInv, KNext_KInv, <1>1, PTL DEF KSpec

-----------------------------------------------------------------------------
(* A start that nothing disturbs.                                          *)

Containers == [label : {"none", "old", "current"}, running : BOOLEAN, published : BOOLEAN]

\* A container of this version was published when Keycloak had its admin.
HasAdmin ==
    container.label = "current" /\ container.published => volume.admin # NoPassword

\* Every other start is at its beginning, or has done no more than read.
OthersEarly(s) ==
    \A o \in Servers \ {s} :
        server[o].pc \in {"off", "gated", "open", "read", "create", "inspect"}

\* That is so beside a start that is under way and not spoiled.
Alone == \A s \in Servers : Starting(s) /\ ~server[s].spoiled => OthersEarly(s)

\* What a start that is not spoiled has found or made, and still finds.
Ahead(s) ==
    /\ server[s].pc = "create" => file = NoPassword
    /\ server[s].pc = "start" => container.label = "current"
    /\ server[s].pc = "port" => container.label = "current" /\ container.running
    /\ server[s].pc = "remove" => container.label # "none"
    /\ server[s].pc = "run" => container.label = "none"
    /\ server[s].pc # "clean"
    /\ server[s].pc \in {"wait", "token", "realm", "client"} =>
         container.label = "current" /\ container.running /\ container.published
    /\ server[s].pc = "open" =>
         Torn \in {server[s].password, volume.admin} \/ (LockedOut /\ file # NoPassword)

\* LoneStartSucceeds says what a start ends with; LoneInv adds what it meets at
\* each step on the way.  KInv gives it the password that Keycloak expects.
LoneInv ==
    /\ container \in Containers
    /\ HasAdmin
    /\ Alone
    /\ \A s \in Servers : ~server[s].spoiled => Ahead(s)

LEMMA KInit_LoneInv ==
  ASSUME KInit PROVE LoneInv
<1>1. \A s \in Servers : server[s].pc = "off"
  BY DEF KInit, Off
<1>2. container \in Containers /\ HasAdmin
  <2>1. CASE container \in {NoContainer, [label |-> "old", running |-> TRUE, published |-> TRUE]}
    <3>1. CASE container = NoContainer
      BY <3>1 DEF NoContainer, Containers, HasAdmin
    <3>2. CASE container = [label |-> "old", running |-> TRUE, published |-> TRUE]
      BY <3>2 DEF Containers, HasAdmin
    <3> QED BY <2>1, <3>1, <3>2
  <2>2. CASE volume.admin # NoPassword /\ container \in [label : {"current"}, running : BOOLEAN,
                                                         published : BOOLEAN]
    BY <2>2 DEF Containers, HasAdmin
  <2> QED BY <2>1, <2>2 DEF KInit, EarlierBuild
<1> QED BY <1>1, <1>2 DEF LoneInv, Alone, OthersEarly, Starting, Ahead

\* A step of one start spoils every other one under way, and itself if there is
\* one.
LEMMA GoesSpoils ==
  ASSUME KTypeOK, NEW s \in Servers, NEW pc \in Pcs, Goes(s, pc)
  PROVE  /\ \A o \in Servers \ {s} :
              ~server'[o].spoiled => ~Starting(o) /\ server'[o] = server[o]
         /\ server'[s].pc = pc /\ server'[s].password = server[s].password
         /\ ~server'[s].spoiled =>
              ~server[s].spoiled /\ \A o \in Servers \ {s} : ~Starting(o)
<1> DEFINE b == server[s].spoiled \/ \E other \in Servers \ {s} : Starting(other)
           new == Moved(server[s], pc, b)
           alike(o) == Spoiled(server[o])
<1>1. server' = [o \in Servers |-> IF o = s THEN new ELSE IF Starting(o) THEN alike(o) ELSE server[o]]
  BY Zenon DEF Goes, Moved, Spoiled
<1>2. \A o \in Servers : server[o] \in Starts
  BY DEF KTypeOK
<1>3. \A o \in Servers : alike(o).spoiled = TRUE
  BY <1>2 DEF Starts, Spoiled
<1>4. new.pc = pc /\ new.password = server[s].password /\ new.spoiled = b
  BY <1>2 DEF Starts, Moved
<1> HIDE DEF new, alike
<1>5. server'[s] = new
  BY <1>1
<1>6. \A o \in Servers \ {s} : server'[o] = IF Starting(o) THEN alike(o) ELSE server[o]
  BY <1>1
<1>7. \A o \in Servers \ {s} : ~server'[o].spoiled => ~Starting(o) /\ server'[o] = server[o]
  BY <1>3, <1>6
<1>8. ~server'[s].spoiled => ~b
  BY <1>4, <1>5
<1> QED BY <1>4, <1>5, <1>7, <1>8

\* A file that is there stays, and what was found when it was made.
FileStays == file # NoPassword => file' # NoPassword /\ found' = found

\* A step of a start keeps LoneInv if the start, when it is still not spoiled,
\* finds what it needs next.
LEMMA LoneMoves ==
  ASSUME KTypeOK, LoneInv, NEW s \in Servers, NEW pc \in Pcs, Goes(s, pc),
         container' \in Containers, HasAdmin',
         volume.admin = NoPassword \/ volume'.admin = volume.admin, FileStays,
         ~server[s].spoiled /\ server'[s].pc = pc /\ server'[s].password = server[s].password
           => Ahead(s)'
  PROVE  LoneInv'
<1>1. /\ \A o \in Servers \ {s} :
           ~server'[o].spoiled => ~Starting(o) /\ server'[o] = server[o]
      /\ server'[s].pc = pc /\ server'[s].password = server[s].password
      /\ ~server'[s].spoiled =>
           ~server[s].spoiled /\ \A o \in Servers \ {s} : ~Starting(o)
  BY GoesSpoils
<1>2. \A o \in Servers : o # s => server'[o].pc = server[o].pc
  BY GoesMoves
<1>3. Alone'
  <2> SUFFICES ASSUME NEW x \in Servers, Starting(x)', ~server'[x].spoiled,
                      NEW o \in Servers \ {x}
               PROVE  server'[o].pc \in {"off", "gated", "open", "read", "create", "inspect"}
    BY DEF Alone, OthersEarly
  <2>1. x = s
    BY <1>1 DEF Starting
  <2>2. ~Starting(o) /\ server'[o].pc = server[o].pc
    BY <1>1, <1>2, <2>1
  <2> QED BY <2>2 DEF Starting
<1>4. ASSUME NEW x \in Servers, ~server'[x].spoiled PROVE Ahead(x)'
  <2>1. CASE x = s
    BY <1>1, <1>4, <2>1
  <2>2. CASE x # s
    <3>1. server[x].pc \in {"off", "gated", "open"} /\ server'[x] = server[x] /\ ~server[x].spoiled
      BY <1>1, <1>4, <2>2 DEF Starting
    <3>2. server[x].pc = "open" =>
            Torn \in {server[x].password, volume'.admin} \/ (LockedOut /\ file # NoPassword)'
      BY <3>1, KeycloakAssumption DEF LoneInv, Ahead, LockedOut, FileStays
    <3> QED BY <3>1, <3>2 DEF Ahead
  <2> QED BY <2>1, <2>2
<1> QED BY <1>3, <1>4 DEF LoneInv

\* A step that changes the record of one start and nothing that another finds:
\* the start begins, reads, fails by a fault, or is stopped.
LEMMA LoneRecord ==
  ASSUME KTypeOK, LoneInv, NEW s \in Servers, NEW r \in Starts,
         server' = [server EXCEPT ![s] = r],
         UNCHANGED <<file, found, container, volume>>,
         r.pc \in {"off", "read", "create", "inspect"} \/ (r.spoiled = TRUE /\ r.pc = "open"),
         r.pc = "create" => file = NoPassword,
         r.pc = "off" \/ r.spoiled = TRUE \/ OthersEarly(s)
  PROVE  LoneInv'
<1>1. \A o \in Servers : server'[o] = IF o = s THEN r ELSE server[o]
  BY OneStart
<1>2. Alone'
  <2> SUFFICES ASSUME NEW x \in Servers, Starting(x)', ~server'[x].spoiled,
                      NEW o \in Servers \ {x}
               PROVE  server'[o].pc \in {"off", "gated", "open", "read", "create", "inspect"}
    BY DEF Alone, OthersEarly
  <2>1. CASE x = s
    BY <1>1, <2>1 DEF Starting, OthersEarly
  <2>2. CASE x # s
    <3>1. Starting(x) /\ ~server[x].spoiled
      BY <1>1, <2>2 DEF Starting
    <3>2. server[o].pc \in {"off", "gated", "open", "read", "create", "inspect"}
      BY <3>1 DEF LoneInv, Alone, OthersEarly
    <3> QED BY <1>1, <3>2
  <2> QED BY <2>1, <2>2
<1>3. ASSUME NEW x \in Servers, ~server'[x].spoiled PROVE Ahead(x)'
  <2>1. CASE x = s
    <3>1. server'[x] = r /\ ~r.spoiled
      BY <1>1, <1>3, <2>1
    <3> QED BY <3>1 DEF Ahead, LockedOut
  <2>2. CASE x # s
    <3>1. server'[x] = server[x] /\ Ahead(x)
      BY <1>1, <1>3, <2>2 DEF LoneInv
    <3> QED BY <3>1 DEF Ahead, LockedOut
  <2> QED BY <2>1, <2>2
<1>4. container' \in Containers /\ HasAdmin'
  BY DEF LoneInv, HasAdmin
<1> QED BY <1>2, <1>3, <1>4 DEF LoneInv

LEMMA KNext_LoneInv ==
  ASSUME KInv, LoneInv, [KNext]_kvars PROVE LoneInv'
<1> USE DEF KInv
<1>0. /\ HasPassword \subseteq Pcs
      /\ \A s \in Servers : server[s] \in Starts
      /\ container \in Containers /\ HasAdmin
      /\ \A s \in Servers : ~server[s].spoiled => Ahead(s)
  BY DEF Pcs, KTypeOK, LoneInv
<1>17. FileStays
  <2>1. CASE UNCHANGED <<file, found>>
    BY <2>1 DEF FileStays
  <2>2. ASSUME NEW s \in Servers, CreateFile(s) \/ WriteFile(s) PROVE FileStays
    BY <2>2 DEF FileStays, CreateFile, WriteFile, HoldsFile
  <2>3. CASE KNext /\ ~UNCHANGED <<file, found>>
    <3>1. \E s \in Servers : CreateFile(s) \/ WriteFile(s)
      BY <2>3 DEF KNext, Start, ReadPassword, ForgetLegacy, Inspect, DockerStart, CheckPort,
         DockerRemove, DockerRun, CleanUp, WaitUntilUp, Provision, Stop, Disturb
    <3> QED BY <2>2, <3>1
  <2> QED BY <2>1, <2>3 DEF kvars
<1>1. ASSUME NEW s \in Servers, Start(s) PROVE LoneInv'
  <2> DEFINE busy == \E o \in Servers : Starting(o)
             new == Moved(Off, "read", busy)
  <2>1. Off \in Starts /\ "read" \in Pcs /\ busy \in BOOLEAN
    BY DEF Off, Starts, Pcs, Known, Passwords
  <2>2. new \in Starts /\ new.pc = "read"
    BY <2>1, MovedRecord
  <2>3. new.spoiled = busy
    BY <2>1 DEF Moved, Starts
  <2>4. server' = [server EXCEPT ![s] = new]
    BY <1>1, Zenon DEF Start, Moved
  <2>5. UNCHANGED <<file, found, container, volume>>
    BY <1>1 DEF Start
  <2>6. new.spoiled = TRUE \/ OthersEarly(s)
    BY <2>3 DEF Starting, OthersEarly
  <2> HIDE DEF new
  <2> QED BY <2>2, <2>4, <2>5, <2>6, LoneRecord
<1>2. ASSUME NEW s \in Servers, ReadPassword(s) PROVE LoneInv'
  <2>1. UNCHANGED <<file, found, container, volume>> /\ server[s].pc = "read"
    BY <1>2 DEF ReadPassword
  <2>2. server[s].spoiled = TRUE \/ OthersEarly(s)
    BY <1>0, <2>1 DEF LoneInv, Alone, Starting, Starts
  <2>3. ASSUME NEW pc \in {"inspect", "create"}, NEW w \in Known, pc = "create" => file = NoPassword,
               server' = [server EXCEPT ![s] = Chosen(server[s], pc, w)]
        PROVE  LoneInv'
    <3> DEFINE new == Chosen(server[s], pc, w)
    <3>0. pc \in Pcs /\ server[s] \in Starts
      BY <1>0 DEF Pcs, HasPassword
    <3>1. new \in Starts /\ new.pc = pc
      BY <3>0, ChosenRecord
    <3>2. new.spoiled = server[s].spoiled
      BY <1>0 DEF Chosen, Starts
    <3> HIDE DEF new
    <3>3. server' = [server EXCEPT ![s] = new]
      BY <2>3 DEF new
    <3> QED BY <2>1, <2>2, <2>3, <3>1, <3>2, <3>3, LoneRecord
  <2>4. CASE file # NoPassword
    <3>1. server' = [server EXCEPT ![s] = Chosen(server[s], "inspect", file)]
      BY <1>2, <2>4 DEF ReadPassword, Chosen
    <3> QED BY <2>3, <3>1 DEF KTypeOK
  <2>5. CASE file = NoPassword
    <3> DEFINE chosen == IF legacy[s] = NoPassword THEN starts ELSE legacy[s]
    <3>1. chosen \in Known
      BY KeycloakAssumption DEF Known, Passwords, KTypeOK
    <3>2. server' = [server EXCEPT ![s] = Chosen(server[s], "create", chosen)]
      BY <1>2, <2>5 DEF ReadPassword, Chosen
    <3> HIDE DEF chosen
    <3> QED BY <2>3, <2>5, <3>1, <3>2
  <2> QED BY <2>4, <2>5
<1>3. ASSUME NEW s \in Servers, CreateFile(s) PROVE LoneInv'
  <2>1. UNCHANGED <<container, volume>> /\ (server[s].spoiled \/ file = NoPassword)
    BY <1>0, <1>3 DEF CreateFile, Ahead
  <2>2. PICK pc \in {"write", "open"} : Goes(s, pc) /\ (pc = "open" => file # NoPassword)
    BY <1>3 DEF CreateFile, GivesUp
  <2> QED BY <1>0, <2>1, <2>2, <1>17, LoneMoves DEF Pcs, Ahead, HasAdmin
<1>4. ASSUME NEW s \in Servers, WriteFile(s) PROVE LoneInv'
  BY <1>0, <1>4, <1>17, LoneMoves DEF WriteFile, Pcs, HasPassword, Ahead, HasAdmin
<1>5. ASSUME NEW s \in Servers, ForgetLegacy(s) PROVE LoneInv'
  BY <1>0, <1>5, <1>17, LoneMoves DEF ForgetLegacy, Pcs, HasPassword, Ahead, HasAdmin
<1>6. ASSUME NEW s \in Servers, Inspect(s) PROVE LoneInv'
  <2>1. Verdict \in {"run", "remove", "port", "start"}
    BY DEF Verdict
  <2>2. Goes(s, Verdict) /\ UNCHANGED <<container, volume>>
    BY <1>6 DEF Inspect
  <2>3. server'[s].pc = Verdict => Ahead(s)'
    BY <1>0, <2>1, <2>2 DEF Verdict, Ahead, Containers
  <2>4. Verdict \in Pcs
    BY <2>1 DEF Pcs, HasPassword
  <2> QED BY <1>0, <2>2, <2>3, <2>4, <1>17, LoneMoves DEF HasAdmin
<1>7. ASSUME NEW s \in Servers, DockerStart(s) PROVE LoneInv'
  <2>1. UNCHANGED volume /\ (server[s].spoiled \/ container.label = "current")
    BY <1>0, <1>7 DEF DockerStart, Ahead
  <2>2. CASE container.label = "none"
    BY <1>0, <1>7, <2>1, <2>2, <1>17, LoneMoves DEF DockerStart, GivesUp, Pcs, HasAdmin
  <2>3. CASE container.label # "none"
    <3>1. container' = [container EXCEPT !.running = TRUE] /\ Goes(s, "port")
      BY <1>7, <2>3 DEF DockerStart
    <3>2. /\ container' \in Containers /\ container'.running
          /\ container'.label = container.label /\ container'.published = container.published
      BY <1>0, <3>1 DEF Containers
    <3>3. HasAdmin' /\ "port" \in Pcs
      BY <1>0, <2>1, <3>2 DEF HasAdmin, Pcs, HasPassword
    <3>4. ~server[s].spoiled /\ server'[s].pc = "port" => Ahead(s)'
      BY <2>1, <3>2 DEF Ahead
    <3> QED BY <2>1, <3>1, <3>2, <3>3, <3>4, <1>17, LoneMoves
  <2> QED BY <2>2, <2>3
<1>8. ASSUME NEW s \in Servers, CheckPort(s) PROVE LoneInv'
  <2> DEFINE pc == IF Reused THEN "wait" ELSE "remove"
  <2>1. Goes(s, pc) /\ UNCHANGED <<container, volume>> /\ pc \in Pcs
    BY <1>8 DEF CheckPort, Pcs, HasPassword
  <2>2. ~server[s].spoiled => container.label = "current" /\ container.running
    BY <1>0, <1>8 DEF CheckPort, Ahead
  <2>3. ~server[s].spoiled /\ server'[s].pc = pc => Ahead(s)'
    BY <2>1, <2>2 DEF Ahead, Reused
  <2> HIDE DEF pc
  <2> QED BY <1>0, <2>1, <2>3, <1>17, LoneMoves DEF HasAdmin
<1>9. ASSUME NEW s \in Servers, DockerRemove(s) PROVE LoneInv'
  <2>1. UNCHANGED volume /\ (server[s].spoiled \/ container.label # "none")
    BY <1>0, <1>9 DEF DockerRemove, Ahead
  <2>2. container' \in Containers /\ container'.label = "none"
    BY <1>9 DEF DockerRemove, NoContainer, Containers
  <2>3. PICK pc \in {"run", "open"} : Goes(s, pc) /\ (pc = "open" => container.label = "none")
    BY <1>9 DEF DockerRemove, GivesUp
  <2>4. ~server[s].spoiled /\ server'[s].pc = pc => Ahead(s)'
    BY <2>1, <2>2, <2>3 DEF Ahead
  <2> QED BY <2>1, <2>2, <2>3, <2>4, <1>17, LoneMoves DEF HasAdmin, Pcs, HasPassword
<1>10. ASSUME NEW s \in Servers, DockerRun(s) PROVE LoneInv'
  <2>0. server[s].pc = "run" /\ (server[s].spoiled \/ container.label = "none")
    BY <1>0, <1>10 DEF DockerRun, Ahead
  <2>1. CASE container.label # "none" /\ Goes(s, "clean") /\ UNCHANGED <<container, volume>>
    BY <1>0, <2>0, <2>1, <1>17, LoneMoves DEF HasAdmin, Pcs, HasPassword
  <2>2. CASE /\ container' = NewContainer(TRUE)
             /\ volume' = [volume EXCEPT !.admin = IF @ = NoPassword THEN server[s].password ELSE @]
             /\ Goes(s, "wait")
    <3>1. /\ container' \in Containers
          /\ container'.label = "current" /\ container'.running /\ container'.published
      BY <2>2 DEF NewContainer, Containers
    <3>2. volume'.admin = IF volume.admin = NoPassword THEN server[s].password ELSE volume.admin
      BY <2>2 DEF KTypeOK
    <3>3. server[s].password # NoPassword
      BY <2>0 DEF HoldsFile, HasPassword
    <3>4. HasAdmin'
      BY <3>1, <3>2, <3>3 DEF HasAdmin
    <3>5. server'[s].pc = "wait" => Ahead(s)'
      BY <3>1 DEF Ahead
    <3> QED BY <2>2, <3>1, <3>2, <3>4, <3>5, <1>17, LoneMoves DEF Pcs, HasPassword
  <2>3. CASE container' = NewContainer(FALSE) /\ Fault(s, "clean") /\ UNCHANGED volume
    <3> DEFINE new == Moved(server[s], "clean", TRUE)
    <3>1. server' = [server EXCEPT ![s] = new]
      BY <2>3 DEF Fault, Moved
    <3>2. new \in Starts /\ new.spoiled = TRUE
      BY <1>0 DEF Moved, Starts, Pcs, HasPassword
    <3> HIDE DEF new
    <3>3. \A o \in Servers : server'[o] = IF o = s THEN new ELSE server[o]
      BY <3>1, <3>2, OneStart
    <3>4. \A o \in Servers \ {s} : Starting(o) => server[o].spoiled
      BY <2>0 DEF LoneInv, Alone, OthersEarly
    <3>5. container' \in Containers /\ HasAdmin'
      BY <2>3 DEF NewContainer, Containers, HasAdmin
    <3>6. \A o \in Servers : ~server'[o].spoiled =>
            o # s /\ server'[o] = server[o] /\ server[o].pc \in {"off", "gated", "open"}
      BY <3>2, <3>3, <3>4 DEF Starting
    <3>9. UNCHANGED <<file, found>>
      BY <1>10 DEF DockerRun
    <3>7. Alone'
      BY <3>6 DEF Alone, OthersEarly, Starting
    <3>8. \A o \in Servers : ~server'[o].spoiled => Ahead(o)'
      BY <1>0, <2>3, <3>6, <3>9 DEF Ahead, LockedOut
    <3> QED BY <3>5, <3>7, <3>8 DEF LoneInv
  <2> QED BY <1>10, <2>1, <2>2, <2>3 DEF DockerRun
<1>11. ASSUME NEW s \in Servers, CleanUp(s) PROVE LoneInv'
  <2>1. server[s].spoiled
    BY <1>0, <1>11 DEF CleanUp, Ahead
  <2>2. container' \in Containers /\ HasAdmin'
    BY <1>11 DEF CleanUp, NoContainer, Containers, HasAdmin
  <2> QED BY <1>11, <2>1, <2>2, <1>17, LoneMoves DEF CleanUp, GivesUp, Pcs
<1>12. ASSUME NEW s \in Servers, WaitUntilUp(s) PROVE LoneInv'
  <2>0. /\ UNCHANGED <<file, found, container, volume>>
        /\ ~server[s].spoiled =>
             container.label = "current" /\ container.running /\ container.published
    BY <1>0, <1>12 DEF WaitUntilUp, Ahead
  <2>1. CASE Reachable /\ Goes(s, "token")
    <3>1. ~server[s].spoiled /\ server'[s].pc = "token" => Ahead(s)'
      BY <2>0 DEF Ahead
    <3> QED BY <1>0, <2>0, <2>1, <3>1, <1>17, LoneMoves DEF Pcs, HasPassword, HasAdmin
  <2>2. CASE ~Reachable /\ Goes(s, "open")
    <3>1. server[s].spoiled
      BY <2>0, <2>2 DEF Reachable
    <3> QED BY <1>0, <2>0, <2>2, <3>1, <1>17, LoneMoves DEF Pcs, HasAdmin
  <2>3. CASE Fault(s, "open")
    <3> DEFINE new == Moved(server[s], "open", TRUE)
    <3>1. server' = [server EXCEPT ![s] = new]
      BY <2>3 DEF Fault, Moved
    <3>2. new \in Starts /\ new.spoiled = TRUE /\ new.pc = "open"
      BY <1>0 DEF Moved, Starts, Pcs
    <3> HIDE DEF new
    <3> QED BY <2>0, <3>1, <3>2, LoneRecord
  <2> QED BY <1>12, <2>1, <2>2, <2>3 DEF WaitUntilUp, GivesUp
<1>13. ASSUME NEW s \in Servers, Provision(s) PROVE LoneInv'
  <2>0. /\ UNCHANGED container
        /\ volume'.admin = volume.admin
        /\ server[s].pc \in {"token", "realm", "client"}
    <3>1. volume' = volume \/ volume' = [volume EXCEPT !.realm = TRUE] \/ volume' = [volume EXCEPT !.client = TRUE]
      BY <1>13 DEF Provision
    <3> QED BY <1>13, <3>1 DEF Provision, KTypeOK
  <2>1. ~server[s].spoiled =>
          container.label = "current" /\ container.running /\ container.published
    BY <1>0, <2>0 DEF Ahead
  <2>2. HasAdmin'
    BY <1>0, <2>0 DEF HasAdmin
  <2>3. CASE ~(~Reachable \/ (server[s].pc = "token" /\ server[s].password \notin {volume.admin} \ {Torn}))
    <3>1. PICK pc \in {"realm", "client", "gated"} : Goes(s, pc)
      BY <1>13, <2>3 DEF Provision
    <3>2. ~server[s].spoiled /\ server'[s].pc = pc => Ahead(s)'
      BY <2>0, <2>1 DEF Ahead
    <3> QED BY <1>0, <2>0, <2>2, <3>1, <3>2, <1>17, LoneMoves DEF Pcs, HasPassword
  <2>4. CASE ~Reachable \/ (server[s].pc = "token" /\ server[s].password \notin {volume.admin} \ {Torn})
    <3>1. Goes(s, "open")
      BY <1>13, <2>4 DEF Provision, GivesUp
    <3>2. ~server[s].spoiled =>
            Torn \in {server[s].password, volume.admin} \/ (LockedOut /\ file # NoPassword)
      <4>1. server[s].password # NoPassword /\ server[s].password \in {Torn, file}
        BY <2>0 DEF HoldsFile, HasPassword
      <4> QED BY <1>0, <2>1, <2>4, <4>1 DEF Reachable, HasAdmin, PasswordsAgree
    <3>4. UNCHANGED <<file, found>>
      BY <1>13 DEF Provision
    <3>3. ~server[s].spoiled /\ server'[s].pc = "open" /\ server'[s].password = server[s].password
            => Ahead(s)'
      BY <2>0, <3>2, <3>4 DEF Ahead, LockedOut
    <3> QED BY <1>0, <2>0, <2>2, <3>1, <3>3, <1>17, LoneMoves DEF Pcs
  <2> QED BY <2>3, <2>4
<1>14. ASSUME NEW s \in Servers, Stop(s) PROVE LoneInv'
  <2>1. Off \in Starts /\ Off.pc = "off"
    BY DEF Off, Starts, Pcs, Known, Passwords
  <2>2. server' = [server EXCEPT ![s] = Off] /\ UNCHANGED <<file, found, container, volume>>
    BY <1>14 DEF Stop
  <2> HIDE DEF KInv
  <2> QED BY <2>1, <2>2, LoneRecord DEF KInv
<1>15. ASSUME Disturb PROVE LoneInv'
  <2> DEFINE alike(o) == Spoiled(server[o])
  <2>1. server' = [o \in Servers |-> IF Starting(o) THEN alike(o) ELSE server[o]]
    BY <1>15, Zenon DEF Disturb, Spoiled
  <2>2. \A o \in Servers : alike(o).spoiled = TRUE
    BY <1>0 DEF Spoiled, Starts
  <2> HIDE DEF alike
  <2>3. \A o \in Servers : ~server'[o].spoiled =>
          server'[o] = server[o] /\ server[o].pc \in {"off", "gated", "open"}
    BY <2>1, <2>2 DEF Starting
  <2>4. UNCHANGED <<file, found, volume>> /\ container' \in Containers /\ HasAdmin'
    BY <1>0, <1>15 DEF Disturb, Containers, HasAdmin
  <2>5. Alone'
    BY <2>3 DEF Alone, OthersEarly, Starting
  <2>6. \A o \in Servers : ~server'[o].spoiled => Ahead(o)'
    BY <1>0, <2>3, <2>4 DEF Ahead, LockedOut
  <2> QED BY <2>4, <2>5, <2>6 DEF LoneInv
<1>16. ASSUME UNCHANGED kvars PROVE LoneInv'
  BY <1>16 DEF kvars, LoneInv, LockedOut, HasAdmin, Alone, OthersEarly, Starting, Ahead
<1> QED
  BY <1>1, <1>2, <1>3, <1>4, <1>5, <1>6, <1>7, <1>8, <1>9, <1>10, <1>11, <1>12, <1>13,
     <1>14, <1>15, <1>16 DEF KNext

\* A start that nothing disturbs ends with login on, whatever earlier builds,
\* starts and stops have left behind, but for a password file that was created and
\* never written, and for one made by a checkout that had another password than
\* Keycloak already had (provision, keycloak.rs:148).
THEOREM LoneStarts == KSpec => []LoneStartSucceeds
<1>1. KInv /\ LoneInv => LoneStartSucceeds
  <2> SUFFICES ASSUME KInv, LoneInv PROVE LoneStartSucceeds
    OBVIOUS
  <2>1. KeycloakWellFormed
    BY KeycloakAssumption DEF KeycloakWellFormed, KInv, KTypeOK, LoneInv, Containers, Starts, Known, Passwords
  <2>2. \A s \in Servers : server[s].pc = "open" /\ ~server[s].spoiled =>
          Torn \in {server[s].password, volume.admin} \/ LockedOut
    BY DEF LoneInv, Ahead
  <2> QED BY <2>1, <2>2 DEF LoneStartSucceeds
<1> QED BY KInit_KInv, KInit_LoneInv, KNext_KInv, KNext_LoneInv, <1>1, PTL DEF KSpec

-----------------------------------------------------------------------------
(* Building a project.                                                     *)

Lives == Windows \X Nat
Answers == [ok : BOOLEAN, finished : BOOLEAN, of : Nat, by : Lives \cup {<<>>}]
Slots == [st : {"none", "sent"}] \cup [st : {"served", "ready", "failed"}, ans : Answers]
Panes == [life : Nat, hidden : BOOLEAN, gen : 0..MaxPresses, building : Dirs \cup {"none"},
          slot : Slots, polling : BOOLEAN, due : BOOLEAN, pressed : Nat]
Jobs == [st : {"counting", "building", "reported", "done"}, of : Nat, by : Lives, left : Nat]
Requests == [key : Keys, by : Lives]

BTypeOK ==
  /\ win \in [Windows -> Panes]
  /\ jobs \in [DOMAIN jobs -> Jobs]
  /\ DOMAIN jobs \subseteq Keys
  /\ stray \subseteq Requests
  /\ idle \in [DOMAIN idle -> 0..Ttl]
  /\ DOMAIN idle \subseteq made
  /\ version \in [Dirs -> Nat]
  /\ presses \in 0..MaxPresses

\* A request or a job of a window's present life is for a press it has made.
Before(key, by) ==
  \A w \in Windows : by[1] = w =>
    /\ by[2] <= win[w].life
    /\ by[2] = win[w].life => key[2] <= win[w].gen

PressedBefore ==
  /\ \A k \in DOMAIN jobs : Before(k, jobs[k].by)
  /\ \A r \in stray : Before(r.key, r.by)

\* A window x of a press it has made, of a version that the project has had.
PressMade(x, n, vs) ==
  /\ x.gen <= n
  /\ x.slot.st # "none" => x.building # "none"
  /\ x.building # "none" => x.pressed <= vs[x.building]

\* The job it polls, if it is its own, builds no older version.
JobFresh(w, x, js) ==
  \A k \in DOMAIN js :
    k = <<x.building, x.gen>> /\ js[k].by = <<w, x.life>> /\ js[k].st # "counting" =>
      js[k].of >= x.pressed

\* Nor is the answer it has of one.
AnswerFresh(w, x) ==
  x.slot.st \in {"served", "ready"} /\ x.slot.ans.finished /\ x.slot.ans.by = <<w, x.life>> =>
    x.slot.ans.of >= x.pressed

OwnFresh(w, x, js, vs, n) == PressMade(x, n, vs) /\ JobFresh(w, x, js) /\ AnswerFresh(w, x)

FreshWindow(w) == OwnFresh(w, win[w], jobs, version, presses)

\* A build is over before its folder is: the folder was used when the job began,
\* and what is left to the build is less than what is left to the folder.
Outlasts ==
  \A k \in DOMAIN jobs : jobs[k].st \in {"counting", "building"} =>
    \/ k[1] \in Shared
    \/ /\ k[1] \in DOMAIN idle
       /\ jobs[k].left < idle[k[1]]
       /\ jobs[k].st = "counting" => idle[k[1]] = Ttl

BInv ==
  /\ BTypeOK
  /\ PressedBefore
  /\ \A w \in Windows : FreshWindow(w)
  /\ Outlasts

\* The steps of a window: its record, the requests it leaves, and what was pressed.
Later(x, y) == y.life > x.life \/ (y.life = x.life /\ y.gen >= x.gen)

LEMMA LeftRequests ==
  ASSUME BInv, NEW w \in Windows
  PROVE  LeftAt(w) \subseteq Requests /\ \A r \in LeftAt(w) : Before(r.key, r.by)
<1>1. win[w] \in Panes /\ PressMade(win[w], presses, version)
  BY DEF BInv, BTypeOK, FreshWindow, OwnFresh
<1>2. CASE win[w].slot.st = "sent"
  <2>1. KeyOf(w) \in Keys /\ By(w) \in Lives
    BY <1>1, <1>2 DEF PressMade, Panes, KeyOf, By, Keys, Lives
  <2>2. Before(KeyOf(w), By(w))
    BY <1>1 DEF Before, KeyOf, By, Panes
  <2>3. LeftAt(w) = {[key |-> KeyOf(w), by |-> By(w)]}
    BY <1>2 DEF LeftAt
  <2> QED BY <2>1, <2>2, <2>3 DEF Requests
<1>3. CASE win[w].slot.st # "sent"
  BY <1>3 DEF LeftAt
<1> QED BY <1>2, <1>3

LEMMA BeforeKept ==
  ASSUME NEW w \in Windows, NEW x \in Panes, win \in [Windows -> Panes],
         win' = [win EXCEPT ![w] = x], Later(win[w], x),
         NEW key \in Keys, NEW by \in Lives, Before(key, by)
  PROVE  Before(key, by)'
<1> SUFFICES ASSUME NEW v \in Windows, by[1] = v
             PROVE  /\ by[2] <= win'[v].life
                    /\ by[2] = win'[v].life => key[2] <= win'[v].gen
  BY DEF Before
<1>1. by[2] <= win[v].life /\ (by[2] = win[v].life => key[2] <= win[v].gen)
  BY DEF Before
<1>2. /\ by[2] \in Nat /\ key[2] \in Nat /\ win[v].life \in Nat /\ win[v].gen \in Nat
      /\ x.life \in Nat /\ x.gen \in Nat
  BY BuildsAssumption DEF Lives, Keys, Panes
<1>3. CASE v # w
  <2>1. win'[v] = win[v]
    BY <1>3
  <2> QED BY <1>1, <2>1
<1>4. CASE v = w
  <2>1. win'[v] = x
    BY <1>4
  <2> QED BY <1>1, <1>2, <1>4, <2>1 DEF Later
<1> QED BY <1>3, <1>4

LEMMA WindowStep ==
  ASSUME BInv, NEW w \in Windows, NEW x \in Panes, win' = [win EXCEPT ![w] = x],
         UNCHANGED <<jobs, version>>, presses' \in 0..MaxPresses, presses' >= presses,
         stray' \subseteq stray \cup LeftAt(w), Later(win[w], x), OwnFresh(w, x, jobs', version', presses')
  PROVE  /\ win' \in [Windows -> Panes] /\ stray' \subseteq Requests
         /\ PressedBefore'
         /\ \A v \in Windows : FreshWindow(v)'
<1>1. win \in [Windows -> Panes] /\ stray \subseteq Requests /\ presses \in 0..MaxPresses
  BY DEF BInv, BTypeOK
<1>2. /\ win' \in [Windows -> Panes] /\ win'[w] = x
      /\ \A v \in Windows \ {w} : win'[v] = win[v]
  BY <1>1
<1>3. stray' \subseteq Requests
  BY <1>1, LeftRequests
<1>4. ASSUME NEW key \in Keys, NEW by \in Lives, Before(key, by) PROVE Before(key, by)'
  BY <1>1, <1>4, BeforeKept
<1>5. PressedBefore'
  <2>1. ASSUME NEW k \in DOMAIN jobs PROVE Before(k, jobs[k].by)'
    <3>1. k \in Keys /\ jobs[k].by \in Lives /\ Before(k, jobs[k].by)
      BY DEF BInv, BTypeOK, PressedBefore, Jobs
    <3>2. Before(k, jobs[k].by)'
      BY <1>4, <3>1
    <3> QED BY <3>2
  <2>2. ASSUME NEW r \in stray' PROVE Before(r.key, r.by)'
    <3>1. r.key \in Keys /\ r.by \in Lives
      BY <1>3 DEF Requests
    <3>2. Before(r.key, r.by)
      BY LeftRequests DEF BInv, PressedBefore
    <3> QED BY <1>4, <3>1, <3>2
  <2> QED BY <2>1, <2>2 DEF PressedBefore
<1>6. ASSUME NEW v \in Windows PROVE FreshWindow(v)'
  <2>1. CASE v = w
    BY <1>2, <2>1 DEF FreshWindow
  <2>2. CASE v # w
    <3>1. FreshWindow(v) /\ win'[v] = win[v] /\ win[v] \in Panes
      BY <1>1, <1>2, <2>2 DEF BInv
    <3>2. win[v].gen <= presses'
      BY <1>1, <3>1, BuildsAssumption DEF FreshWindow, OwnFresh, PressMade, Panes
    <3> QED BY <3>1, <3>2 DEF FreshWindow, OwnFresh, PressMade, JobFresh, AnswerFresh
  <2> QED BY <2>1, <2>2
<1> QED BY <1>2, <1>3, <1>5, <1>6

\* The rest of BInv, where no folder goes and no job changes.
LEMMA FoldersKept ==
  ASSUME BInv, UNCHANGED jobs, DOMAIN idle \subseteq DOMAIN idle',
         \A d \in DOMAIN idle : idle'[d] \in {idle[d], Ttl}
  PROVE  Outlasts'
<1> SUFFICES ASSUME NEW k \in DOMAIN jobs, jobs[k].st \in {"counting", "building"},
                    k[1] \notin Shared
             PROVE  /\ k[1] \in DOMAIN idle'
                    /\ jobs[k].left < idle'[k[1]]
                    /\ jobs[k].st = "counting" => idle'[k[1]] = Ttl
  BY DEF Outlasts
<1>1. /\ k[1] \in DOMAIN idle /\ jobs[k].left < idle[k[1]]
      /\ jobs[k].st = "counting" => idle[k[1]] = Ttl
  BY DEF BInv, Outlasts
<1>2. idle[k[1]] \in 0..Ttl /\ jobs[k].left \in Nat
  BY <1>1 DEF BInv, BTypeOK, Jobs
<1> QED BY <1>1, <1>2, BuildsAssumption

\* What a frame makes of a window, but for what it shows.
Same(x, y) ==
  /\ y.life = x.life /\ y.gen = x.gen /\ y.building = x.building /\ y.pressed = x.pressed
  /\ y.slot \in {NoSlot, x.slot} \/ (y.slot = [st |-> "sent"] /\ x.building # "none")

Polls(x, p, d, a) == [x EXCEPT !.polling = p, !.due = d, !.slot = a]

LEMMA PollsPane ==
  ASSUME NEW x \in Panes, NEW p \in BOOLEAN, NEW d \in BOOLEAN, NEW a \in Slots,
         a \in {NoSlot, x.slot} \/ (a = [st |-> "sent"] /\ x.building # "none")
  PROVE  Polls(x, p, d, a) \in Panes /\ Same(x, Polls(x, p, d, a))
BY DEF Panes, Polls, Same

LEMMA PollPane ==
  ASSUME NEW x \in Panes PROVE Poll(x) \in Panes /\ Same(x, Poll(x))
<1> DEFINE sent == [st |-> "sent"]
<1>1. NoSlot \in Slots /\ sent \in Slots
  BY DEF NoSlot, Slots
<1>2. x.slot \in Slots /\ x.due \in BOOLEAN /\ x.polling \in BOOLEAN
  BY DEF Panes
<1>3. \/ Poll(x) = Polls(x, FALSE, FALSE, x.slot)
      \/ x.building # "none" /\ Poll(x) = Polls(x, TRUE, x.due, sent)
      \/ Poll(x) = Polls(x, TRUE, x.due, NoSlot)
      \/ Poll(x) = Polls(x, TRUE, x.due, x.slot)
  BY DEF Poll, Polls, Panes
<1>4. CASE Poll(x) = Polls(x, FALSE, FALSE, x.slot)
  BY <1>2, <1>4, PollsPane
<1>5. CASE x.building # "none" /\ Poll(x) = Polls(x, TRUE, x.due, sent)
  BY <1>1, <1>2, <1>5, PollsPane
<1>6. CASE Poll(x) = Polls(x, TRUE, x.due, NoSlot)
  BY <1>1, <1>2, <1>6, PollsPane
<1>7. CASE Poll(x) = Polls(x, TRUE, x.due, x.slot)
  BY <1>2, <1>7, PollsPane
<1> QED BY <1>3, <1>4, <1>5, <1>6, <1>7

LEMMA SameOwnFresh ==
  ASSUME NEW w, NEW x, NEW y, NEW js, NEW vs, NEW n, Same(x, y), OwnFresh(w, x, js, vs, n)
  PROVE  OwnFresh(w, y, js, vs, n)
BY DEF Same, FreshWindow, OwnFresh, PressMade, JobFresh, AnswerFresh, NoSlot

LEMMA FrameOfOK ==
  ASSUME BInv, NEW w \in Windows, FrameOf(w) PROVE BInv'
<1> DEFINE x == Poll(win[w])
<1>1. win[w] \in Panes /\ FreshWindow(w) /\ presses \in 0..MaxPresses
  BY DEF BInv, BTypeOK
<1>2. x \in Panes /\ Same(win[w], x)
  BY <1>1, PollPane
<1>3. win' = [win EXCEPT ![w] = x] /\ UNCHANGED <<jobs, stray, idle, made, version, presses>>
  BY DEF FrameOf
<1> HIDE DEF x
<1>4. OwnFresh(w, x, jobs, version, presses)
  BY <1>1, <1>2, SameOwnFresh DEF FreshWindow
<1>5. OwnFresh(w, x, jobs', version', presses')
  BY <1>3, <1>4
<1>6. Later(win[w], x)
  BY <1>1, <1>2, BuildsAssumption DEF Same, Later, Panes
<1>7. presses' >= presses /\ presses' \in 0..MaxPresses
  BY <1>1, <1>3, BuildsAssumption
<1>8. Outlasts'
  BY <1>3, FoldersKept
<1>9. stray' \subseteq stray \cup LeftAt(w)
  BY <1>3
<1>10. /\ win' \in [Windows -> Panes] /\ stray' \subseteq Requests /\ PressedBefore'
       /\ \A v \in Windows : FreshWindow(v)'
  BY <1>2, <1>3, <1>5, <1>6, <1>7, <1>9, WindowStep
<1> QED BY <1>3, <1>7, <1>8, <1>10 DEF BInv, BTypeOK

\* What a press may make of a window.
LEMMA DoesOK ==
  ASSUME BInv, NEW w \in Windows, NEW x \in Panes, Does(w, x),
         UNCHANGED <<jobs, version>>, Later(win[w], x), OwnFresh(w, x, jobs', version', presses')
  PROVE  /\ win' \in [Windows -> Panes] /\ stray' \subseteq Requests
         /\ presses' \in 0..MaxPresses
         /\ PressedBefore'
         /\ \A v \in Windows : FreshWindow(v)'
<1>1. presses \in 0..MaxPresses
  BY DEF BInv, BTypeOK
<1>2. /\ win' = [win EXCEPT ![w] = x] /\ presses' >= presses /\ presses' \in 0..MaxPresses
      /\ stray' \subseteq stray \cup LeftAt(w)
  BY <1>1, BuildsAssumption DEF Does
<1> QED BY <1>2, WindowStep

LEMMA BuildOK ==
  ASSUME BInv, NEW w \in Windows, NEW d \in Dirs, Build(w, d) PROVE BInv'
<1> DEFINE p == Press(win[w], d)
           x == Poll(p)
<1>1. win[w] \in Panes /\ FreshWindow(w) /\ presses \in 0..MaxPresses
      /\ version \in [Dirs -> Nat]
  BY DEF BInv, BTypeOK
<1>2. Does(w, x) /\ UNCHANGED <<jobs, idle, made, version>> /\ presses < MaxPresses
      /\ presses' = presses + 1
  BY DEF Build, Does
<1>3. d # "none" /\ NoSlot \in Slots
  BY BuildsAssumption DEF Dirs, NoSlot, Slots
<1>4. win[w].gen + 1 \in 0..MaxPresses /\ win[w].gen + 1 <= presses' /\ win[w].gen \in Nat
  BY <1>1, <1>2, BuildsAssumption DEF FreshWindow, OwnFresh, PressMade, Panes
<1>5. /\ p \in Panes /\ p.life = win[w].life /\ p.gen = win[w].gen + 1 /\ p.building = d
      /\ p.pressed = version[d] /\ p.slot = NoSlot
  <2> DEFINE n == win[w].gen + 1
             v == version[d]
  <2>1. p = [win[w] EXCEPT !.building = d, !.gen = n, !.slot = NoSlot, !.pressed = v]
    BY DEF Press
  <2>2. n \in 0..MaxPresses /\ v \in Nat /\ n = win[w].gen + 1 /\ v = version[d]
    BY <1>1, <1>4
  <2> HIDE DEF n, v
  <2>3. /\ p \in Panes /\ p.life = win[w].life /\ p.gen = n /\ p.building = d
        /\ p.pressed = v /\ p.slot = NoSlot
    BY <1>1, <1>3, <2>1, <2>2 DEF Panes
  <2> QED BY <2>2, <2>3
<1> HIDE DEF p
<1>6. x \in Panes /\ Same(p, x)
  BY <1>5, PollPane
<1> HIDE DEF x
<1>7. OwnFresh(w, p, jobs', version', presses')
  <2>1. PressMade(p, presses', version')
    BY <1>1, <1>2, <1>3, <1>4, <1>5 DEF PressMade, NoSlot
  <2>2. JobFresh(w, p, jobs')
    <3> SUFFICES ASSUME NEW k \in DOMAIN jobs, k = <<p.building, p.gen>>,
                        jobs[k].by = <<w, p.life>>
                 PROVE  FALSE
      BY <1>2 DEF JobFresh
    <3>1. Before(k, jobs[k].by)
      BY DEF BInv, PressedBefore
    <3>2. k[2] <= win[w].gen
      BY <1>5, <3>1 DEF Before
    <3> QED BY <1>4, <1>5, <3>2
  <2>3. AnswerFresh(w, p)
    BY <1>5 DEF AnswerFresh, NoSlot
  <2> QED BY <2>1, <2>2, <2>3 DEF FreshWindow, OwnFresh
<1>8. OwnFresh(w, x, jobs', version', presses')
  BY <1>6, <1>7, SameOwnFresh
<1>9. Later(win[w], x)
  BY <1>4, <1>5, <1>6 DEF Same, Later
<1>10. /\ win' \in [Windows -> Panes] /\ stray' \subseteq Requests /\ presses' \in 0..MaxPresses
       /\ PressedBefore' /\ \A v \in Windows : FreshWindow(v)'
  BY <1>2, <1>6, <1>8, <1>9, DoesOK
<1>11. Outlasts'
  BY <1>2, FoldersKept
<1> QED BY <1>2, <1>10, <1>11 DEF BInv, BTypeOK

LEMMA UploadOK ==
  ASSUME BInv, NEW w \in Windows, NEW d \in Dirs, Upload(w, d) PROVE BInv'
<1> DEFINE p == Open(win[w])
           x == Poll(p)
<1>1. win[w] \in Panes /\ FreshWindow(w) /\ presses \in 0..MaxPresses
  BY DEF BInv, BTypeOK
<1>2. /\ Does(w, x) /\ UNCHANGED <<jobs, version>> /\ presses' = presses + 1
      /\ d \in Scratch \ made /\ made' = made \cup {d} /\ idle' = With(idle, d, Ttl)
  BY DEF Upload, Does
<1>3. /\ p \in Panes /\ p.life = win[w].life /\ p.gen = win[w].gen /\ p.building = "none"
      /\ p.slot = NoSlot
  <2>1. NoSlot \in Slots
    BY DEF NoSlot, Slots
  <2> QED BY <1>1, <2>1 DEF Open, Panes
<1>4. d \notin DOMAIN idle
  BY <1>2 DEF BInv, BTypeOK
<1>5. /\ DOMAIN idle' = DOMAIN idle \cup {d} /\ idle'[d] = Ttl
      /\ \A z \in DOMAIN idle : idle'[z] = idle[z]
  BY <1>2, <1>4 DEF With
<1>6. idle' \in [DOMAIN idle' -> 0..Ttl] /\ DOMAIN idle' \subseteq made'
  <2>1. Ttl \in 0..Ttl
    BY BuildsAssumption
  <2> QED BY <1>2, <1>5, <2>1 DEF With, BInv, BTypeOK
<1> HIDE DEF p
<1>7. x \in Panes /\ Same(p, x)
  BY <1>3, PollPane
<1> HIDE DEF x
<1>8. OwnFresh(w, p, jobs', version', presses')
  <2>1. PressMade(p, presses', version')
    BY <1>1, <1>2, <1>3, BuildsAssumption DEF FreshWindow, OwnFresh, PressMade, NoSlot, Panes
  <2>2. JobFresh(w, p, jobs')
    <3> SUFFICES ASSUME NEW k \in DOMAIN jobs, k = <<p.building, p.gen>> PROVE FALSE
      BY <1>2 DEF JobFresh
    <3> QED BY <1>3, BuildsAssumption DEF BInv, BTypeOK, Keys, Dirs
  <2>3. AnswerFresh(w, p)
    BY <1>3 DEF AnswerFresh, NoSlot
  <2> QED BY <2>1, <2>2, <2>3 DEF FreshWindow, OwnFresh
<1>9. OwnFresh(w, x, jobs', version', presses')
  BY <1>7, <1>8, SameOwnFresh
<1>10. Later(win[w], x)
  BY <1>1, <1>3, <1>7, BuildsAssumption DEF Same, Later, Panes
<1>11. /\ win' \in [Windows -> Panes] /\ stray' \subseteq Requests /\ presses' \in 0..MaxPresses
       /\ PressedBefore' /\ \A v \in Windows : FreshWindow(v)'
  BY <1>2, <1>7, <1>9, <1>10, DoesOK
<1>12. Outlasts'
  BY <1>2, <1>5, FoldersKept
<1> QED BY <1>2, <1>6, <1>11, <1>12 DEF BInv, BTypeOK

LEMMA ReopenOK ==
  ASSUME BInv, NEW w \in Windows, Reopen(w) PROVE BInv'
<1> DEFINE x == NewWindow(win[w].life + 1)
<1>1. win[w] \in Panes /\ win[w].life \in Nat /\ presses \in 0..MaxPresses
  BY DEF BInv, BTypeOK, Panes
<1>2. Does(w, x) /\ UNCHANGED <<jobs, idle, made, version>> /\ presses' = presses + 1
  BY DEF Reopen, Does
<1>3. /\ x \in Panes /\ x.life = win[w].life + 1 /\ x.gen = 0 /\ x.building = "none"
      /\ x.slot = NoSlot
  BY <1>1, BuildsAssumption DEF NewWindow, Panes, NoSlot, Slots
<1> HIDE DEF x
<1>4. OwnFresh(w, x, jobs', version', presses')
  <2>1. \A k \in DOMAIN jobs : k # <<x.building, x.gen>>
    BY <1>3, BuildsAssumption DEF BInv, BTypeOK, Keys, Dirs
  <2> QED BY <1>1, <1>2, <1>3, <2>1, BuildsAssumption
        DEF FreshWindow, OwnFresh, PressMade, JobFresh, AnswerFresh, NoSlot
<1>5. Later(win[w], x)
  BY <1>1, <1>3 DEF Later
<1>6. /\ win' \in [Windows -> Panes] /\ stray' \subseteq Requests /\ presses' \in 0..MaxPresses
      /\ PressedBefore' /\ \A v \in Windows : FreshWindow(v)'
  BY <1>2, <1>3, <1>4, <1>5, DoesOK
<1>7. Outlasts'
  BY <1>2, FoldersKept
<1> QED BY <1>2, <1>6, <1>7 DEF BInv, BTypeOK

\* A step that changes what a window shows, and nothing that was pressed.
LEMMA ShownOK ==
  ASSUME BInv, NEW w \in Windows, NEW x \in Panes, win' = [win EXCEPT ![w] = x],
         UNCHANGED <<jobs, idle, made, version>>, presses' \in 0..MaxPresses,
         presses' >= presses, stray' \subseteq stray \cup LeftAt(w),
         x.life = win[w].life, x.gen = win[w].gen,
         OwnFresh(w, x, jobs, version, presses)
  PROVE  BInv'
<1>1. win[w] \in Panes /\ x.gen \in Nat /\ presses \in Nat
  BY BuildsAssumption DEF BInv, BTypeOK, Panes
<1>2. OwnFresh(w, x, jobs', version', presses')
  BY <1>1, BuildsAssumption DEF OwnFresh, PressMade
<1>3. Later(win[w], x)
  BY <1>1 DEF Later
<1>4. /\ win' \in [Windows -> Panes] /\ stray' \subseteq Requests /\ PressedBefore'
      /\ \A v \in Windows : FreshWindow(v)'
  BY <1>2, <1>3, WindowStep
<1>5. Outlasts'
  BY FoldersKept
<1> QED BY <1>4, <1>5 DEF BInv, BTypeOK

Hides(x, h) == [x EXCEPT !.hidden = h]

LEMMA MinimiseOK ==
  ASSUME BInv, NEW w \in Windows, Minimise(w) PROVE BInv'
<1> DEFINE x == Hides(win[w], ~win[w].hidden)
<1>1. win[w] \in Panes /\ FreshWindow(w) /\ presses \in 0..MaxPresses
  BY DEF BInv, BTypeOK
<1>2. /\ win' = [win EXCEPT ![w] = x] /\ UNCHANGED <<jobs, stray, idle, made, version>>
      /\ presses' = presses + 1 /\ presses < MaxPresses
  BY Zenon DEF Minimise, Hides
<1>3. \A h \in BOOLEAN : LET y == Hides(win[w], h) IN
        /\ y \in Panes /\ y.life = win[w].life /\ y.gen = win[w].gen
        /\ y.building = win[w].building /\ y.pressed = win[w].pressed /\ y.slot = win[w].slot
  BY <1>1 DEF Hides, Panes
<1>4. /\ x \in Panes /\ x.life = win[w].life /\ x.gen = win[w].gen
      /\ x.building = win[w].building /\ x.pressed = win[w].pressed /\ x.slot = win[w].slot
  BY <1>3
<1> HIDE DEF x
<1>5. OwnFresh(w, x, jobs, version, presses)
  BY <1>1, <1>4 DEF FreshWindow, OwnFresh, PressMade, JobFresh, AnswerFresh
<1>6. presses' \in 0..MaxPresses /\ presses' >= presses
  BY <1>1, <1>2, BuildsAssumption
<1> QED BY <1>2, <1>4, <1>5, <1>6, ShownOK

LEMMA HeardPane ==
  ASSUME NEW x \in Panes, NEW ans \in Answers
  PROVE  LET y == Heard(x, ans) IN
         /\ y \in Panes /\ y.life = x.life /\ y.gen = x.gen /\ y.building = x.building
         /\ y.pressed = x.pressed
         /\ y.slot = Slot(IF ans.ok THEN "ready" ELSE "failed", ans)
<1> DEFINE a == Slot(IF ans.ok THEN "ready" ELSE "failed", ans)
<1>1. a \in Slots
  BY DEF Slot, Slots
<1>2. Heard(x, ans) = [x EXCEPT !.due = FALSE, !.slot = a]
  BY DEF Heard
<1> HIDE DEF a
<1>3. /\ Heard(x, ans) \in Panes /\ Heard(x, ans).life = x.life /\ Heard(x, ans).gen = x.gen
      /\ Heard(x, ans).building = x.building /\ Heard(x, ans).pressed = x.pressed
      /\ Heard(x, ans).slot = a
  BY <1>1, <1>2 DEF Panes
<1> QED BY <1>3 DEF a

\* A window that hears what its poll was answered.
LEMMA HeardOK ==
  ASSUME BInv, NEW w \in Windows, NEW ans \in Answers,
         win' = [win EXCEPT ![w] = Heard(win[w], ans)],
         UNCHANGED <<jobs, idle, made, version, presses>>,
         stray' \subseteq stray \cup LeftAt(w),
         win[w].slot.st \in {"sent", "served"},
         ans.finished /\ ans.by = <<w, win[w].life>> => ans.of >= win[w].pressed
  PROVE  BInv'
<1> DEFINE x == Heard(win[w], ans)
<1>1. win[w] \in Panes /\ FreshWindow(w) /\ presses \in 0..MaxPresses
  BY DEF BInv, BTypeOK
<1>2. /\ x \in Panes /\ x.life = win[w].life /\ x.gen = win[w].gen
      /\ x.building = win[w].building /\ x.pressed = win[w].pressed
      /\ x.slot = Slot(IF ans.ok THEN "ready" ELSE "failed", ans)
  BY <1>1, HeardPane
<1>3. win' = [win EXCEPT ![w] = x]
  OBVIOUS
<1> HIDE DEF x
<1>4. x.slot.ans = ans
  BY <1>2 DEF Slot
<1>5. OwnFresh(w, x, jobs, version, presses)
  BY <1>1, <1>2, <1>4 DEF FreshWindow, OwnFresh, PressMade, JobFresh, AnswerFresh
<1>6. presses' \in 0..MaxPresses /\ presses' >= presses
  BY <1>1, BuildsAssumption
<1> QED BY <1>2, <1>3, <1>5, <1>6, ShownOK

LEMMA AnswerOK ==
  ASSUME BInv, NEW w \in Windows, Answer(w) PROVE BInv'
<1>1. win[w] \in Panes /\ FreshWindow(w)
  BY DEF BInv, BTypeOK
<1>2. /\ win[w].slot.st = "served" /\ win' = [win EXCEPT ![w] = Heard(win[w], win[w].slot.ans)]
      /\ UNCHANGED <<jobs, stray, idle, made, version, presses>>
  BY DEF Answer
<1>3. win[w].slot.ans \in Answers
  BY <1>1, <1>2 DEF Panes, Slots
<1>4. AnswerFresh(w, win[w])
  BY <1>1 DEF FreshWindow, OwnFresh
<1>5. stray' \subseteq stray \cup LeftAt(w)
  BY <1>2
<1> QED BY <1>2, <1>3, <1>4, <1>5, HeardOK DEF AnswerFresh

LEMMA FailPollOK ==
  ASSUME BInv, NEW w \in Windows, FailPoll(w) PROVE BInv'
<1>1. /\ win[w].slot.st \in {"sent", "served"}
      /\ win' = [win EXCEPT ![w] = Heard(win[w], Refused)]
      /\ UNCHANGED <<jobs, idle, made, version, presses>> /\ stray' = stray \cup LeftAt(w)
  BY DEF FailPoll
<1>2. Refused \in Answers /\ Refused.finished = FALSE
  BY DEF Refused, Answers
<1> QED BY <1>1, <1>2, HeardOK

-----------------------------------------------------------------------------
(* The server's steps. *)

LEMMA TouchedIdle ==
  ASSUME BTypeOK, NEW d
  PROVE  /\ DOMAIN Touched(d) = DOMAIN idle
         /\ Touched(d) \in [DOMAIN idle -> 0..Ttl]
         /\ \A e \in DOMAIN idle : Touched(d)[e] \in {idle[e], Ttl}
         /\ d \in DOMAIN idle => Touched(d)[d] = Ttl
<1>1. Ttl \in 0..Ttl /\ idle \in [DOMAIN idle -> 0..Ttl]
  BY BuildsAssumption DEF BTypeOK
<1>2. CASE d \in DOMAIN idle
  <2>1. Touched(d) = [idle EXCEPT ![d] = Ttl]
    BY <1>2 DEF Touched
  <2> QED BY <1>1, <1>2, <2>1
<1>3. CASE d \notin DOMAIN idle
  BY <1>1, <1>3 DEF Touched
<1> QED BY <1>2, <1>3

\* Taking the job for a key: every job is one there was, or a new one for the key,
\* whose folder was just used.
LEMMA CompileJobs ==
  ASSUME BTypeOK, NEW key \in Keys, NEW by \in Lives, Compile(key, by)
  PROVE  /\ \A k \in DOMAIN jobs' : \/ k \in DOMAIN jobs /\ jobs'[k] = jobs[k]
                                    \/ k = key /\ jobs'[k] = NewJob(by) /\ There(key[1])
         /\ jobs' \in [DOMAIN jobs' -> Jobs] /\ DOMAIN jobs' \subseteq Keys
         /\ There(key[1]) => key \in DOMAIN jobs'
<1>1. CASE ~There(key[1])
  BY <1>1 DEF Compile, BTypeOK
<1>2. CASE There(key[1]) /\ key \in DOMAIN Swept
  BY <1>2 DEF Compile, BTypeOK, Swept
<1>3. CASE There(key[1]) /\ key \notin DOMAIN Swept
  <2>1. jobs' = With(Swept, key, NewJob(by))
    BY <1>3 DEF Compile
  <2>2. NewJob(by) \in Jobs
    BY DEF NewJob, Jobs
  <2>3. /\ DOMAIN Swept \subseteq DOMAIN jobs
        /\ \A k \in DOMAIN Swept : Swept[k] = jobs[k]
    BY DEF Swept
  <2>4. DOMAIN jobs' = DOMAIN Swept \cup {key}
    BY <2>1 DEF With
  <2>5. \A k \in DOMAIN jobs' : jobs'[k] = IF k = key THEN NewJob(by) ELSE Swept[k]
    BY <2>1 DEF With
  <2>6. jobs' = [k \in DOMAIN jobs' |-> IF k = key THEN NewJob(by) ELSE Swept[k]]
    BY <2>1, <2>4 DEF With
  <2>7. \A k \in DOMAIN jobs' : jobs'[k] \in Jobs
    BY <2>2, <2>3, <2>4, <2>5 DEF BTypeOK
  <2>8. DOMAIN jobs' \subseteq Keys
    BY <2>3, <2>4 DEF BTypeOK
  <2> HIDE DEF Swept
  <2> QED BY <1>3, <2>3, <2>4, <2>5, <2>6, <2>7, <2>8
<1> QED BY <1>1, <1>2, <1>3

LEMMA CompileKeeps ==
  ASSUME BInv, NEW key \in Keys, NEW by \in Lives, Compile(key, by), Before(key, by)
  PROVE  /\ \A k \in DOMAIN jobs' : Before(k, jobs'[k].by)
         /\ Outlasts'
         /\ \A w \in Windows : JobFresh(w, win[w], jobs')
         /\ idle' \in [DOMAIN idle' -> 0..Ttl] /\ DOMAIN idle' = DOMAIN idle
<1>1. \A k \in DOMAIN jobs' : \/ k \in DOMAIN jobs /\ jobs'[k] = jobs[k]
                              \/ k = key /\ jobs'[k] = NewJob(by) /\ There(key[1])
  BY CompileJobs DEF BInv
<1>2. /\ idle' \in [DOMAIN idle' -> 0..Ttl] /\ DOMAIN idle' = DOMAIN idle
      /\ \A e \in DOMAIN idle : idle'[e] \in {idle[e], Ttl}
      /\ key[1] \in DOMAIN idle => idle'[key[1]] = Ttl
  BY TouchedIdle DEF BInv, Compile
<1>3. NewJob(by).by = by /\ NewJob(by).st = "counting" /\ NewJob(by).left = 0
  BY DEF NewJob
<1>4. \A k \in DOMAIN jobs' : Before(k, jobs'[k].by)
  BY <1>1, <1>3 DEF BInv, PressedBefore
<1>5. \A w \in Windows : JobFresh(w, win[w], jobs')
  <2> SUFFICES ASSUME NEW w \in Windows, NEW k \in DOMAIN jobs',
                      k = <<win[w].building, win[w].gen>>, jobs'[k].by = <<w, win[w].life>>,
                      jobs'[k].st # "counting"
               PROVE  jobs'[k].of >= win[w].pressed
    BY DEF JobFresh
  <2>1. k \in DOMAIN jobs /\ jobs'[k] = jobs[k]
    BY <1>1, <1>3
  <2>2. JobFresh(w, win[w], jobs)
    BY DEF BInv, FreshWindow, OwnFresh
  <2> QED BY <2>1, <2>2 DEF JobFresh
<1>6. Outlasts'
  <2> SUFFICES ASSUME NEW k \in DOMAIN jobs', jobs'[k].st \in {"counting", "building"},
                      k[1] \notin Shared
               PROVE  /\ k[1] \in DOMAIN idle'
                      /\ jobs'[k].left < idle'[k[1]]
                      /\ jobs'[k].st = "counting" => idle'[k[1]] = Ttl
    BY DEF Outlasts
  <2>1. CASE k \in DOMAIN jobs /\ jobs'[k] = jobs[k]
    <3>1. /\ k[1] \in DOMAIN idle /\ jobs[k].left < idle[k[1]]
          /\ jobs[k].st = "counting" => idle[k[1]] = Ttl
      BY <2>1 DEF BInv, Outlasts
    <3>2. idle[k[1]] \in 0..Ttl /\ jobs[k].left \in Nat
      BY <2>1, <3>1 DEF BInv, BTypeOK, Jobs
    <3> QED BY <1>2, <2>1, <3>1, <3>2, BuildsAssumption
  <2>2. CASE k = key /\ jobs'[k] = NewJob(by) /\ There(key[1])
    BY <1>2, <1>3, <2>2, BuildsAssumption DEF There
  <2> QED BY <1>1, <2>1, <2>2
<1> QED BY <1>2, <1>4, <1>5, <1>6

LEMMA ServeOK ==
  ASSUME BInv, NEW w \in Windows, Serve(w) PROVE BInv'
<1> DEFINE ans == Snapshot(KeyOf(w))
           a == Slot("served", ans)
           x == [win[w] EXCEPT !.slot = a]
<1>1. /\ win[w] \in Panes /\ win \in [Windows -> Panes] /\ FreshWindow(w)
      /\ stray \subseteq Requests /\ BTypeOK
  BY DEF BInv, BTypeOK
<1>2. /\ win[w].slot.st = "sent" /\ Compile(KeyOf(w), By(w)) /\ win' = [win EXCEPT ![w] = x]
      /\ UNCHANGED <<stray, made, version, presses>>
  BY DEF Serve
<1>3. KeyOf(w) \in Keys /\ By(w) \in Lives /\ Before(KeyOf(w), By(w))
  <2>1. [key |-> KeyOf(w), by |-> By(w)] \in LeftAt(w)
    BY <1>2 DEF LeftAt
  <2>2. [key |-> KeyOf(w), by |-> By(w)] \in Requests
    BY <2>1, LeftRequests
  <2>3. Before(KeyOf(w), By(w))
    BY <2>1, LeftRequests
  <2> QED BY <2>2, <2>3 DEF Requests
<1>4. /\ jobs' \in [DOMAIN jobs' -> Jobs] /\ DOMAIN jobs' \subseteq Keys
      /\ There(KeyOf(w)[1]) => KeyOf(w) \in DOMAIN jobs'
  BY <1>1, <1>2, <1>3, CompileJobs
<1>5. /\ \A k \in DOMAIN jobs' : Before(k, jobs'[k].by)
      /\ Outlasts'
      /\ \A v \in Windows : JobFresh(v, win[v], jobs')
      /\ idle' \in [DOMAIN idle' -> 0..Ttl] /\ DOMAIN idle' = DOMAIN idle
  BY <1>2, <1>3, CompileKeeps
<1>6. ans \in Answers /\ (ans.finished /\ ans.by = <<w, win[w].life>> => ans.of >= win[w].pressed)
  <2>1. CASE ~There(KeyOf(w)[1])
    BY <2>1 DEF Snapshot, Refused, Answers
  <2>2. CASE There(KeyOf(w)[1])
    <3> DEFINE build == jobs'[KeyOf(w)]
    <3>1. build \in Jobs /\ KeyOf(w) \in DOMAIN jobs'
      BY <1>4, <2>2
    <3>2. ans = [ok |-> TRUE, finished |-> build.st \in {"reported", "done"}, of |-> build.of,
                 by |-> build.by]
      BY <2>2 DEF Snapshot
    <3>3. build.st # "counting" /\ build.by = <<w, win[w].life>> => build.of >= win[w].pressed
      BY <1>5, <3>1 DEF JobFresh, KeyOf
    <3> HIDE DEF build, ans
    <3>4. build.of \in Nat /\ build.by \in Lives
      BY <3>1 DEF Jobs
    <3>5. CASE build.st \in {"reported", "done"}
      <4>1. ans = [ok |-> TRUE, finished |-> TRUE, of |-> build.of, by |-> build.by]
        BY <3>2, <3>5, Zenon
      <4> QED BY <3>3, <3>4, <3>5, <4>1 DEF Answers
    <3>6. CASE build.st \notin {"reported", "done"}
      <4>1. ans = [ok |-> TRUE, finished |-> FALSE, of |-> build.of, by |-> build.by]
        <5>1. (build.st \in {"reported", "done"}) = FALSE
          BY <3>6
        <5> QED BY <3>2, <5>1, Zenon
      <4> QED BY <3>4, <4>1 DEF Answers
    <3> QED BY <3>5, <3>6
  <2> QED BY <2>1, <2>2
<1> HIDE DEF ans
<1>7. a \in Slots /\ a.st = "served" /\ a.ans = ans
  BY <1>6 DEF Slot, Slots
<1> HIDE DEF a
<1>8. /\ x \in Panes /\ x.life = win[w].life /\ x.gen = win[w].gen
      /\ x.building = win[w].building /\ x.pressed = win[w].pressed /\ x.slot = a
  BY <1>1, <1>7 DEF Panes
<1> HIDE DEF x
<1>9. OwnFresh(w, x, jobs', version', presses')
  <2>1. PressMade(x, presses', version')
    BY <1>1, <1>2, <1>8 DEF FreshWindow, OwnFresh, PressMade
  <2>2. JobFresh(w, x, jobs')
    BY <1>5, <1>8 DEF JobFresh
  <2>3. AnswerFresh(w, x)
    BY <1>6, <1>7, <1>8 DEF AnswerFresh
  <2> QED BY <2>1, <2>2, <2>3 DEF OwnFresh
<1>10. /\ win' \in [Windows -> Panes] /\ win'[w] = x
       /\ \A v \in Windows \ {w} : win'[v] = win[v]
  BY <1>1, <1>2, <1>8
<1>11. \A v \in Windows : FreshWindow(v)'
  <2> SUFFICES ASSUME NEW v \in Windows PROVE OwnFresh(v, win'[v], jobs', version', presses')
    BY DEF FreshWindow
  <2>1. CASE v = w
    BY <1>9, <1>10, <2>1
  <2>2. CASE v # w
    <3>1. FreshWindow(v) /\ win'[v] = win[v] /\ JobFresh(v, win[v], jobs')
      BY <1>5, <1>10, <2>2 DEF BInv
    <3> QED BY <1>2, <3>1 DEF FreshWindow, OwnFresh, PressMade
  <2> QED BY <2>1, <2>2
<1>12. Later(win[w], x)
  BY <1>1, <1>8, BuildsAssumption DEF Later, Panes
<1>13. PressedBefore'
  <2>1. ASSUME NEW k \in DOMAIN jobs', NEW v \in Windows, jobs'[k].by[1] = v
        PROVE  /\ jobs'[k].by[2] <= win'[v].life
               /\ jobs'[k].by[2] = win'[v].life => k[2] <= win'[v].gen
    <3> DEFINE b == jobs'[k].by
    <3>1. k \in Keys /\ b \in Lives /\ Before(k, b)
      BY <1>4, <1>5 DEF Jobs
    <3> HIDE DEF b
    <3>2. \A u \in Windows : b[1] = u =>
            b[2] <= win'[u].life /\ (b[2] = win'[u].life => k[2] <= win'[u].gen)
      BY <1>1, <1>2, <1>8, <1>12, <3>1, BeforeKept DEF Before
    <3> QED BY <2>1, <3>2 DEF b
  <2>2. ASSUME NEW r \in stray' PROVE Before(r.key, r.by)'
    <3>1. r.key \in Keys /\ r.by \in Lives /\ Before(r.key, r.by)
      BY <1>1, <1>2 DEF Requests, BInv, PressedBefore
    <3> QED BY <1>1, <1>2, <1>8, <1>12, <3>1, BeforeKept
  <2> QED BY <2>1, <2>2 DEF PressedBefore, Before
<1> QED BY <1>1, <1>2, <1>4, <1>5, <1>10, <1>11, <1>13 DEF BInv, BTypeOK

LEMMA ServeStrayOK ==
  ASSUME BInv, NEW r \in stray, ServeStray(r) PROVE BInv'
<1>1. Compile(r.key, r.by) /\ stray' = stray \ {r} /\ UNCHANGED <<win, made, version, presses>>
  BY DEF ServeStray
<1>2. r.key \in Keys /\ r.by \in Lives /\ Before(r.key, r.by) /\ BTypeOK
  BY DEF BInv, BTypeOK, PressedBefore, Requests
<1>3. jobs' \in [DOMAIN jobs' -> Jobs] /\ DOMAIN jobs' \subseteq Keys
  BY <1>1, <1>2, CompileJobs
<1>4. /\ \A k \in DOMAIN jobs' : Before(k, jobs'[k].by)
      /\ Outlasts'
      /\ \A v \in Windows : JobFresh(v, win[v], jobs')
      /\ idle' \in [DOMAIN idle' -> 0..Ttl] /\ DOMAIN idle' = DOMAIN idle
  BY <1>1, <1>2, CompileKeeps
<1>5. \A v \in Windows : FreshWindow(v)'
  BY <1>1, <1>4 DEF BInv, FreshWindow, OwnFresh, PressMade
<1>6. PressedBefore'
  BY <1>1, <1>4 DEF BInv, PressedBefore, Before
<1> QED BY <1>1, <1>2, <1>3, <1>4, <1>5, <1>6 DEF BInv, BTypeOK

\* A step of one job: of its thread or of cargo.
LEMMA JobStepOK ==
  ASSUME BInv, NEW k \in DOMAIN jobs, NEW build \in Jobs, Becomes(k, build), build.by = jobs[k].by,
         \/ jobs[k].st # "counting" /\ build.of = jobs[k].of
         \/ build.of >= version[k[1]],
         \/ build.st \in {"reported", "done"}
         \/ /\ build.st = "building"
            /\ k[1] \in Shared \/ (k[1] \in DOMAIN idle /\ build.left < idle[k[1]])
  PROVE  BInv'
<1>1. /\ jobs \in [DOMAIN jobs -> Jobs] /\ DOMAIN jobs \subseteq Keys
      /\ win \in [Windows -> Panes] /\ version \in [Dirs -> Nat]
  BY DEF BInv, BTypeOK
<1>2. jobs' = [jobs EXCEPT ![k] = build]
      /\ UNCHANGED <<win, stray, idle, made, version, presses>>
  BY DEF Becomes
<1>3. /\ DOMAIN jobs' = DOMAIN jobs /\ jobs' \in [DOMAIN jobs' -> Jobs] /\ jobs'[k] = build
      /\ \A i \in DOMAIN jobs \ {k} : jobs'[i] = jobs[i]
  BY <1>1, <1>2
<1>4. PressedBefore'
  <2>1. \A i \in DOMAIN jobs : jobs'[i].by = jobs[i].by
    BY <1>3
  <2> QED BY <1>2, <1>3, <2>1 DEF BInv, PressedBefore, Before
<1>5. ASSUME NEW w \in Windows PROVE FreshWindow(w)'
  <2>1. OwnFresh(w, win[w], jobs, version, presses) /\ win[w] \in Panes
    BY <1>1 DEF BInv, FreshWindow
  <2>2. JobFresh(w, win[w], jobs')
    <3> SUFFICES ASSUME NEW i \in DOMAIN jobs, i = <<win[w].building, win[w].gen>>,
                        jobs'[i].by = <<w, win[w].life>>, jobs'[i].st # "counting"
                 PROVE  jobs'[i].of >= win[w].pressed
      BY <1>3 DEF JobFresh
    <3>1. CASE i # k \/ (jobs[k].st # "counting" /\ build.of = jobs[k].of)
      <4>1. jobs[i].by = <<w, win[w].life>> /\ jobs[i].st # "counting"
            /\ jobs'[i].of = jobs[i].of
        BY <1>3, <3>1
      <4> QED BY <2>1, <4>1 DEF OwnFresh, JobFresh
    <3>2. CASE i = k /\ build.of >= version[k[1]]
      <4>1. k[1] \in Dirs /\ k[1] = win[w].building /\ k[1] # "none"
        BY <1>1, <3>2, BuildsAssumption DEF Keys, Dirs
      <4>2. win[w].pressed <= version[k[1]]
        BY <2>1, <4>1 DEF OwnFresh, PressMade
      <4>3. version[k[1]] \in Nat /\ win[w].pressed \in Nat /\ build.of \in Nat
        BY <1>1, <2>1, <4>1 DEF Panes, Jobs
      <4> QED BY <1>3, <3>2, <4>2, <4>3
    <3> QED BY <3>1, <3>2
  <2> QED BY <1>2, <2>1, <2>2 DEF FreshWindow, OwnFresh
<1>6. Outlasts'
  <2> SUFFICES ASSUME NEW i \in DOMAIN jobs, jobs'[i].st \in {"counting", "building"},
                      i[1] \notin Shared
               PROVE  /\ i[1] \in DOMAIN idle
                      /\ jobs'[i].left < idle[i[1]]
                      /\ jobs'[i].st = "counting" => idle[i[1]] = Ttl
    BY <1>2, <1>3 DEF Outlasts
  <2>1. CASE i # k
    BY <1>3, <2>1 DEF BInv, Outlasts
  <2>2. CASE i = k
    BY <1>3, <2>2
  <2> QED BY <2>1, <2>2
<1> QED BY <1>2, <1>3, <1>4, <1>5, <1>6 DEF BInv, BTypeOK

\* What a step makes of a job.
Works(j, st, of, left) == [j EXCEPT !.st = st, !.of = of, !.left = left]

LEMMA WorksJob ==
  ASSUME NEW j \in Jobs, NEW st \in {"counting", "building", "reported", "done"},
         NEW of \in Nat, NEW left \in Nat
  PROVE  /\ Works(j, st, of, left) \in Jobs
         /\ Works(j, st, of, left).st = st /\ Works(j, st, of, left).of = of
         /\ Works(j, st, of, left).left = left /\ Works(j, st, of, left).by = j.by
BY DEF Works, Jobs

LEMMA StartCargoOK ==
  ASSUME BInv, NEW k \in DOMAIN jobs, StartCargo(k) PROVE BInv'
<1> DEFINE v == version[k[1]]
           z == BuildLimit
           build == Works(jobs[k], "building", v, z)
<1>1. jobs[k] \in Jobs /\ k[1] \in Dirs /\ v \in Nat /\ BuildLimit \in Nat
  BY BuildsAssumption DEF BInv, BTypeOK, Keys
<1>2. jobs[k].st = "counting" /\ Becomes(k, build)
  BY Zenon DEF StartCargo, Works
<1>3. build \in Jobs /\ build.st = "building" /\ build.of = v /\ build.left = z
      /\ build.by = jobs[k].by
  <2>1. z \in Nat
    BY <1>1
  <2> HIDE DEF v, z
  <2> QED BY <1>1, <2>1, WorksJob
<1> HIDE DEF build
<1>4. k[1] \in Shared \/ (k[1] \in DOMAIN idle /\ build.left < idle[k[1]])
  BY <1>2, <1>3, BuildsAssumption DEF BInv, Outlasts
<1>5. build.of >= version[k[1]]
  BY <1>1, <1>3
<1> QED BY <1>2, <1>3, <1>4, <1>5, JobStepOK

LEMMA ReportOK ==
  ASSUME BInv, NEW k \in DOMAIN jobs, jobs[k].st = "building", Report(k) PROVE BInv'
<1> DEFINE f == jobs[k].of
           z == 0
           build == Works(jobs[k], "reported", f, z)
<1>1. jobs[k] \in Jobs /\ f \in Nat
  BY DEF BInv, BTypeOK, Jobs
<1>2. build \in Jobs /\ build.st = "reported" /\ build.of = f /\ build.by = jobs[k].by
  <2>1. z \in Nat
    OBVIOUS
  <2> HIDE DEF f, z
  <2> QED BY <1>1, <2>1, WorksJob
<1>3. build = [jobs[k] EXCEPT !.st = "reported", !.left = 0]
  BY <1>1 DEF Works, Jobs
<1>4. Becomes(k, build)
  BY <1>3, Zenon DEF Report
<1> HIDE DEF build
<1> QED BY <1>2, <1>4, JobStepOK

LEMMA FinishOK ==
  ASSUME BInv, NEW k \in DOMAIN jobs, Finish(k) PROVE BInv'
<1> DEFINE f == jobs[k].of
           z == Retention
           build == Works(jobs[k], "done", f, z)
<1>1. jobs[k] \in Jobs /\ f \in Nat /\ jobs[k].st = "reported"
  BY DEF BInv, BTypeOK, Jobs, Finish
<1>2. build \in Jobs /\ build.st = "done" /\ build.of = f /\ build.by = jobs[k].by
  <2>1. z \in Nat
    BY BuildsAssumption
  <2> HIDE DEF f, z
  <2> QED BY <1>1, <2>1, WorksJob
<1>3. build = [jobs[k] EXCEPT !.st = "done", !.left = Retention]
  BY <1>1 DEF Works, Jobs
<1>4. Becomes(k, build)
  BY <1>3, Zenon DEF Finish
<1> HIDE DEF build
<1> QED BY <1>1, <1>2, <1>4, JobStepOK

LEMMA ThreadOK ==
  ASSUME BInv, NEW k \in DOMAIN jobs, Thread(k) \/ CargoEnds(k) PROVE BInv'
<1>1. CASE StartCargo(k)
  BY <1>1, StartCargoOK
<1>2. CASE Kill(k) \/ CargoEnds(k)
  BY <1>2, ReportOK DEF Kill, CargoEnds, AtDeadline
<1>3. CASE Finish(k)
  BY <1>3, FinishOK
<1> QED BY <1>1, <1>2, <1>3 DEF Thread

LEMMA UseOK ==
  ASSUME BInv, NEW d \in Scratch, Use(d) PROVE BInv'
<1>1. /\ idle' = Touched(d) /\ UNCHANGED <<win, jobs, stray, made, version>>
      /\ presses < MaxPresses /\ presses' = presses + 1 /\ presses \in 0..MaxPresses
      /\ win \in [Windows -> Panes]
  BY DEF Use, BInv, BTypeOK
<1>2. /\ DOMAIN idle' = DOMAIN idle /\ idle' \in [DOMAIN idle' -> 0..Ttl]
      /\ \A e \in DOMAIN idle : idle'[e] \in {idle[e], Ttl}
  BY <1>1, TouchedIdle DEF BInv
<1>3. Outlasts'
  BY <1>1, <1>2, FoldersKept
<1>4. ASSUME NEW w \in Windows PROVE FreshWindow(w)'
  <2>1. win[w].gen \in Nat /\ win[w].gen <= presses /\ FreshWindow(w)
    BY <1>1, BuildsAssumption DEF Panes, BInv, FreshWindow, OwnFresh, PressMade
  <2>2. win[w].gen <= presses'
    BY <1>1, <2>1, BuildsAssumption
  <2> QED BY <1>1, <2>1, <2>2 DEF FreshWindow, OwnFresh, PressMade
<1>5. presses' \in 0..MaxPresses
  BY <1>1, BuildsAssumption
<1>6. PressedBefore'
  BY <1>1 DEF BInv, PressedBefore, Before
<1> QED BY <1>1, <1>2, <1>3, <1>4, <1>5, <1>6 DEF BInv, BTypeOK

LEMMA EditProjectOK ==
  ASSUME BInv, NEW d \in Shared, EditProject(d) PROVE BInv'
<1>1. /\ version' = [version EXCEPT ![d] = version[d] + 1]
      /\ UNCHANGED <<win, jobs, stray, idle, made>>
      /\ presses < MaxPresses /\ presses' = presses + 1 /\ presses \in 0..MaxPresses
      /\ win \in [Windows -> Panes] /\ version \in [Dirs -> Nat]
  BY DEF EditProject, BInv, BTypeOK
<1>2. version' \in [Dirs -> Nat] /\ \A e \in Dirs : version'[e] >= version[e]
  BY <1>1 DEF Dirs
<1>3. ASSUME NEW w \in Windows PROVE FreshWindow(w)'
  <2>1. /\ win[w].gen \in Nat /\ win[w].gen <= presses /\ FreshWindow(w) /\ win[w].pressed \in Nat
        /\ win[w].building \in Dirs \cup {"none"}
    BY <1>1, BuildsAssumption DEF Panes, BInv, FreshWindow, OwnFresh, PressMade
  <2>2. win[w].gen <= presses'
    BY <1>1, <2>1, BuildsAssumption
  <2>3. win[w].building # "none" => win[w].pressed <= version'[win[w].building]
    <3> SUFFICES ASSUME win[w].building # "none"
                 PROVE  win[w].pressed <= version'[win[w].building]
      OBVIOUS
    <3> DEFINE e == win[w].building
    <3>1. e \in Dirs /\ win[w].pressed <= version[e]
      BY <2>1 DEF FreshWindow, OwnFresh, PressMade
    <3>2. version'[e] >= version[e] /\ version'[e] \in Nat /\ version[e] \in Nat
      BY <1>1, <1>2, <3>1
    <3> QED BY <2>1, <3>1, <3>2
  <2> QED BY <1>1, <2>1, <2>2, <2>3 DEF FreshWindow, OwnFresh, PressMade
<1>4. presses' \in 0..MaxPresses
  BY <1>1, BuildsAssumption
<1>5. PressedBefore' /\ Outlasts'
  BY <1>1 DEF BInv, PressedBefore, Before, Outlasts
<1> QED BY <1>1, <1>2, <1>3, <1>4, <1>5 DEF BInv, BTypeOK

LEMMA SweepScratchOK ==
  ASSUME BInv, SweepScratch PROVE BInv'
<1>1. /\ idle' = [d \in {x \in DOMAIN idle : idle[x] > 0} |-> idle[d]]
      /\ UNCHANGED <<win, jobs, stray, made, version, presses>> /\ BTypeOK
  BY DEF SweepScratch, BInv
<1>2. Outlasts'
  <2> SUFFICES ASSUME NEW k \in DOMAIN jobs, jobs[k].st \in {"counting", "building"},
                      k[1] \notin Shared
               PROVE  k[1] \in DOMAIN idle' /\ idle'[k[1]] = idle[k[1]]
    BY <1>1 DEF BInv, Outlasts
  <2>1. k[1] \in DOMAIN idle /\ jobs[k].left < idle[k[1]]
    BY DEF BInv, Outlasts
  <2>2. jobs[k].left \in Nat /\ idle[k[1]] \in 0..Ttl
    BY <1>1, <2>1 DEF BTypeOK, Jobs
  <2>3. idle[k[1]] > 0
    BY <2>1, <2>2, BuildsAssumption
  <2> QED BY <1>1, <2>1, <2>3
<1>3. \A w \in Windows : FreshWindow(w)'
  BY <1>1 DEF BInv, FreshWindow, OwnFresh
<1>4. PressedBefore'
  BY <1>1 DEF BInv, PressedBefore, Before
<1>5. idle' \in [DOMAIN idle' -> 0..Ttl] /\ DOMAIN idle' \subseteq made
  BY <1>1 DEF BTypeOK
<1> QED BY <1>1, <1>2, <1>3, <1>4, <1>5 DEF BInv, BTypeOK

LEMMA RestartOK ==
  ASSUME BInv, Restart PROVE BInv'
<1>1. /\ jobs' = [k \in {} |-> 0] /\ idle' = [d \in {} |-> 0]
      /\ UNCHANGED <<win, stray, made, version, presses>> /\ BTypeOK
  BY DEF Restart, BInv
<1>2. DOMAIN jobs' = {} /\ DOMAIN idle' = {}
  BY <1>1
<1>3. Outlasts' /\ PressedBefore'
  BY <1>1, <1>2 DEF BInv, Outlasts, PressedBefore, Before
<1>4. \A w \in Windows : FreshWindow(w)'
  BY <1>1, <1>2 DEF BInv, FreshWindow, OwnFresh, PressMade, JobFresh
<1>5. jobs' \in [DOMAIN jobs' -> Jobs] /\ idle' \in [DOMAIN idle' -> 0..Ttl]
  BY <1>1, <1>2
<1> QED BY <1>1, <1>2, <1>3, <1>4, <1>5 DEF BInv, BTypeOK

\* Where time passes, a build and its folder have one tick less each.
Aged(j)  == [j EXCEPT !.left = Sooner(j.left)]
Ticked(x) == [x EXCEPT !.due = x.polling]

LEMMA ElapseOK ==
  ASSUME BInv, Elapse PROVE BInv'
<1>1. /\ BTypeOK /\ \A k \in DOMAIN jobs : jobs[k].st \in {"building", "done"} /\ ~AtDeadline(k)
      /\ win' = [w \in Windows |-> Ticked(win[w])]
      /\ jobs' = [k \in DOMAIN jobs |-> Aged(jobs[k])]
      /\ idle' = [d \in DOMAIN idle |-> Sooner(idle[d])]
      /\ UNCHANGED <<stray, made, version, presses>>
  BY DEF Elapse, BInv, Ticked, Aged
<1>2. \A n \in Nat : Sooner(n) \in Nat /\ Sooner(n) <= n /\ (n > 0 => Sooner(n) = n - 1)
  BY DEF Sooner
<1>3. ASSUME NEW k \in DOMAIN jobs
      PROVE  /\ jobs'[k] \in Jobs /\ jobs'[k].st = jobs[k].st /\ jobs'[k].of = jobs[k].of
             /\ jobs'[k].by = jobs[k].by /\ jobs'[k].left = Sooner(jobs[k].left)
  <2> DEFINE n == Sooner(jobs[k].left)
  <2>1. jobs[k] \in Jobs /\ n \in Nat
    BY <1>1, <1>2 DEF BTypeOK, Jobs
  <2>2. jobs'[k] = [jobs[k] EXCEPT !.left = n]
    BY <1>1 DEF Aged
  <2> HIDE DEF n
  <2>3. /\ jobs'[k] \in Jobs /\ jobs'[k].st = jobs[k].st /\ jobs'[k].of = jobs[k].of
        /\ jobs'[k].by = jobs[k].by /\ jobs'[k].left = n
    BY <2>1, <2>2 DEF Jobs
  <2> QED BY <2>3 DEF n
<1>4. ASSUME NEW w \in Windows
      PROVE  /\ win'[w] \in Panes /\ win'[w].life = win[w].life /\ win'[w].gen = win[w].gen
             /\ win'[w].building = win[w].building /\ win'[w].pressed = win[w].pressed
             /\ win'[w].slot = win[w].slot
  BY <1>1 DEF BTypeOK, Panes, Ticked
<1>5. DOMAIN jobs' = DOMAIN jobs /\ DOMAIN idle' = DOMAIN idle
  BY <1>1
<1>6. ASSUME NEW d \in DOMAIN idle PROVE idle'[d] \in 0..Ttl
  <2>1. idle[d] \in 0..Ttl /\ idle'[d] = Sooner(idle[d])
    BY <1>1 DEF BTypeOK
  <2> QED BY <1>2, <2>1, BuildsAssumption
<1>7. PressedBefore'
  BY <1>1, <1>3, <1>4, <1>5 DEF BInv, PressedBefore, Before
<1>8. ASSUME NEW w \in Windows PROVE FreshWindow(w)'
  <2>1. OwnFresh(w, win[w], jobs, version, presses)
    BY DEF BInv, FreshWindow
  <2>2. PressMade(win'[w], presses', version') /\ AnswerFresh(w, win'[w])
    BY <1>1, <1>4, <2>1 DEF OwnFresh, PressMade, AnswerFresh
  <2>3. JobFresh(w, win'[w], jobs')
    BY <1>3, <1>4, <1>5, <2>1 DEF OwnFresh, JobFresh
  <2> QED BY <2>2, <2>3 DEF FreshWindow, OwnFresh
<1>9. Outlasts'
  <2> SUFFICES ASSUME NEW k \in DOMAIN jobs, jobs[k].st \in {"counting", "building"},
                      k[1] \notin Shared
               PROVE  /\ k[1] \in DOMAIN idle
                      /\ Sooner(jobs[k].left) < Sooner(idle[k[1]])
                      /\ jobs[k].st # "counting"
    BY <1>1, <1>3, <1>5 DEF Outlasts
  <2>1. jobs[k].st = "building" /\ jobs[k].left # 0
    BY <1>1 DEF AtDeadline
  <2>2. k[1] \in DOMAIN idle /\ jobs[k].left < idle[k[1]]
    BY DEF BInv, Outlasts
  <2>3. jobs[k].left \in Nat /\ idle[k[1]] \in 0..Ttl
    BY <1>1, <2>2 DEF BTypeOK, Jobs
  <2> QED BY <2>1, <2>2, <2>3, BuildsAssumption DEF Sooner
<1>10. /\ win' \in [Windows -> Panes] /\ jobs' \in [DOMAIN jobs' -> Jobs]
       /\ idle' \in [DOMAIN idle' -> 0..Ttl]
  <2>1. win' \in [Windows -> Panes]
    BY <1>1, <1>4
  <2>2. jobs' \in [DOMAIN jobs' -> Jobs]
    BY <1>1, <1>3, <1>5
  <2>3. idle' \in [DOMAIN idle' -> 0..Ttl]
    BY <1>1, <1>5, <1>6
  <2> QED BY <2>1, <2>2, <2>3
<1> QED BY <1>1, <1>5, <1>7, <1>8, <1>9, <1>10 DEF BInv, BTypeOK

LEMMA BInit_BInv == BInit => BInv
<1> SUFFICES ASSUME BInit PROVE BInv
  OBVIOUS
<1> DEFINE x == NewWindow(0)
<1>1. /\ x \in Panes /\ x.gen = 0 /\ x.building = "none" /\ x.slot = NoSlot
  BY BuildsAssumption DEF NewWindow, Panes, NoSlot, Slots
<1>2. /\ win = [w \in Windows |-> x] /\ DOMAIN jobs = {} /\ DOMAIN idle = {} /\ stray = {}
      /\ jobs = [k \in {} |-> 0] /\ idle = [d \in {} |-> 0]
      /\ version = [d \in Dirs |-> 1] /\ presses = 0
  BY DEF BInit
<1> HIDE DEF x
<1>3. BTypeOK
  BY <1>1, <1>2, BuildsAssumption DEF BTypeOK
<1>4. \A w \in Windows : FreshWindow(w)
  <2> SUFFICES ASSUME NEW w \in Windows PROVE OwnFresh(w, x, jobs, version, presses)
    BY <1>2 DEF FreshWindow
  <2>1. PressMade(x, presses, version)
    BY <1>1, <1>2 DEF PressMade, NoSlot
  <2>2. JobFresh(w, x, jobs) /\ AnswerFresh(w, x)
    BY <1>1, <1>2 DEF JobFresh, AnswerFresh, NoSlot
  <2> QED BY <2>1, <2>2 DEF OwnFresh
<1> QED BY <1>2, <1>3, <1>4 DEF BInv, PressedBefore, Outlasts

LEMMA BNext_BInv == BInv /\ [BNext]_bvars => BInv'
<1> SUFFICES ASSUME BInv, [BNext]_bvars PROVE BInv'
  OBVIOUS
<1>1. ASSUME NEW w \in Windows, FrameOf(w) \/ Reopen(w) \/ Minimise(w) \/ Network(w) PROVE BInv'
  BY <1>1, FrameOfOK, ReopenOK, MinimiseOK, ServeOK, AnswerOK, FailPollOK DEF Network
<1>2. ASSUME NEW w \in Windows, NEW d \in Dirs, Build(w, d) \/ Upload(w, d) PROVE BInv'
  BY <1>2, BuildOK, UploadOK
<1>3. ASSUME NEW d \in Shared, EditProject(d) PROVE BInv'
  BY <1>3, EditProjectOK
<1>4. ASSUME NEW d \in Scratch, Use(d) PROVE BInv'
  BY <1>4, UseOK
<1>5. ASSUME NEW r \in stray, ServeStray(r) PROVE BInv'
  BY <1>5, ServeStrayOK
<1>6. ASSUME NEW k \in DOMAIN jobs, Thread(k) \/ CargoEnds(k) PROVE BInv'
  BY <1>6, ThreadOK
<1>7. CASE SweepScratch \/ Restart \/ Elapse
  BY <1>7, SweepScratchOK, RestartOK, ElapseOK
<1>8. CASE UNCHANGED bvars
  BY <1>8 DEF bvars, BInv, BTypeOK, PressedBefore, Before, FreshWindow, OwnFresh, PressMade,
              JobFresh, AnswerFresh, Outlasts
<1> QED BY <1>1, <1>2, <1>3, <1>4, <1>5, <1>6, <1>7, <1>8 DEF BNext

LEMMA BInv_Own == BInv => BuildsAreOwn
<1> SUFFICES ASSUME BInv PROVE BuildsAreOwn
  OBVIOUS
<1>1. BuildsWellFormed
  <2>1. ASSUME NEW w \in Windows
        PROVE  /\ win[w].building \in Dirs \cup {"none"} /\ win[w].gen \in 0..MaxPresses
               /\ win[w].slot.st \in {"none", "sent", "served", "ready", "failed"}
    <3>1. win[w] \in Panes
      BY DEF BInv, BTypeOK
    <3>2. win[w].slot \in Slots
      BY <3>1 DEF Panes
    <3> QED BY <3>1, <3>2 DEF Panes, Slots
  <2>2. \A k \in DOMAIN jobs : jobs[k].st \in {"counting", "building", "reported", "done"}
    BY DEF BInv, BTypeOK, Jobs
  <2>3. \A r \in stray : r.key \in Keys
    BY DEF BInv, BTypeOK, Requests
  <2> QED BY <2>1, <2>2, <2>3 DEF BuildsWellFormed, BInv, BTypeOK
<1>2. OwnBuildIsFresh
  BY DEF BInv, FreshWindow, OwnFresh, AnswerFresh, OwnBuildIsFresh, Shows, By
<1>3. BuildKeepsFolder
  BY DEF BInv, Outlasts, BuildKeepsFolder, There
<1> QED BY <1>1, <1>2, <1>3 DEF BuildsAreOwn

\* The inductive invariant of the builds: jobs and requests are no younger than
\* the presses they are for, what a window is shown of its own build is no older
\* than its press, and a build ends before the folder it builds in.
THEOREM BuildsInvariant == BSpec => []BInv
<1> QED BY BInit_BInv, BNext_BInv, PTL DEF BSpec

\* What BuildsAreOwn says (compile() and snapshot() in build_api.rs, touch() and
\* sweep() in scratch.rs): a window whose own build has ended shows one of the
\* project as it was at the press or later, and a project being built is there.
THEOREM BuildsOwn == BSpec => []BuildsAreOwn
<1> QED BY BuildsInvariant, BInv_Own, PTL

-----------------------------------------------------------------------------
(* The web copies.                                                        *)

Names     == FileKeys \X {"plan", "copy"}
CacheEntry == [of : Nat, age : Nat]
CacheSet  == UNION {[S -> CacheEntry] : S \in SUBSET Names}
WorkerAts == {"rest", "decide", "convert", "keep", "evict", "remove", "finish"}
ResultSet == [st : {"none", "ok", "failed"}, plan : Nat, copy : Nat]
JobSet    == [key : FileKeys \cup {NoKey}, next : WorkerAts, plan : Nat, result : ResultSet,
              done : BOOLEAN, old : BOOLEAN, found : CacheSet]
CallerSet == [pc : {"idle", "missed", "holds"}, file : Files \cup {NoKey}, asked : Nat,
              job : JobIds \cup {0}, stale : BOOLEAN]

CacheType == cache \in CacheSet /\ IsFiniteSet(DOMAIN cache)

CopiesType ==
  /\ edition \in [Files -> 1..MaxVersion]
  /\ map \in [DOMAIN map -> JobIds] /\ DOMAIN map \subseteq FileKeys
  /\ job \in [JobIds -> JobSet]
  /\ caller \in [Callers -> CallerSet]

\* What is kept under a file's name was read from the file as that names it, or later.
CacheRead ==
  \A x \in DOMAIN cache : x[1][2] <= cache[x].of /\ cache[x].of <= edition[x[1][1]]

\* An answer that is not stale for one who asked for f when it had version v.
Current(r, f, v) == r.st = "ok" => r.plan >= v /\ (Converts(f, r.plan) => r.copy >= v)

\* A worker x at number j has the job of its key, which it read no earlier.
WorkerOK(x, j) ==
  IF x.next = "rest" THEN x.done => x.result.st \in {"ok", "failed"}
  ELSE /\ ~x.done
       /\ x.key \in DOMAIN map /\ map[x.key] = j
       /\ x.key[2] <= edition[x.key[1]]
       /\ x.next \in {"convert", "keep"} => x.key[2] <= x.plan /\ x.plan <= edition[x.key[1]]
       /\ x.next \notin {"decide", "convert"} =>
            x.result.st \in {"ok", "failed"} /\ Current(x.result, x.key[1], x.key[2])

\* A job in the map is at work on its key, or done.
MappedOK(k, x) == IF x.next = "rest" THEN x.done ELSE x.key = k

\* The job a request holds is at work on its file, as it was then or later, or has
\* done it.
HoldsOK(c, x) ==
  IF x.next = "rest" THEN x.done /\ Current(x.result, c.file, c.asked)
  ELSE x.key[1] = c.file /\ c.asked <= x.key[2]

CallerOK(c) ==
  /\ ~c.stale
  /\ c.pc # "idle" => c.file \in Files
  /\ c.pc = "holds" => c.job \in JobIds /\ HoldsOK(c, job[c.job])

\* NothingStale is not inductive by itself: that what a worker keeps is of its key
\* needs WorkerOK, and that what a request is told is of what it asked for needs
\* HoldsOK.  OneWorkerPerKey follows from WorkerOK: the map has one job per key.
WInv ==
  /\ CopiesType /\ CacheType /\ CacheRead
  /\ \A j \in JobIds : WorkerOK(job[j], j)
  /\ \A k \in DOMAIN map : MappedOK(k, job[map[k]])
  /\ \A c \in Callers : CallerOK(caller[c])

LEMMA InCacheSet ==
  ASSUME NEW c
  PROVE  /\ c \in CacheSet => /\ DOMAIN c \subseteq Names /\ c \in [DOMAIN c -> CacheEntry]
                              /\ \A x \in DOMAIN c : c[x].of \in Nat /\ c[x].age \in Nat
         /\ c \in [DOMAIN c -> CacheEntry] /\ DOMAIN c \subseteq Names => c \in CacheSet
  BY DEF CacheSet, CacheEntry

LEMMA NothingIsCache == Nothing \in CacheSet /\ IsFiniteSet(DOMAIN Nothing) /\ DOMAIN Nothing = {}
  BY FS_EmptySet, InCacheSet DEF Nothing

\* Ranking keeps what is in a cache, and of what it is.
LEMMA RankedIs ==
  ASSUME NEW c, IsFiniteSet(DOMAIN c), DOMAIN c \subseteq Names, \A x \in DOMAIN c : c[x].of \in Nat
  PROVE  /\ Ranked(c) \in CacheSet /\ DOMAIN Ranked(c) = DOMAIN c
         /\ \A x \in DOMAIN c : Ranked(c)[x].of = c[x].of
<1> DEFINE Older(x) == {y \in DOMAIN c : c[y].age < c[x].age}
<1>1. \A x \in DOMAIN c : Cardinality(Older(x)) \in Nat
  BY FS_Subset, FS_CardinalityType
<1>2. Ranked(c) = [x \in DOMAIN c |-> [of |-> c[x].of, age |-> Cardinality(Older(x))]]
  BY DEF Ranked
<1> HIDE DEF Older
<1>3. Ranked(c) \in [DOMAIN c -> CacheEntry]
  BY <1>1, <1>2 DEF CacheEntry
<1> QED BY <1>2, <1>3, InCacheSet

LEMMA KeptIs ==
  ASSUME NEW c \in CacheSet, IsFiniteSet(DOMAIN c), NEW x \in Names, NEW of \in Nat
  PROVE  /\ Kept(c, x, of) \in CacheSet /\ DOMAIN Kept(c, x, of) = DOMAIN c \cup {x}
         /\ IsFiniteSet(DOMAIN Kept(c, x, of))
         /\ Kept(c, x, of)[x].of = of
         /\ \A y \in DOMAIN c \ {x} : Kept(c, x, of)[y].of = c[y].of
<1> DEFINE d == [y \in DOMAIN c \cup {x} |->
                   IF y = x THEN [of |-> of, age |-> 0] ELSE [of |-> c[y].of, age |-> c[y].age + 1]]
<1>1. DOMAIN d = DOMAIN c \cup {x} /\ IsFiniteSet(DOMAIN d) /\ DOMAIN d \subseteq Names
  BY FS_AddElement, InCacheSet
<1>2. \A y \in DOMAIN d : d[y].of = IF y = x THEN of ELSE c[y].of
  OBVIOUS
<1>3. Kept(c, x, of) = Ranked(d)
  BY DEF Kept
<1> HIDE DEF d
<1>4. \A y \in DOMAIN d : d[y].of \in Nat
  BY <1>1, <1>2, InCacheSet
<1> QED BY <1>1, <1>2, <1>3, <1>4, RankedIs

LEMMA TouchedIs ==
  ASSUME NEW c \in CacheSet, IsFiniteSet(DOMAIN c), NEW x
  PROVE  /\ Marked(c, x) \in CacheSet /\ DOMAIN Marked(c, x) = DOMAIN c
         /\ \A y \in DOMAIN c : Marked(c, x)[y].of = c[y].of
<1>1. CASE x \in DOMAIN c
  <2>1. x \in Names /\ c[x].of \in Nat /\ Marked(c, x) = Kept(c, x, c[x].of)
    BY <1>1, InCacheSet DEF Marked
  <2>2. PICK n \in Nat : n = c[x].of
    BY <2>1
  <2>3. Kept(c, x, n) \in CacheSet /\ DOMAIN Kept(c, x, n) = DOMAIN c \cup {x}
    BY <2>1, KeptIs
  <2>4. Kept(c, x, n)[x].of = n
    BY <2>1, KeptIs
  <2>5. \A y \in DOMAIN c \ {x} : Kept(c, x, n)[y].of = c[y].of
    BY <2>1, KeptIs
  <2> QED BY <1>1, <2>1, <2>2, <2>3, <2>4, <2>5
<1>2. CASE x \notin DOMAIN c
  BY <1>2 DEF Marked
<1> QED BY <1>1, <1>2

LEMMA RemovedIs ==
  ASSUME NEW c \in CacheSet, IsFiniteSet(DOMAIN c), NEW S
  PROVE  /\ Removed(c, S) \in CacheSet /\ DOMAIN Removed(c, S) = DOMAIN c \ S
         /\ \A y \in DOMAIN c \ S : Removed(c, S)[y].of = c[y].of
         /\ IsFiniteSet(DOMAIN Removed(c, S))
<1> DEFINE d == [x \in DOMAIN c \ S |-> c[x]]
<1>1. DOMAIN d = DOMAIN c \ S /\ IsFiniteSet(DOMAIN d) /\ DOMAIN d \subseteq Names
  BY FS_Subset, InCacheSet
<1>2. \A y \in DOMAIN d : d[y].of = c[y].of /\ d[y].of \in Nat
  BY InCacheSet
<1>3. Removed(c, S) = Ranked(d)
  BY DEF Removed
<1> HIDE DEF d
<1> QED BY <1>1, <1>2, <1>3, RankedIs

LEMMA WInit == CInit => WInv
<1> SUFFICES ASSUME CInit PROVE WInv
  OBVIOUS
<1> USE NothingIsCache, CopiesAssumption
<1>1. FreeJob \in JobSet /\ FreeJob.next = "rest" /\ ~FreeJob.done
  BY DEF FreeJob, JobSet, WorkerAts, ResultSet, None
<1>2. IdleCaller \in CallerSet /\ IdleCaller.pc = "idle" /\ ~IdleCaller.stale
  BY DEF IdleCaller, CallerSet
<1>3. CopiesType
  BY <1>1, <1>2 DEF CInit, CopiesType, Nothing
<1>4. CacheType /\ CacheRead
  BY DEF CInit, CacheType, CacheRead
<1>5. \A j \in JobIds : WorkerOK(job[j], j)
  BY <1>1 DEF CInit, WorkerOK
<1>6. \A k \in DOMAIN map : MappedOK(k, job[map[k]])
  BY DEF CInit
<1>7. \A c \in Callers : CallerOK(caller[c])
  BY <1>2 DEF CInit, CallerOK
<1> QED BY <1>3, <1>4, <1>5, <1>6, <1>7 DEF WInv

-----------------------------------------------------------------------------
\* A request's steps.

\* Callers other than c are as they were, and so is what theirs is of.
LEMMA CallerStep ==
  ASSUME WInv, NEW c \in Callers, NEW x \in CallerSet, caller' = [caller EXCEPT ![c] = x],
         CallerOK(x), UNCHANGED <<edition, map, job>>, CacheType', CacheRead'
  PROVE  WInv'
<1>1. CopiesType'
  BY DEF WInv, CopiesType
<1>2. \A j \in JobIds : WorkerOK(job[j], j)'
  BY DEF WInv, WorkerOK, Current
<1>3. \A k \in DOMAIN map' : MappedOK(k, job[map[k]])'
  BY DEF WInv, MappedOK
<1>4. \A d \in Callers : CallerOK(caller[d])'
  <2> SUFFICES ASSUME NEW d \in Callers PROVE CallerOK(caller[d])'
    OBVIOUS
  <2>1. caller'[d] = IF d = c THEN x ELSE caller[d]
    BY DEF WInv, CopiesType
  <2>2. CallerOK(caller'[d])
    BY <2>1 DEF WInv
  <2> QED BY <2>2 DEF CallerOK, HoldsOK, Current
<1> QED BY <1>1, <1>2, <1>3, <1>4 DEF WInv

LEMMA AnswerKeeps ==
  ASSUME WInv, NEW c \in Callers, NEW f, NEW v \in Nat, NEW a,
         a.st = "ok" => a.plan \in Nat /\ a.copy \in Nat,
         Current(a, f, v), caller' = Replied(c, f, v, a),
         UNCHANGED <<edition, map, job>>, CacheType', CacheRead'
  PROVE  WInv'
<1> DEFINE bad == a.st = "ok" /\ (a.plan < v \/ (Converts(f, a.plan) /\ a.copy < v))
           x   == [IdleCaller EXCEPT !.stale = bad]
<1>1. ~bad
  BY DEF Current
<1>2. x \in CallerSet /\ CallerOK(x)
  BY <1>1 DEF CallerSet, IdleCaller, CallerOK
<1>3. caller' = [caller EXCEPT ![c] = x]
  BY DEF Replied
<1> QED BY <1>2, <1>3, CallerStep

LEMMA HitKeeps ==
  ASSUME WInv, NEW c \in Callers, NEW f \in Files, Hit(c, f)
  PROVE  WInv'
<1> DEFINE k    == Key(f)
           plan == cache[Plan(k)].of
<1>1. cache \in CacheSet /\ IsFiniteSet(DOMAIN cache) /\ CacheRead /\ edition[f] \in Nat
  BY CopiesAssumption DEF WInv, CacheType, CopiesType
<1>2. k[1] = f /\ k[2] = edition[f] /\ Plan(k)[1] = k /\ Copy(k)[1] = k
  BY DEF Key, Plan, Copy
<1>3. Plan(k) \in DOMAIN cache /\ plan = edition[f]
  <2>1. Plan(k) \in DOMAIN cache
    BY DEF Hit, Cached
  <2>2. plan \in Nat /\ edition[f] <= plan /\ plan <= edition[f]
    BY <1>1, <1>2, <2>1, InCacheSet DEF CacheRead
  <2> QED BY <1>1, <2>1, <2>2
<1>4. UNCHANGED <<edition, map, job>>
  BY DEF Hit
<1>5. CASE Converts(f, plan)
  <2>1. Copy(k) \in DOMAIN cache /\ cache[Copy(k)].of = edition[f]
    <3>1. Copy(k) \in DOMAIN cache
      BY <1>5 DEF Hit, Cached
    <3>2. cache[Copy(k)].of \in Nat /\ edition[f] <= cache[Copy(k)].of /\ cache[Copy(k)].of <= edition[f]
      BY <1>1, <1>2, <3>1, InCacheSet DEF CacheRead
    <3> QED BY <1>1, <3>1, <3>2
  <2> DEFINE c1 == Marked(cache, Copy(k))
  <2>2. c1 \in CacheSet /\ DOMAIN c1 = DOMAIN cache /\ \A y \in DOMAIN cache : c1[y].of = cache[y].of
    BY <1>1, TouchedIs
  <2>3. cache' = Marked(c1, Plan(k)) /\ caller' = Replied(c, f, edition[f], Ok(plan, cache[Copy(k)].of))
    BY <1>5 DEF Hit
  <2> HIDE DEF c1
  <2>4. cache' \in CacheSet /\ DOMAIN cache' = DOMAIN cache /\ \A y \in DOMAIN cache : cache'[y].of = cache[y].of
    BY <1>1, <2>2, <2>3, TouchedIs
  <2>5. CacheType' /\ CacheRead'
    BY <1>1, <1>4, <2>4 DEF CacheType, CacheRead
  <2> DEFINE a == Ok(plan, cache[Copy(k)].of)
  <2>6. a.plan \in Nat /\ a.copy \in Nat /\ Current(a, f, edition[f])
    BY <1>1, <1>3, <2>1 DEF Ok, Current
  <2> HIDE DEF a
  <2> QED BY <1>1, <1>4, <2>3, <2>5, <2>6, AnswerKeeps DEF a
<1>6. CASE ~Converts(f, plan)
  <2>3. cache' = Marked(cache, Plan(k)) /\ caller' = Replied(c, f, edition[f], Ok(plan, 0))
    BY <1>6 DEF Hit
  <2>4. cache' \in CacheSet /\ DOMAIN cache' = DOMAIN cache /\ \A y \in DOMAIN cache : cache'[y].of = cache[y].of
    BY <1>1, <2>3, TouchedIs
  <2>5. CacheType' /\ CacheRead'
    BY <1>1, <1>4, <2>4 DEF CacheType, CacheRead
  <2> DEFINE a == Ok(plan, 0)
  <2>6. a.plan \in Nat /\ a.copy \in Nat /\ Current(a, f, edition[f])
    BY <1>1, <1>3, <1>6 DEF Ok, Current
  <2> HIDE DEF a
  <2> QED BY <1>1, <1>4, <2>3, <2>5, <2>6, AnswerKeeps DEF a
<1> QED BY <1>5, <1>6

LEMMA MissKeeps ==
  ASSUME WInv, NEW c \in Callers, NEW f \in Files, Miss(c, f)
  PROVE  WInv'
<1> DEFINE x == [caller[c] EXCEPT !.pc = "missed", !.file = f, !.asked = edition[f]]
<1>1. caller[c] \in CallerSet /\ edition[f] \in Nat /\ CallerOK(caller[c])
  BY CopiesAssumption DEF WInv, CopiesType
<1>2. x \in CallerSet /\ CallerOK(x)
  BY <1>1 DEF CallerSet, CallerOK
<1>3. caller' = [caller EXCEPT ![c] = x] /\ UNCHANGED <<edition, map, job, cache>>
  BY DEF Miss, WInv, CopiesType
<1>4. CacheType' /\ CacheRead'
  BY <1>3 DEF WInv, CacheType, CacheRead
<1> HIDE DEF x
<1> QED BY <1>2, <1>3, <1>4, CallerStep

LEMMA LookKeeps ==
  ASSUME WInv, NEW c \in Callers, Look(c)
  PROVE  WInv'
<1> DEFINE j == job[caller[c].job]
           a == IF j.done THEN j.result ELSE Running
<1>1. caller[c] \in CallerSet /\ CallerOK(caller[c]) /\ caller[c].pc = "holds"
  BY DEF WInv, CopiesType, Look
<1>2. caller[c].job \in JobIds /\ HoldsOK(caller[c], j)
  BY <1>1 DEF CallerOK
<1>3. j \in JobSet /\ WorkerOK(j, caller[c].job)
  BY <1>2 DEF WInv, CopiesType
<1>5. /\ a.st = "ok" => a.plan \in Nat /\ a.copy \in Nat
      /\ Current(a, caller[c].file, caller[c].asked)
  <2>1. CASE j.done
    <3>1. j.next = "rest" /\ Current(j.result, caller[c].file, caller[c].asked)
      BY <1>2, <1>3, <2>1 DEF WorkerOK, HoldsOK
    <3> QED BY <1>3, <2>1, <3>1 DEF JobSet, ResultSet
  <2>2. CASE ~j.done
    BY <2>2 DEF Running, Current
  <2> QED BY <2>1, <2>2
<1>6. /\ caller' = Replied(c, caller[c].file, caller[c].asked, a)
      /\ UNCHANGED <<edition, map, job, cache>>
  BY DEF Look
<1>7. CacheType' /\ CacheRead'
  BY <1>6 DEF WInv, CacheType, CacheRead
<1>8. caller[c].asked \in Nat
  BY <1>1 DEF CallerSet
<1> HIDE DEF a, j
<1> QED BY <1>5, <1>6, <1>7, <1>8, AnswerKeeps

LEMMA TakeJobKeeps ==
  ASSUME WInv, NEW c \in Callers, NEW v \in 1..MaxVersion, TakeJob(c, v)
  PROVE  WInv'
<1> DEFINE k    == <<caller[c].file, v>>
           keep == {x \in DOMAIN map : ~Forgotten(map[x])}
           free == {j \in JobIds : j \notin Held /\ \A x \in keep : map[x] # j}
           new  == CHOOSE j \in free : TRUE
           taken == [FreeJob EXCEPT !.key = k, !.next = "decide"]
<1>1. /\ caller[c] \in CallerSet /\ caller[c].pc = "missed" /\ CallerOK(caller[c])
      /\ caller[c].file \in Files /\ caller[c].asked \in Nat /\ ~caller[c].stale
      /\ caller[c].asked <= v /\ v <= edition[caller[c].file] /\ v \in Nat
  BY CopiesAssumption DEF WInv, CopiesType, CallerOK, CallerSet, TakeJob
<1>2. k \in FileKeys /\ k[1] = caller[c].file /\ k[2] = v
  BY <1>1 DEF FileKeys
<1>3. k \notin keep => new \in free
  BY DEF TakeJob
<1>4. free \subseteq JobIds /\ keep \subseteq DOMAIN map
  OBVIOUS
<1>5. taken \in JobSet /\ FreeJob \in JobSet /\ FreeJob.next = "rest" /\ ~FreeJob.done
      /\ taken.key = k /\ taken.next = "decide" /\ ~taken.done
  BY <1>2, NothingIsCache DEF FreeJob, JobSet, WorkerAts, ResultSet, None
<1>6. \A j \in JobIds : job'[j] = IF k \notin keep /\ j = new THEN taken
                                  ELSE IF j \in free THEN FreeJob ELSE job[j]
  BY DEF TakeJob
<1>7. map' = IF k \in keep THEN [x \in keep |-> map[x]]
             ELSE [x \in keep \cup {k} |-> IF x = k THEN new ELSE map[x]]
  BY DEF TakeJob
<1>8. caller' = [caller EXCEPT ![c].pc = "holds", ![c].job = map'[k]]
      /\ job' = [j \in JobIds |-> job'[j]] /\ UNCHANGED <<edition, cache>>
  BY DEF TakeJob
<1>9. \A j \in free : job[j].next = "rest" /\ (\A d \in Callers : caller[d].job # j)
                      /\ \A x \in keep : map[x] # j
  BY DEF Held
<1>10. \A x \in DOMAIN map : x \notin keep => job[map[x]].done
  BY DEF Forgotten
<1>11. \A x \in keep : job[map[x]].done => job[map[x]].result.st # "ok"
  BY DEF Forgotten
<1> HIDE DEF k, keep, free, new, taken
<1>12. DOMAIN map' = keep \cup {k} /\ (\A x \in keep : map'[x] = map[x])
       /\ (k \notin keep => map'[k] = new)
  BY <1>7
<1>13. \A x \in DOMAIN map' : map'[x] \in JobIds
  BY <1>3, <1>4, <1>12 DEF WInv, CopiesType
<1>14. CopiesType'
  <2>1. job' \in [JobIds -> JobSet]
    BY <1>5, <1>6, <1>8 DEF WInv, CopiesType
  <2>2. map' \in [DOMAIN map' -> JobIds] /\ DOMAIN map' \subseteq FileKeys
    BY <1>2, <1>4, <1>7, <1>12, <1>13 DEF WInv, CopiesType
  <2>3. caller' \in [Callers -> CallerSet]
    <3>1. map'[k] \in JobIds
      BY <1>12, <1>13
    <3> HIDE <1>8
    <3>2. [caller[c] EXCEPT !.pc = "holds", !.job = map'[k]] \in CallerSet
      BY <1>1, <3>1 DEF CallerSet
    <3> QED BY <1>8, <3>2 DEF WInv, CopiesType
  <2> QED BY <1>8, <2>1, <2>2, <2>3 DEF WInv, CopiesType
<1>15. CacheType' /\ CacheRead'
  BY <1>8 DEF WInv, CacheType, CacheRead
<1>16. \A j \in JobIds : WorkerOK(job[j], j)'
  <2> SUFFICES ASSUME NEW j \in JobIds PROVE WorkerOK(job[j], j)'
    OBVIOUS
  <2>1. CASE k \notin keep /\ j = new
    BY <1>1, <1>2, <1>5, <1>6, <1>8, <1>12, <2>1 DEF WorkerOK
  <2>2. CASE ~(k \notin keep /\ j = new) /\ j \in free
    BY <1>5, <1>6, <2>2 DEF WorkerOK
  <2>3. CASE ~(k \notin keep /\ j = new) /\ j \notin free
    <3>1. job'[j] = job[j] /\ WorkerOK(job[j], j)
      BY <1>6, <2>3 DEF WInv
    <3>2. CASE job[j].next = "rest"
      BY <3>1, <3>2 DEF WorkerOK
    <3>3. CASE job[j].next # "rest"
      <4>1. ~job[j].done /\ job[j].key \in DOMAIN map /\ map[job[j].key] = j
        BY <3>1, <3>3 DEF WorkerOK
      <4>2. job[j].key \in keep
        BY <1>10, <4>1
      <4>3. job[j].key \in DOMAIN map' /\ map'[job[j].key] = j
        BY <1>12, <4>1, <4>2
      <4> QED BY <1>8, <3>1, <3>3, <4>3 DEF WorkerOK, Current
    <3> QED BY <3>2, <3>3
  <2> QED BY <2>1, <2>2, <2>3
<1>17. \A x \in DOMAIN map' : MappedOK(x, job[map[x]])'
  <2> SUFFICES ASSUME NEW x \in DOMAIN map' PROVE MappedOK(x, job'[map'[x]])
    BY DEF MappedOK
  <2>1. CASE x \in keep
    <3>1. map'[x] = map[x] /\ map[x] \notin free /\ map[x] \in JobIds /\ MappedOK(x, job[map[x]])
      BY <1>4, <1>9, <1>12, <2>1 DEF WInv, CopiesType
    <3>2. job'[map[x]] = job[map[x]]
      BY <1>3, <1>6, <3>1
    <3> QED BY <3>1, <3>2
  <2>2. CASE x \notin keep
    <3>1. x = k /\ map'[x] = new /\ k \notin keep /\ new \in JobIds
      BY <1>3, <1>4, <1>12, <2>2
    <3>2. job'[new] = taken
      BY <1>6, <3>1
    <3> QED BY <1>5, <3>1, <3>2 DEF MappedOK
  <2> QED BY <2>1, <2>2
<1>18. \A d \in Callers : CallerOK(caller[d])'
  <2> SUFFICES ASSUME NEW d \in Callers PROVE CallerOK(caller[d])'
    OBVIOUS
  <2>1. CASE d = c
    <3>1. caller'[c].pc = "holds" /\ caller'[c].file = caller[c].file /\ ~caller'[c].stale
          /\ caller'[c].asked = caller[c].asked /\ caller'[c].job = map'[k]
      BY <1>1, <1>8 DEF WInv, CopiesType, CallerSet
    <3>2. map'[k] \in JobIds /\ MappedOK(k, job'[map'[k]])
      BY <1>12, <1>13, <1>17 DEF MappedOK
    <3>3. HoldsOK(caller'[c], job'[map'[k]])
      <4>1. CASE k \in keep
        <5>1. map'[k] = map[k] /\ map[k] \in JobIds /\ job'[map[k]] = job[map[k]]
          BY <1>3, <1>4, <1>6, <1>9, <1>12, <4>1 DEF WInv, CopiesType
        <5> QED BY <1>1, <1>2, <1>11, <3>1, <3>2, <4>1, <5>1 DEF HoldsOK, MappedOK, Current
      <4>2. CASE k \notin keep
        <5>1. job'[map'[k]] = taken
          BY <1>3, <1>4, <1>6, <1>12, <4>2
        <5> QED BY <1>1, <1>2, <1>5, <3>1, <5>1 DEF HoldsOK
      <4> QED BY <4>1, <4>2
    <3>4. CallerOK(caller[c])' <=> /\ ~caller'[c].stale
                                   /\ caller'[c].pc # "idle" => caller'[c].file \in Files
                                   /\ caller'[c].pc = "holds" =>
                                        caller'[c].job \in JobIds /\ HoldsOK(caller'[c], job'[caller'[c].job])
      BY DEF CallerOK, HoldsOK, Current
    <3> QED BY <1>1, <2>1, <3>1, <3>2, <3>3, <3>4
  <2>2. CASE d # c
    <3>1. caller'[d] = caller[d] /\ CallerOK(caller[d])
      BY <1>8, <2>2 DEF WInv, CopiesType
    <3>2. CASE caller[d].pc = "holds"
      <4>1. caller[d].job \in JobIds /\ caller[d].job \notin free /\ HoldsOK(caller[d], job[caller[d].job])
        BY <1>9, <3>1, <3>2 DEF CallerOK
      <4>2. job'[caller[d].job] = job[caller[d].job]
        BY <1>3, <1>6, <4>1
      <4> QED BY <3>1, <4>1, <4>2 DEF CallerOK, HoldsOK, Current
    <3>3. CASE caller[d].pc # "holds"
      BY <3>1, <3>3 DEF CallerOK
    <3> QED BY <3>2, <3>3
  <2> QED BY <2>1, <2>2
<1> QED BY <1>14, <1>15, <1>16, <1>17, <1>18 DEF WInv

-----------------------------------------------------------------------------
\* A worker's steps.

LEMMA Worker ==
  ASSUME WInv, NEW j \in JobIds
  PROVE  /\ job[j] \in JobSet /\ WorkerOK(job[j], j)
         /\ job[j].next # "rest" =>
              /\ job[j].key \in FileKeys /\ FileOf(j) = job[j].key[1] /\ FileOf(j) \in Files
              /\ job[j].key[2] \in Nat /\ edition[FileOf(j)] \in Nat
              /\ job[j].key[2] <= edition[FileOf(j)]
<1>1. job[j] \in JobSet /\ WorkerOK(job[j], j)
  BY DEF WInv, CopiesType
<1>2. CASE job[j].next # "rest"
  <2>1. job[j].key \in FileKeys /\ FileOf(j) = job[j].key[1] /\ job[j].key[2] <= edition[FileOf(j)]
    BY <1>1, <1>2 DEF WInv, CopiesType, WorkerOK, FileOf
  <2>2. FileOf(j) \in Files /\ job[j].key[2] \in Nat
    BY <2>1, CopiesAssumption DEF FileKeys
  <2>3. edition[FileOf(j)] \in Nat
    BY <2>2, CopiesAssumption DEF WInv, CopiesType
  <2> QED BY <1>1, <2>1, <2>2, <2>3
<1> QED BY <1>1, <1>2

LEMMA JobStep ==
  ASSUME WInv, NEW j \in JobIds, NEW x \in JobSet, job' = [job EXCEPT ![j] = x],
         UNCHANGED <<edition, map, caller>>, CacheType', CacheRead', WorkerOK(x, j),
         IF x.next = "rest"
         THEN /\ x.done
              /\ IF job[j].next = "rest" THEN x.result = job[j].result
                 ELSE Current(x.result, job[j].key[1], job[j].key[2])
         ELSE job[j].next # "rest" /\ x.key = job[j].key
  PROVE  WInv'
<1>1. job' \in [JobIds -> JobSet] /\ \A i \in JobIds : job'[i] = IF i = j THEN x ELSE job[i]
  BY DEF WInv, CopiesType
<1>2. CopiesType'
  BY <1>1 DEF WInv, CopiesType
<1>3. \A i \in JobIds : WorkerOK(job[i], i)'
  <2> SUFFICES ASSUME NEW i \in JobIds PROVE WorkerOK(job[i], i)'
    OBVIOUS
  <2>1. WorkerOK(job'[i], i)
    BY <1>1 DEF WInv
  <2> QED BY <2>1 DEF WorkerOK, Current
<1>4. \A k \in DOMAIN map' : MappedOK(k, job[map[k]])'
  <2> SUFFICES ASSUME NEW k \in DOMAIN map PROVE MappedOK(k, job'[map[k]])
    BY DEF MappedOK
  <2>1. map[k] \in JobIds /\ MappedOK(k, job[map[k]])
    BY DEF WInv, CopiesType
  <2> QED BY <1>1, <2>1 DEF MappedOK
<1>5. \A d \in Callers : CallerOK(caller[d])'
  <2> SUFFICES ASSUME NEW d \in Callers PROVE CallerOK(caller[d])'
    OBVIOUS
  <2>1. caller[d] \in CallerSet /\ CallerOK(caller[d]) /\ caller'[d] = caller[d]
    BY DEF WInv, CopiesType
  <2>2. CASE caller[d].pc = "holds"
    <3>1. caller[d].job \in JobIds /\ HoldsOK(caller[d], job[caller[d].job])
      BY <2>1, <2>2 DEF CallerOK
    <3>2. HoldsOK(caller[d], job'[caller[d].job])
      <4>1. CASE caller[d].job # j
        BY <1>1, <3>1, <4>1
      <4>2. CASE caller[d].job = j /\ job[j].next = "rest"
        BY <1>1, <3>1, <4>2 DEF HoldsOK
      <4>3. CASE caller[d].job = j /\ job[j].next # "rest" /\ x.next = "rest"
        <5>1. job[j].key[1] = caller[d].file /\ caller[d].asked <= job[j].key[2]
          BY <3>1, <4>3 DEF HoldsOK
        <5>2. caller[d].asked \in Nat /\ job[j].key[2] \in Nat /\ x.result.plan \in Nat /\ x.result.copy \in Nat
          BY <2>1, <4>3, Worker DEF CallerSet, JobSet, ResultSet
        <5>3. Current(x.result, caller[d].file, caller[d].asked)
          BY <4>3, <5>1, <5>2 DEF Current
        <5> QED BY <1>1, <4>3, <5>3 DEF HoldsOK
      <4>4. CASE caller[d].job = j /\ x.next # "rest"
        BY <1>1, <3>1, <4>4 DEF HoldsOK
      <4> QED BY <4>1, <4>2, <4>3, <4>4
    <3> QED BY <2>1, <3>1, <3>2 DEF CallerOK, HoldsOK, Current
  <2>3. CASE caller[d].pc # "holds"
    BY <2>1, <2>3 DEF CallerOK
  <2> QED BY <2>2, <2>3
<1> QED BY <1>2, <1>3, <1>4, <1>5 DEF WInv

LEMMA SameCache ==
  ASSUME WInv, UNCHANGED <<edition, cache>> PROVE CacheType' /\ CacheRead'
  BY DEF WInv, CacheType, CacheRead

\* A file is kept that was read from its own file, as its key names it or later.
LEMMA KeepsRead ==
  ASSUME WInv, NEW x \in Names, NEW of \in Nat, x[1][2] <= of, of <= edition[x[1][1]],
         cache' = Kept(cache, x, of), UNCHANGED edition
  PROVE  CacheType' /\ CacheRead'
<1>1. cache \in CacheSet /\ IsFiniteSet(DOMAIN cache) /\ CacheRead
  BY DEF WInv, CacheType
<1>2. /\ cache' \in CacheSet /\ DOMAIN cache' = DOMAIN cache \cup {x} /\ IsFiniteSet(DOMAIN cache')
      /\ cache'[x].of = of /\ \A y \in DOMAIN cache \ {x} : cache'[y].of = cache[y].of
  <2> DEFINE d == Kept(cache, x, of)
  <2>1. d \in CacheSet /\ DOMAIN d = DOMAIN cache \cup {x} /\ IsFiniteSet(DOMAIN d)
    BY <1>1, KeptIs
  <2>2. d[x].of = of
    BY <1>1, KeptIs
  <2>3. \A y \in DOMAIN cache \ {x} : d[y].of = cache[y].of
    BY <1>1, KeptIs
  <2> QED BY <2>1, <2>2, <2>3
<1> QED BY <1>1, <1>2 DEF CacheType, CacheRead

LEMMA DecideKeeps ==
  ASSUME WInv, NEW j \in JobIds, Decide(j) PROVE WInv'
<1> DEFINE f == FileOf(j)
           x == IF Key(f) \in Converted THEN [job[j] EXCEPT !.next = "convert", !.plan = edition[f]]
                ELSE [job[j] EXCEPT !.next = "keep", !.plan = edition[f], !.result = Ok(edition[f], 0)]
<1>1. job[j] \in JobSet /\ WorkerOK(job[j], j) /\ job[j].next = "decide"
      /\ edition[f] \in Nat /\ job[j].key[2] \in Nat /\ job[j].key[2] <= edition[f] /\ f = job[j].key[1]
  BY Worker DEF Decide, Step
<1>2. job' = [job EXCEPT ![j] = x]
  BY DEF Decide, After, WInv, CopiesType
<1>3. Key(f) \notin Converted => Current(Ok(edition[f], 0), f, job[j].key[2])
  BY <1>1 DEF Current, Ok, Converts, Key
<1>4. x \in JobSet /\ x.next # "rest" /\ x.key = job[j].key
  BY <1>1 DEF JobSet, WorkerAts, ResultSet, Ok
<1>5. WorkerOK(x, j)
  BY <1>1, <1>3 DEF WorkerOK, JobSet, Ok
<1>6. UNCHANGED <<edition, cache, map, caller>>
  BY DEF Decide
<1> HIDE DEF x
<1> QED BY <1>1, <1>2, <1>4, <1>5, <1>6, SameCache, JobStep

LEMMA ConvertKeeps ==
  ASSUME WInv, NEW j \in JobIds, Convert(j) PROVE WInv'
<1> DEFINE f == FileOf(j)
           r == Ok(job[j].plan, edition[f])
           x == [job[j] EXCEPT !.next = "keep", !.result = r]
<1>1. job[j] \in JobSet /\ WorkerOK(job[j], j) /\ job[j].next = "convert"
      /\ edition[f] \in Nat /\ job[j].key[2] \in Nat /\ job[j].key[2] <= edition[f] /\ f = job[j].key[1]
      /\ job[j].key \in FileKeys /\ job[j].plan \in Nat
  BY Worker DEF Convert, Step, JobSet
<1>2. job' = [job EXCEPT ![j] = x]
  BY DEF Convert, After, WInv, CopiesType
<1>3. job[j].key[2] <= job[j].plan /\ job[j].plan <= edition[f]
  BY <1>1 DEF WorkerOK
<1>4. r \in ResultSet /\ r.st = "ok" /\ Current(r, f, job[j].key[2])
  BY <1>1, <1>3 DEF ResultSet, Ok, Current
<1>5. UNCHANGED <<edition, map, caller>> /\ cache' = Kept(cache, Copy(job[j].key), edition[f])
  BY DEF Convert
<1>6. Copy(job[j].key) \in Names /\ Copy(job[j].key)[1] = job[j].key
  BY <1>1 DEF Copy, Names
<1>7. CacheType' /\ CacheRead'
  BY <1>1, <1>5, <1>6, KeepsRead
<1> HIDE DEF r
<1>8. x \in JobSet /\ x.next # "rest" /\ x.key = job[j].key
  BY <1>1, <1>4 DEF JobSet, WorkerAts
<1>9. WorkerOK(x, j)
  BY <1>1, <1>3, <1>4 DEF WorkerOK, JobSet
<1> HIDE DEF x
<1> QED BY <1>1, <1>2, <1>5, <1>7, <1>8, <1>9, JobStep

LEMMA ConvertFailsKeeps ==
  ASSUME WInv, NEW j \in JobIds, ConvertFails(j) PROVE WInv'
<1> DEFINE x == [job[j] EXCEPT !.next = "evict", !.result = Failed, !.plan = 0]
<1>1. job[j] \in JobSet /\ WorkerOK(job[j], j) /\ job[j].next = "convert"
  BY Worker DEF ConvertFails, Step
<1>2. job' = [job EXCEPT ![j] = x]
  BY DEF ConvertFails, After, WInv, CopiesType
<1>3. x \in JobSet /\ x.next # "rest" /\ x.key = job[j].key
  BY <1>1 DEF JobSet, WorkerAts, ResultSet, Failed
<1>4. WorkerOK(x, j)
  BY <1>1 DEF WorkerOK, JobSet, Failed, Current
<1>5. UNCHANGED <<edition, cache, map, caller>>
  BY DEF ConvertFails
<1> HIDE DEF x
<1> QED BY <1>1, <1>2, <1>3, <1>4, <1>5, SameCache, JobStep

LEMMA KeepPlanKeeps ==
  ASSUME WInv, NEW j \in JobIds, KeepPlan(j) PROVE WInv'
<1> DEFINE x == [job[j] EXCEPT !.next = "evict", !.plan = 0]
<1>1. job[j] \in JobSet /\ WorkerOK(job[j], j) /\ job[j].next = "keep"
      /\ job[j].key \in FileKeys /\ job[j].plan \in Nat /\ FileOf(j) = job[j].key[1]
  BY Worker DEF KeepPlan, Step, JobSet
<1>2. job' = [job EXCEPT ![j] = x]
  BY DEF KeepPlan, After, WInv, CopiesType
<1>3. job[j].key[2] <= job[j].plan /\ job[j].plan <= edition[job[j].key[1]]
  BY <1>1 DEF WorkerOK
<1>4. UNCHANGED <<edition, map, caller>> /\ cache' = Kept(cache, Plan(job[j].key), job[j].plan)
  BY DEF KeepPlan, PlanKey
<1>5. Plan(job[j].key) \in Names /\ Plan(job[j].key)[1] = job[j].key
  BY <1>1 DEF Plan, Names
<1>6. CacheType' /\ CacheRead'
  BY <1>1, <1>3, <1>4, <1>5, KeepsRead
<1>7. x \in JobSet /\ x.next # "rest" /\ x.key = job[j].key
  BY <1>1 DEF JobSet, WorkerAts
<1>8. WorkerOK(x, j)
  BY <1>1 DEF WorkerOK, JobSet
<1> HIDE DEF x
<1> QED BY <1>1, <1>2, <1>4, <1>6, <1>7, <1>8, JobStep

LEMMA EvictListKeeps ==
  ASSUME WInv, NEW j \in JobIds, EvictList(j) PROVE WInv'
<1> DEFINE x == [job[j] EXCEPT !.next = "remove", !.found = cache]
<1>1. job[j] \in JobSet /\ WorkerOK(job[j], j) /\ job[j].next = "evict" /\ cache \in CacheSet
  BY Worker DEF EvictList, Step, WInv, CacheType
<1>2. job' = [job EXCEPT ![j] = x]
  BY DEF EvictList, After, WInv, CopiesType
<1>3. x \in JobSet /\ x.next # "rest" /\ x.key = job[j].key
  BY <1>1 DEF JobSet, WorkerAts
<1>4. WorkerOK(x, j)
  BY <1>1 DEF WorkerOK, JobSet
<1>5. UNCHANGED <<edition, cache, map, caller>>
  BY DEF EvictList
<1> HIDE DEF x
<1> QED BY <1>1, <1>2, <1>3, <1>4, <1>5, SameCache, JobStep

LEMMA EvictRemoveKeeps ==
  ASSUME WInv, NEW j \in JobIds, EvictRemove(j) PROVE WInv'
<1> DEFINE x == [job[j] EXCEPT !.next = "finish", !.found = Nothing]
           S == {y \in DOMAIN job[j].found : Over(job[j].found, y)}
<1>1. job[j] \in JobSet /\ WorkerOK(job[j], j) /\ job[j].next = "remove"
  BY Worker DEF EvictRemove, Step
<1>2. job' = [job EXCEPT ![j] = x]
  BY DEF EvictRemove, After, WInv, CopiesType
<1>3. UNCHANGED <<edition, map, caller>> /\ cache' = Removed(cache, S)
  BY DEF EvictRemove
<1> HIDE DEF S
<1>4. x \in JobSet /\ x.next # "rest" /\ x.key = job[j].key
  BY <1>1, NothingIsCache DEF JobSet, WorkerAts
<1>5. WorkerOK(x, j)
  BY <1>1 DEF WorkerOK, JobSet
<1>6. CacheType' /\ CacheRead'
  <2>1. cache \in CacheSet /\ IsFiniteSet(DOMAIN cache) /\ CacheRead
    BY DEF WInv, CacheType
  <2>2. /\ cache' \in CacheSet /\ DOMAIN cache' = DOMAIN cache \ S /\ IsFiniteSet(DOMAIN cache')
        /\ \A y \in DOMAIN cache \ S : cache'[y].of = cache[y].of
    BY <1>3, <2>1, RemovedIs
  <2> QED BY <1>3, <2>1, <2>2 DEF CacheType, CacheRead
<1> HIDE DEF x
<1> QED BY <1>1, <1>2, <1>3, <1>4, <1>5, <1>6, JobStep

LEMMA DoneKeeps ==
  ASSUME WInv, NEW j \in JobIds, Done(j) PROVE WInv'
<1> DEFINE x == [job[j] EXCEPT !.next = "rest", !.done = TRUE, !.key = NoKey]
<1>1. job[j] \in JobSet /\ WorkerOK(job[j], j) /\ job[j].next = "finish"
  BY Worker DEF Done, Step
<1>2. job' = [job EXCEPT ![j] = x]
  BY DEF Done, After, WInv, CopiesType
<1>3. x \in JobSet /\ x.next = "rest" /\ x.done /\ x.result = job[j].result
  BY <1>1 DEF JobSet, WorkerAts
<1>4. WorkerOK(x, j) /\ Current(x.result, job[j].key[1], job[j].key[2])
  BY <1>1, <1>3 DEF WorkerOK
<1>5. UNCHANGED <<edition, cache, map, caller>>
  BY DEF Done
<1> HIDE DEF x
<1> QED BY <1>1, <1>2, <1>3, <1>4, <1>5, SameCache, JobStep

LEMMA ExpireKeeps ==
  ASSUME WInv, NEW j \in JobIds, Expire(j) PROVE WInv'
<1> DEFINE x == [job[j] EXCEPT !.old = TRUE]
<1>1. job[j] \in JobSet /\ WorkerOK(job[j], j) /\ job[j].done
  BY Worker DEF Expire
<1>2. job' = [job EXCEPT ![j] = x]
  BY DEF Expire, WInv, CopiesType
<1>3. job[j].next = "rest"
  BY <1>1 DEF WorkerOK
<1>4. x \in JobSet /\ x.next = "rest" /\ x.done /\ x.result = job[j].result
  BY <1>1, <1>3 DEF JobSet
<1>5. WorkerOK(x, j)
  BY <1>1, <1>3, <1>4 DEF WorkerOK
<1>6. UNCHANGED <<edition, cache, map, caller>>
  BY DEF Expire
<1> HIDE DEF x
<1> QED BY <1>2, <1>3, <1>4, <1>5, <1>6, SameCache, JobStep

LEMMA ChangeKeeps ==
  ASSUME WInv, NEW f \in Files, Change(f) PROVE WInv'
<1>1. /\ edition' \in [Files -> 1..MaxVersion]
      /\ \A g \in Files : edition[g] \in Nat /\ edition'[g] \in Nat /\ edition[g] <= edition'[g]
      /\ UNCHANGED <<cache, map, job, caller>>
  BY CopiesAssumption DEF WInv, CopiesType, Change
<1>2. CopiesType' /\ CacheType'
  BY <1>1 DEF WInv, CopiesType, CacheType
<1>3. CacheRead'
  <2> SUFFICES ASSUME NEW x \in DOMAIN cache
               PROVE  x[1][2] <= cache[x].of /\ cache[x].of <= edition'[x[1][1]]
    BY <1>1 DEF CacheRead
  <2>1. x[1][1] \in Files /\ cache[x].of \in Nat /\ x[1][2] <= cache[x].of
        /\ cache[x].of <= edition[x[1][1]]
    BY InCacheSet DEF WInv, CacheType, CacheRead, Names, FileKeys
  <2> QED BY <1>1, <2>1
<1>4. \A j \in JobIds : WorkerOK(job[j], j)'
  <2> SUFFICES ASSUME NEW j \in JobIds PROVE WorkerOK(job[j], j)'
    OBVIOUS
  <2>1. job[j] \in JobSet /\ WorkerOK(job[j], j) /\ job[j].plan \in Nat
    BY Worker DEF JobSet
  <2>2. CASE job[j].next = "rest"
    BY <1>1, <2>1, <2>2 DEF WorkerOK
  <2>3. CASE job[j].next # "rest"
    <3>1. job[j].key[1] \in Files /\ job[j].key[2] \in Nat
      BY <2>3, Worker
    <3> QED BY <1>1, <2>1, <2>3, <3>1 DEF WorkerOK, Current
  <2> QED BY <2>2, <2>3
<1>5. \A k \in DOMAIN map' : MappedOK(k, job[map[k]])'
  BY <1>1 DEF WInv, MappedOK
<1>6. \A c \in Callers : CallerOK(caller[c])'
  BY <1>1 DEF WInv, CallerOK, HoldsOK, Current
<1> QED BY <1>2, <1>3, <1>4, <1>5, <1>6 DEF WInv

LEMMA RestartedKeeps == ASSUME WInv, Restarted PROVE WInv'
<1> USE NothingIsCache
<1>1. FreeJob \in JobSet /\ FreeJob.next = "rest" /\ ~FreeJob.done
  BY DEF FreeJob, JobSet, WorkerAts, ResultSet, None
<1>2. IdleCaller \in CallerSet /\ IdleCaller.pc = "idle" /\ ~IdleCaller.stale
  BY DEF IdleCaller, CallerSet
<1>3. CopiesType'
  BY <1>1, <1>2 DEF Restarted, WInv, CopiesType, Nothing
<1>4. CacheType' /\ CacheRead'
  BY SameCache DEF Restarted
<1>5. \A j \in JobIds : WorkerOK(job[j], j)'
  BY <1>1 DEF Restarted, WorkerOK
<1>6. \A k \in DOMAIN map' : MappedOK(k, job[map[k]])'
  BY DEF Restarted
<1>7. \A c \in Callers : CallerOK(caller[c])'
  BY <1>2 DEF Restarted, CallerOK
<1> QED BY <1>3, <1>4, <1>5, <1>6, <1>7 DEF WInv

LEMMA WStep == WInv /\ [CNext]_cvars => WInv'
<1> SUFFICES ASSUME WInv, [CNext]_cvars PROVE WInv'
  OBVIOUS
<1>1. ASSUME NEW c \in Callers, Request(c) PROVE WInv'
  BY <1>1, LookKeeps, TakeJobKeeps, HitKeeps, MissKeeps DEF Request
<1>2. ASSUME NEW j \in JobIds, Work(j) PROVE WInv'
  BY <1>2, DecideKeeps, ConvertKeeps, ConvertFailsKeeps, KeepPlanKeeps, EvictListKeeps,
     EvictRemoveKeeps, DoneKeeps DEF Work
<1>3. CASE UNCHANGED cvars
  BY <1>3 DEF cvars, WInv, CopiesType, CacheType, CacheRead, WorkerOK, MappedOK, CallerOK,
              HoldsOK, Current
<1> QED BY <1>1, <1>2, <1>3, ExpireKeeps, ChangeKeeps, RestartedKeeps DEF CNext

\* The invariant of the web copies (job(), the worker and cached() of web_copy.rs):
\* a worker has the job of its key to itself, and what it, the cache and the answers
\* say is of the file as it was at its key, or later.
THEOREM CopiesInvariant == CSpec => []WInv
  BY WInit, WStep, PTL DEF CSpec

\* No two workers make one copy (the map of jobs in web_copy.rs).
THEOREM OneWorker == CSpec => []OneWorkerPerKey
<1>1. WInv => OneWorkerPerKey
  <2> SUFFICES ASSUME WInv PROVE OneWorkerPerKey
    OBVIOUS
  <2>1. CTypeOK
    <3>1. DOMAIN cache \subseteq FileKeys \X {"plan", "copy"}
      BY InCacheSet DEF WInv, CacheType, Names
    <3>2. \A j \in JobIds : /\ job[j].key \in FileKeys \cup {NoKey}
                            /\ job[j].done => job[j].result.st \in {"ok", "failed"}
      BY Worker DEF JobSet, WorkerOK
    <3> QED BY <3>1, <3>2 DEF CTypeOK, WInv, CopiesType, CallerSet
  <2> QED BY <2>1 DEF OneWorkerPerKey, WInv, WorkerOK
<1> QED BY <1>1, CopiesInvariant, PTL

\* Changing a file means deciding again: no answer, and nothing kept for a file, is of
\* the file as it was before (cached(), key() and the worker of web_copy.rs).
THEOREM CopiesCurrent == CSpec => []NothingStale
<1>1. WInv => NothingStale
  <2> SUFFICES ASSUME WInv PROVE NothingStale
    OBVIOUS
  <2>1. AnswersCurrent
    BY DEF AnswersCurrent, WInv, CallerOK
  <2>2. CacheIsCurrent
    <3> SUFFICES ASSUME NEW x \in DOMAIN cache, x[1] = Key(x[1][1])
                 PROVE  cache[x].of = edition[x[1][1]]
      BY DEF CacheIsCurrent
    <3>1. x[1][1] \in Files /\ cache[x].of \in Nat /\ x[1][2] <= cache[x].of
          /\ cache[x].of <= edition[x[1][1]]
      BY InCacheSet DEF WInv, CacheType, CacheRead, Names, FileKeys
    <3>2. x[1][2] = edition[x[1][1]] /\ edition[x[1][1]] \in Nat
      BY <3>1, CopiesAssumption DEF Key, WInv, CopiesType
    <3> QED BY <3>1, <3>2
  <2> QED BY <2>1, <2>2 DEF NothingStale
<1> QED BY <1>1, CopiesInvariant, PTL

-----------------------------------------------------------------------------
\* The cache's limit.

\* A worker x is yet to list the folder, or has listed all that is in it now.
Lists(x) == x.next \in {"decide", "convert", "keep", "evict"}
Knows(x) == x.next = "remove" /\ DOMAIN cache \subseteq DOMAIN x.found
Within(S) == Total(S) <= MaxBytes

\* While a worker is about to remove, the cache is within its limit or will be.
Evicts ==
  /\ \A j \in JobIds : IsFiniteSet(DOMAIN job[j].found)
  /\ (\E j \in JobIds : job[j].next = "remove") =>
        Within(DOMAIN cache) \/ \E j \in JobIds : Lists(job[j]) \/ Knows(job[j])

\* A finite set has a member at which f is largest.
LEMMA Oldest ==
  ASSUME NEW S, IsFiniteSet(S), S # {}, NEW f \in [S -> Nat]
  PROVE  \E x \in S : \A y \in S : f[y] <= f[x]
<1> DEFINE Up(x) == {y \in S : f[y] <= f[x]}
           over(x) == Cardinality(S) - Cardinality(Up(x))
           T == {over(x) : x \in S}
<1>1. \A x \in S : Up(x) \subseteq S /\ IsFiniteSet(Up(x)) /\ Cardinality(Up(x)) \in Nat
                   /\ Cardinality(Up(x)) <= Cardinality(S)
  BY FS_Subset, FS_CardinalityType
<1>2. Cardinality(S) \in Nat
  BY FS_CardinalityType
<1>3. T \subseteq Nat /\ T # {}
  <2>1. \A x \in S : over(x) \in Nat
    BY <1>1, <1>2
  <2> HIDE DEF over
  <2> QED BY <2>1
<1>4. PICK t \in T : \A u \in T : ~(<<u, t>> \in OpToRel(<, Nat))
  BY <1>3, WFMin, NatLessThanWellFounded, Zenon
<1>5. \A u \in T : ~(u < t)
  BY <1>3, <1>4 DEF OpToRel
<1>6. PICK x \in S : t = Cardinality(S) - Cardinality(Up(x))
  OBVIOUS
<1>7. ASSUME NEW y \in S, f[y] > f[x] PROVE FALSE
  <2>1. Up(x) \subseteq Up(y) /\ y \in Up(y) /\ y \notin Up(x)
    BY <1>7
  <2>2. Cardinality(Up(x)) <= Cardinality(Up(y)) /\ Cardinality(Up(x)) # Cardinality(Up(y))
    BY <1>1, <2>1, FS_Subset
  <2>3. Cardinality(S) - Cardinality(Up(y)) \in T
    OBVIOUS
  <2> HIDE DEF T, Up
  <2> QED BY <1>1, <1>2, <1>5, <1>6, <2>2, <2>3
<1> QED BY <1>7

\* What a folder takes, and less for a part of it.
LEMMA TotalGrows ==
  ASSUME NEW S, IsFiniteSet(S), NEW T \in SUBSET S
  PROVE  Total(T) <= Total(S)
<1>1. /\ Copies(T) \subseteq Copies(S) /\ T \ Copies(T) \subseteq S \ Copies(S)
      /\ IsFiniteSet(Copies(S)) /\ IsFiniteSet(S \ Copies(S))
  BY FS_Subset DEF Copies
<1>2. PICK a \in Nat, b \in Nat, c \in Nat, d \in Nat :
        /\ a = Cardinality(Copies(T)) /\ b = Cardinality(Copies(S))
        /\ c = Cardinality(T \ Copies(T)) /\ d = Cardinality(S \ Copies(S))
        /\ a <= b /\ c <= d
  BY <1>1, FS_Subset, FS_CardinalityType
<1>3. CopySize \in Nat /\ PlanSize \in Nat
  BY CopiesAssumption
<1>4. CopySize * a <= CopySize * b /\ PlanSize * c <= PlanSize * d
  BY <1>2, <1>3
<1>5. CopySize * a \in Nat /\ CopySize * b \in Nat /\ PlanSize * c \in Nat /\ PlanSize * d \in Nat
  BY <1>2, <1>3
<1> QED BY <1>2, <1>4, <1>5 DEF Total

LEMMA TotalType ==
  ASSUME NEW S, IsFiniteSet(S) PROVE Total(S) \in Nat /\ Total({}) = 0
<1>1. IsFiniteSet(Copies(S)) /\ IsFiniteSet(S \ Copies(S))
  BY FS_Subset DEF Copies
<1>2. Cardinality(Copies(S)) \in Nat /\ Cardinality(S \ Copies(S)) \in Nat
  BY <1>1, FS_CardinalityType
<1>3. Copies({}) = {} /\ {} \ Copies({}) = {} /\ Cardinality({}) = 0
  BY FS_EmptySet DEF Copies
<1>4. Total({}) = 0
  <2>1. Cardinality(Copies({})) = 0 /\ Cardinality({} \ Copies({})) = 0
    BY <1>3
  <2>2. \A a, b : a = 0 /\ b = 0 => CopySize * a + PlanSize * b = 0
    BY CopiesAssumption
  <2> QED BY <2>1, <2>2 DEF Total
<1>5. CopySize * Cardinality(Copies(S)) \in Nat /\ PlanSize * Cardinality(S \ Copies(S)) \in Nat
  BY <1>2, CopiesAssumption
<1> QED BY <1>4, <1>5 DEF Total

\* A worker that found all there is brings the cache within its limit.
LEMMA EvictsEnough ==
  ASSUME WInv, NEW j \in JobIds, EvictRemove(j), Knows(job[j]), IsFiniteSet(DOMAIN job[j].found)
  PROVE  Within(DOMAIN cache')
<1> DEFINE seen == job[j].found
           left  == DOMAIN cache'
<1>1. seen \in CacheSet /\ cache \in CacheSet /\ IsFiniteSet(DOMAIN cache)
  BY Worker DEF JobSet, WInv, CacheType
<1>2. left = DOMAIN cache \ {x \in DOMAIN seen : Over(seen, x)}
  <2> DEFINE S == {x \in DOMAIN seen : Over(seen, x)}
  <2>1. cache' = Removed(cache, S)
    BY DEF EvictRemove
  <2> HIDE DEF S
  <2>2. DOMAIN cache' = DOMAIN cache \ S
    BY <1>1, <2>1, RemovedIs
  <2> QED BY <2>2 DEF S
<1>3. left \subseteq DOMAIN seen /\ IsFiniteSet(left) /\ left \subseteq DOMAIN cache
  BY <1>1, <1>2, FS_Subset DEF Knows
<1>4. CASE left = {}
  BY <1>4, <1>3, TotalType, CopiesAssumption DEF Within
<1>5. CASE left # {}
  <2> DEFINE age == [x \in left |-> seen[x].age]
  <2>1. age \in [left -> Nat]
    BY <1>1, <1>3, InCacheSet
  <2>2. PICK x \in left : \A y \in left : age[y] <= age[x]
    BY <1>3, <1>5, <2>1, Oldest
  <2>3. \A y \in left : seen[y].age <= seen[x].age
    BY <2>2
  <2> DEFINE R == {y \in DOMAIN seen : seen[y].age <= seen[x].age \/ y \notin DOMAIN cache}
  <2>4. left \in SUBSET R /\ IsFiniteSet(R)
    BY <1>3, <2>3, FS_Subset
  <2>5. x \in DOMAIN seen /\ ~Over(seen, x)
    BY <1>2, <1>3
  <2>6. ~(Total(R) > MaxBytes)
    BY <2>5 DEF Over, Remaining
  <2> HIDE DEF R, left, seen
  <2>7. Total(left) <= Total(R) /\ Total(R) \in Nat /\ Total(left) \in Nat
    BY <1>3, <2>4, TotalGrows, TotalType
  <2> QED BY <2>6, <2>7, CopiesAssumption DEF Within, left
<1> QED BY <1>4, <1>5

\* Removing keeps within the limit.
LEMMA WithinStays ==
  ASSUME WInv, NEW j \in JobIds, EvictRemove(j), Within(DOMAIN cache)
  PROVE  DOMAIN cache' \subseteq DOMAIN cache /\ Within(DOMAIN cache')
<1> DEFINE S == {y \in DOMAIN job[j].found : Over(job[j].found, y)}
<1>1. cache \in CacheSet /\ IsFiniteSet(DOMAIN cache) /\ cache' = Removed(cache, S)
  BY DEF WInv, CacheType, EvictRemove
<1> HIDE DEF S
<1>2. DOMAIN cache' \subseteq DOMAIN cache
  BY <1>1, RemovedIs
<1>3. Total(DOMAIN cache') <= Total(DOMAIN cache) /\ Total(DOMAIN cache) \in Nat
      /\ Total(DOMAIN cache') \in Nat
  BY <1>1, <1>2, TotalGrows, TotalType, FS_Subset
<1> QED BY <1>2, <1>3, CopiesAssumption DEF Within

LEMMA EvictsStep ==
  ASSUME WInv, Evicts, [CNext]_cvars PROVE Evicts'
<1>1. ASSUME NEW j \in JobIds, EvictRemove(j) PROVE Evicts'
  <2> DEFINE x == [job[j] EXCEPT !.next = "finish", !.found = Nothing]
  <2>1. job[j] \in JobSet /\ job[j].next = "remove" /\ job \in [JobIds -> JobSet]
        /\ job' = [job EXCEPT ![j] = x]
    BY <1>1, Worker DEF EvictRemove, Step, After, WInv, CopiesType
  <2>2. x.next = "finish" /\ x.found = Nothing
    BY <2>1 DEF JobSet
  <2> HIDE DEF x
  <2>3. \A i \in JobIds : job'[i] = IF i = j THEN x ELSE job[i]
    BY <2>1
  <2>4. DOMAIN cache' \subseteq DOMAIN cache /\ IsFiniteSet(DOMAIN cache)
    <3> DEFINE S == {y \in DOMAIN job[j].found : Over(job[j].found, y)}
    <3>1. cache' = Removed(cache, S)
      BY <1>1 DEF EvictRemove
    <3> HIDE DEF S
    <3> QED BY <3>1, RemovedIs DEF WInv, CacheType
  <2>5. \A i \in JobIds : IsFiniteSet(DOMAIN job'[i].found)
    BY <2>2, <2>3, NothingIsCache DEF Evicts
  <2>6. CASE Within(DOMAIN cache) \/ Knows(job[j])
    <3>1. Within(DOMAIN cache)'
      <4>1. CASE Knows(job[j])
        BY <1>1, <4>1, EvictsEnough DEF Evicts, Within
      <4>2. CASE Within(DOMAIN cache)
        BY <1>1, <4>2, WithinStays DEF Within
      <4> QED BY <2>6, <4>1, <4>2
    <3> QED BY <2>5, <3>1 DEF Evicts
  <2>7. CASE \E i \in JobIds : Lists(job[i]) \/ (i # j /\ Knows(job[i]))
    <3>1. PICK i \in JobIds : Lists(job[i]) \/ (i # j /\ Knows(job[i]))
      BY <2>7
    <3>2. i # j /\ job'[i] = job[i]
      BY <2>1, <2>3, <3>1 DEF Lists
    <3>3. Lists(job'[i]) \/ (job'[i].next = "remove" /\ DOMAIN cache' \subseteq DOMAIN job'[i].found)
      BY <2>4, <3>1, <3>2 DEF Knows
    <3>4. (Lists(job[i]) \/ Knows(job[i]))'
      BY <3>3 DEF Lists, Knows
    <3> QED BY <2>5, <3>4 DEF Evicts
  <2> QED BY <2>1, <2>6, <2>7 DEF Evicts
<1>2. ASSUME NEW j \in JobIds, EvictList(j) PROVE Evicts'
  <2> DEFINE x == [job[j] EXCEPT !.next = "remove", !.found = cache]
  <2>1. job[j] \in JobSet /\ job \in [JobIds -> JobSet] /\ job' = [job EXCEPT ![j] = x]
        /\ cache' = cache /\ IsFiniteSet(DOMAIN cache)
    BY <1>2, Worker DEF EvictList, After, WInv, CopiesType, CacheType
  <2>2. x.next = "remove" /\ x.found = cache
    BY <2>1 DEF JobSet
  <2> HIDE DEF x
  <2>3. \A i \in JobIds : job'[i] = IF i = j THEN x ELSE job[i]
    BY <2>1
  <2> QED BY <2>1, <2>2, <2>3 DEF Evicts, Knows
<1>3. ASSUME NEW j \in JobIds, NEW x, job' = [job EXCEPT ![j] = x], x.found = job[j].found,
             Lists(x)
      PROVE  Evicts'
  <2>1. job'[j] = x /\ \A i \in JobIds : job'[i] = IF i = j THEN x ELSE job[i]
    BY <1>3 DEF WInv, CopiesType
  <2>2. \A i \in JobIds : IsFiniteSet(DOMAIN job'[i].found)
    BY <1>3, <2>1 DEF Evicts
  <2>3. Lists(job[j])'
    BY <1>3, <2>1 DEF Lists
  <2> QED BY <2>2, <2>3 DEF Evicts
<1>4. ASSUME NEW j \in JobIds, Decide(j) \/ Convert(j) \/ ConvertFails(j) \/ KeepPlan(j)
      PROVE  Evicts'
  <2>1. job[j] \in JobSet /\ job \in [JobIds -> JobSet]
    BY Worker DEF WInv, CopiesType
  <2>2. /\ job' = [job EXCEPT ![j] = job'[j]] /\ job'[j].found = job[j].found
        /\ job'[j].next \in {"convert", "keep", "evict"}
    BY <1>4, <2>1 DEF Decide, Convert, ConvertFails, KeepPlan, After, JobSet
  <2> QED BY <1>3, <2>2 DEF Lists
<1>5. ASSUME NEW j \in JobIds, Done(j) \/ Expire(j) PROVE Evicts'
  <2>1. job[j] \in JobSet /\ job \in [JobIds -> JobSet] /\ WorkerOK(job[j], j)
    BY Worker DEF WInv, CopiesType
  <2>2. job[j].next \in {"finish", "rest"}
    BY <1>5, <2>1 DEF Done, Expire, Step, WorkerOK
  <2>3. /\ job' = [job EXCEPT ![j] = job'[j]] /\ job'[j].found = job[j].found
        /\ job'[j].next = "rest" /\ cache' = cache
    BY <1>5, <2>1, <2>2 DEF Done, Expire, After, JobSet, WorkerOK
  <2>4. \A i \in JobIds : i # j => job'[i] = job[i]
    BY <2>1, <2>3
  <2>5. \A i \in JobIds : IsFiniteSet(DOMAIN job'[i].found)
    BY <2>3, <2>4 DEF Evicts
  <2>6. \A i \in JobIds : /\ job'[i].next = "remove" => i # j
                          /\ Lists(job[i]) \/ Knows(job[i]) => i # j
    BY <2>2, <2>3 DEF Lists, Knows
  <2> QED BY <2>3, <2>4, <2>5, <2>6 DEF Evicts, Lists, Knows, Within
<1>6. ASSUME NEW c \in Callers, NEW v \in 1..MaxVersion, TakeJob(c, v) PROVE Evicts'
  <2>1. \A i \in JobIds : \/ job'[i] = job[i]
                          \/ job'[i] = FreeJob /\ job[i].next = "rest"
                          \/ job'[i].next = "decide" /\ job'[i].found = Nothing /\ job[i].next = "rest"
    <3> DEFINE k    == <<caller[c].file, v>>
               keep == {x \in DOMAIN map : ~Forgotten(map[x])}
               free == {j \in JobIds : j \notin Held /\ \A x \in keep : map[x] # j}
               new  == CHOOSE j \in free : TRUE
    <3>1. /\ k \notin keep => new \in free
          /\ \A j \in JobIds : job'[j] = IF k \notin keep /\ j = new
                                         THEN [FreeJob EXCEPT !.key = k, !.next = "decide"]
                                         ELSE IF j \in free THEN FreeJob ELSE job[j]
      BY <1>6 DEF TakeJob
    <3>2. \A j \in free : job[j].next = "rest"
      BY DEF Held
    <3> HIDE DEF k, keep, free, new
    <3> QED BY <3>1, <3>2 DEF FreeJob
  <2>2. cache' = cache /\ FreeJob.next = "rest" /\ FreeJob.found = Nothing
    BY <1>6 DEF TakeJob, FreeJob
  <2>3. \A i \in JobIds : IsFiniteSet(DOMAIN job'[i].found)
    BY <2>1, <2>2, NothingIsCache DEF Evicts
  <2>4. \A i \in JobIds : /\ job'[i].next = "remove" => job'[i] = job[i]
                          /\ Lists(job[i]) \/ Knows(job[i]) => job'[i] = job[i]
    BY <2>1, <2>2 DEF Lists, Knows
  <2> QED BY <2>2, <2>3, <2>4 DEF Evicts, Lists, Knows, Within
<1>7. ASSUME NEW c \in Callers, NEW f \in Files, Hit(c, f) PROVE Evicts'
  <2>1. job' = job /\ DOMAIN cache' = DOMAIN cache
    <3>1. cache \in CacheSet /\ IsFiniteSet(DOMAIN cache)
      BY DEF WInv, CacheType
    <3> DEFINE d == Marked(cache, Copy(Key(f)))
    <3>2. d \in CacheSet /\ DOMAIN d = DOMAIN cache
      BY <3>1, TouchedIs
    <3>3. cache' = Marked(d, Plan(Key(f))) \/ cache' = Marked(cache, Plan(Key(f)))
      BY <1>7 DEF Hit
    <3> HIDE DEF d
    <3>4. DOMAIN Marked(d, Plan(Key(f))) = DOMAIN cache
      BY <3>1, <3>2, TouchedIs
    <3>5. DOMAIN Marked(cache, Plan(Key(f))) = DOMAIN cache
      BY <3>1, TouchedIs
    <3> QED BY <1>7, <3>3, <3>4, <3>5 DEF Hit
  <2> QED BY <2>1 DEF Evicts, Lists, Knows, Within
<1>8. ASSUME UNCHANGED <<job, cache>> PROVE Evicts'
  BY <1>8 DEF Evicts, Lists, Knows, Within
<1>9. CASE Restarted
  BY <1>9, NothingIsCache DEF Restarted, FreeJob, Evicts
<1>10. ASSUME NEW c \in Callers, Request(c) PROVE Evicts'
  BY <1>6, <1>7, <1>8, <1>10 DEF Request, Look, Miss
<1>11. ASSUME NEW j \in JobIds, Work(j) \/ Expire(j) PROVE Evicts'
  BY <1>1, <1>2, <1>4, <1>5, <1>11 DEF Work
<1>12. CASE UNCHANGED cvars \/ \E f \in Files : Change(f)
  BY <1>8, <1>12 DEF cvars, Change
<1> QED BY <1>9, <1>10, <1>11, <1>12 DEF CNext

\* The cache's limit is kept once the last worker has evicted (evict() of web_copy.rs),
\* however the workers' listings, removals and additions have crossed.
THEOREM EvictionEnds == CSpec => EvictionBounds
<1> DEFINE Ends == (\E j \in JobIds : job[j].next = "remove" /\ job'[j].next = "finish")
                     /\ (\A j \in JobIds : job'[j].next \in {"rest", "finish"})
                   => Total(DOMAIN cache') <= MaxBytes
<1>1. CInit => Evicts
  BY NothingIsCache DEF CInit, Evicts, FreeJob
<1>2. CSpec => []Evicts
  BY <1>1, EvictsStep, CopiesInvariant, PTL DEF CSpec
<1>3. WInv /\ Evicts /\ [CNext]_cvars => Ends
  <2> SUFFICES ASSUME WInv, Evicts, [CNext]_cvars, NEW j \in JobIds,
                      job[j].next = "remove", job'[j].next = "finish",
                      \A i \in JobIds : job'[i].next \in {"rest", "finish"}
               PROVE  Within(DOMAIN cache')
    BY DEF Within
  <2>1. job \in [JobIds -> JobSet] /\ job[j] \in JobSet /\ WorkerOK(job[j], j)
    BY Worker DEF WInv, CopiesType
  <2>2. ASSUME NEW i \in JobIds, Work(i) \/ Expire(i) PROVE EvictRemove(j)
    <3>1. CASE i # j
      <4>1. job'[j] = job[j]
        BY <2>1, <2>2, <3>1 DEF Work, Expire, Decide, Convert, ConvertFails, KeepPlan, EvictList,
                                EvictRemove, Done, After
      <4> QED BY <4>1
    <3>2. CASE i = j
      BY <2>1, <2>2, <3>2 DEF Work, Expire, Decide, Convert, ConvertFails, KeepPlan, EvictList,
                              Done, Step, WorkerOK
    <3> QED BY <3>1, <3>2
  <2>3. ~\E c \in Callers : Request(c)
    <3>1. ASSUME NEW c \in Callers, NEW v \in 1..MaxVersion, TakeJob(c, v) PROVE FALSE
      <4>1. job'[j] = job[j] \/ job'[j].next \in {"rest", "decide"}
        BY <3>1 DEF TakeJob, FreeJob
      <4> QED BY <4>1
    <3> QED BY <3>1 DEF Request, Look, Hit, Miss
  <2>4. EvictRemove(j)
    BY <2>2, <2>3 DEF CNext, Change, Restarted, FreeJob, cvars
  <2>5. \A i \in JobIds \ {j} : job'[i] = job[i]
    BY <2>1, <2>4 DEF EvictRemove, After
  <2>6. Within(DOMAIN cache) \/ Knows(job[j])
    BY <2>5 DEF Evicts, Lists, Knows
  <2>7. CASE Knows(job[j])
    BY <2>4, <2>7, EvictsEnough DEF Evicts
  <2>8. CASE Within(DOMAIN cache)
    BY <2>4, <2>8, WithinStays
  <2> QED BY <2>6, <2>7, <2>8
<1> QED BY <1>2, <1>3, CopiesInvariant, PTL DEF CSpec, EvictionBounds

-----------------------------------------------------------------------------
(* The chain of edits.                                                     *)

\* Taking the oldest edit leaves a chain from the text it gives.
LEMMA TailLeads ==
  ASSUME NEW x \in [buf : Texts, ver : Nat, push : {FALSE}],
         NEW q \in Seq(Delta), q # <<>>,
         NEW f \in Field, Leads(x, q, f), NEW m
  PROVE  /\ ApplyDelta(x, Head(q), m) = [buf |-> Head(q).to, ver |-> Head(q).ver, push |-> FALSE]
         /\ Head(q).ver \in Nat /\ Head(q).to \in Texts /\ x.ver < Head(q).ver
         /\ Leads(ApplyDelta(x, Head(q), m), Tail(q), f)
<1> DEFINE h == Head(q)
           y == [buf |-> h.to, ver |-> h.ver, push |-> FALSE]
           r == Tail(q)
<1>1. /\ h = q[1] /\ h \in Delta /\ Len(q) \in Nat /\ Len(q) >= 1
      /\ r \in Seq(Delta) /\ Len(r) = Len(q) - 1
      /\ \A i \in 1..Len(r) : r[i] = q[i + 1]
  BY HeadTailProperties
<1> HIDE DEF h, r
<1>2. /\ h.from = x.buf /\ x.ver < h.ver
      /\ \A i \in 1..(Len(q) - 1) : q[i].to = q[i + 1].from /\ q[i].ver < q[i + 1].ver
      /\ q[Len(q)].to = f.buf /\ q[Len(q)].ver = f.ver
  BY <1>1 DEF Leads
<1>3. ~x.push /\ h.ver \in Nat /\ x.ver \in Nat /\ h.to \in Texts
  BY <1>1 DEF Delta
<1>4. ApplyDelta(x, h, m) = y
  <2>1. ~(x.push \/ h.ver <= x.ver)
    BY <1>2, <1>3
  <2>2. ApplyDelta(x, h, m) = [x EXCEPT !.buf = h.to, !.ver = h.ver]
    BY <1>2, <2>1 DEF ApplyDelta, Spliced
  <2> QED
    BY <2>2
<1>5. Leads(y, r, f)
  <2>1. CASE r = <<>>
    <3>1. Len(q) = 1
      BY <2>1, <1>1
    <3> QED
      BY <3>1, <2>1, <1>1, <1>2 DEF Leads
  <2>2. CASE r # <<>>
    <3>1. Len(r) >= 1
      BY <2>2, <1>1, EmptySeq
    <3>2. r[1].from = y.buf /\ y.ver < r[1].ver
      <4>1. r[1] = q[2] /\ 1 \in 1..(Len(q) - 1)
        BY <3>1, <1>1
      <4> QED
        BY <4>1, <1>1, <1>2
    <3>3. ASSUME NEW i \in 1..(Len(r) - 1)
          PROVE  r[i].to = r[i + 1].from /\ r[i].ver < r[i + 1].ver
      <4>1. /\ i \in 1..Len(r) /\ i + 1 \in 1..Len(r) /\ i + 1 \in 1..(Len(q) - 1)
        BY <1>1
      <4>2. r[i] = q[i + 1] /\ r[i + 1] = q[(i + 1) + 1]
        BY <4>1, <1>1
      <4> QED
        BY <4>1, <4>2, <1>2
    <3>4. r[Len(r)].to = f.buf /\ r[Len(r)].ver = f.ver
      <4>1. Len(r) \in 1..Len(r) /\ Len(r) + 1 = Len(q)
        BY <3>1, <1>1
      <4> QED
        BY <4>1, <1>1, <1>2
    <3> QED
      BY <2>2, <3>2, <3>3, <3>4 DEF Leads
  <2> QED
    BY <2>1, <2>2
<1> QED
  BY <1>2, <1>3, <1>4, <1>5 DEF h, r

\* Typing extends the chain to what the field shows now.
LEMMA AppendLeads ==
  ASSUME NEW x \in [buf : Texts, ver : Nat, push : BOOLEAN],
         NEW q \in Seq(Delta), NEW f \in Field, NEW t \in Texts, Leads(x, q, f)
  PROVE  Leads(x, Append(q, DeltaOf(f, t)), Typed(f, t))
<1> DEFINE d == DeltaOf(f, t)
           g == Typed(f, t)
           r == Append(q, d)
<1>1. /\ d.from = f.buf /\ d.to = t /\ d.ver = f.ver + 1 /\ f.ver \in Nat
      /\ g.buf = t /\ g.ver = f.ver + 1
  BY DEF DeltaOf, Typed, Field
<1>2. /\ Len(q) \in Nat /\ r # <<>> /\ Len(r) = Len(q) + 1 /\ r[Len(r)] = d
      /\ \A i \in 1..Len(q) : r[i] = q[i]
  OBVIOUS
<1> HIDE DEF d, g, r
<1>3. CASE q = <<>>
  <2>1. x.buf = f.buf /\ x.ver = f.ver /\ Len(r) = 1 /\ r[1] = d
    BY <1>2, <1>3 DEF Leads
  <2>2. r[1].from = x.buf /\ x.ver < r[1].ver
    BY <2>1, <1>1
  <2>3. \A i \in 1..(Len(r) - 1) : r[i].to = r[i + 1].from /\ r[i].ver < r[i + 1].ver
    BY <2>1
  <2> QED
    BY <2>1, <2>2, <2>3, <1>1, <1>2 DEF Leads, d, g, r
<1>4. CASE q # <<>>
  <2>1. /\ q[1].from = x.buf /\ x.ver < q[1].ver
        /\ \A i \in 1..(Len(q) - 1) : q[i].to = q[i + 1].from /\ q[i].ver < q[i + 1].ver
        /\ q[Len(q)].to = f.buf /\ q[Len(q)].ver = f.ver
        /\ Len(q) # 0
    BY <1>4 DEF Leads
  <2>2. r[1].from = x.buf /\ x.ver < r[1].ver
    BY <2>1, <1>2
  <2>3. ASSUME NEW i \in 1..(Len(r) - 1)
        PROVE  r[i].to = r[i + 1].from /\ r[i].ver < r[i + 1].ver
    <3>1. CASE i = Len(q)
      <4>1. r[i] = q[Len(q)] /\ r[i + 1] = d
        BY <3>1, <2>1, <1>2
      <4> QED
        BY <4>1, <2>1, <1>1
    <3>2. CASE i # Len(q)
      <4>1. i \in 1..(Len(q) - 1) /\ r[i] = q[i] /\ r[i + 1] = q[i + 1]
        BY <3>2, <1>2
      <4> QED
        BY <4>1, <2>1
    <3> QED
      BY <3>1, <3>2
  <2> QED
    BY <2>2, <2>3, <1>1, <1>2 DEF Leads, d, g, r
<1> QED
  BY <1>3, <1>4

-----------------------------------------------------------------------------
(* What the shell makes of a frame.                                        *)

\* What the app draws, the shell then holds: the text is the app's, and so is the
\* version, whether it is set, seen before or adopted.
LEMMA DrawnInStep ==
  ASSUME SyncAssumption, IInv, taking, queue[at] = <<>>,
         NEW f, f = Sync(field[at], Drawn(at, text), Empty)
  PROVE  /\ f \in Field /\ f.buf = text.buf /\ f.ver = text.ver /\ f.setv <= text.ver
         /\ text.push => f.setv = text.ver
         /\ ~text.push /\ field[at].seen => f = field[at]
<1> DEFINE g == field[at]
           c == Drawn(at, text)
<1>1. /\ at \in Ids /\ g \in Field \cup {NoField}
      /\ text \in [buf : Texts, ver : Nat, push : BOOLEAN]
      /\ c.set = text.push /\ c.ver = text.ver /\ c.text = text.buf
  BY DEF IInv, TypeOK, Drawn
<1>2. CASE text.push
  <2>1. ~(g.seen /\ g.setv = text.ver)
    BY <1>1, <1>2 DEF IInv, SetsAreNew, Field, NoField
  <2>2. f = [seen |-> TRUE, buf |-> text.buf, ver |-> text.ver, setv |-> text.ver]
    BY <1>1, <1>2, <2>1 DEF Sync
  <2> QED
    BY <1>1, <1>2, <2>2 DEF Field
<1>3. CASE ~text.push /\ g.seen
  <2>1. g \in Field
    BY <1>1, <1>3 DEF NoField
  <2>2. f = g
    BY <1>1, <1>3 DEF Sync
  <2>3. Leads(text, <<>>, g)
    BY <1>1, <1>3, SyncAssumption DEF IInv, EditsLead, SyncAssumption
  <2>4. g.setv <= text.ver
    BY <1>1, <1>3 DEF IInv, SetsAreNew
  <2> QED
    BY <1>3, <2>1, <2>2, <2>3, <2>4 DEF Leads
<1>4. CASE ~text.push /\ ~g.seen
  <2>1. text.buf = Empty
    BY <1>4 DEF IInv, StartsEmpty
  <2>2. f = [seen |-> TRUE, buf |-> Empty, ver |-> text.ver, setv |-> 0]
    BY <1>1, <1>4 DEF Sync, NewField
  <2> QED
    BY <1>1, <1>4, <2>1, <2>2 DEF Field
<1> QED
  BY <1>1, <1>2, <1>3, <1>4 DEF Field, NoField

\* A frame drawn again changes nothing.
LEMMA DrawnAgain ==
  ASSUME SyncAssumption, IInv, ~taking, last # Unset
  PROVE  /\ last.id = at /\ at \in Ids /\ field[at] \in Field
         /\ Sync(field[last.id], last, Empty) = field[at]
<1>1. last.id = at /\ last \in Command /\ field[at].seen
      /\ (last.set => field[at].setv = last.ver)
  BY DEF IInv, TypeOK, LastWasTaken
<1>2. at \in Ids /\ field[at] \in Field
  BY <1>1 DEF IInv, TypeOK, Command, NoField
<1>3. field[at].seen = TRUE
  BY <1>2 DEF Field
<1> QED
  BY <1>1, <1>2, <1>3 DEF Sync

\* Drawing a field changes that field alone, by what the user types if anything, and
\* keeps the chain.
LEMMA ReplayOK ==
  ASSUME TypeOK, NEW c \in Command, NEW f \in Field, NEW t \in Texts, Replay(c, f, t)
  PROVE  /\ field' \in [Ids -> Field \cup {NoField}]
         /\ queue' \in [Ids -> Seq(Delta)]
         /\ \A i \in Ids \ {c.id} : field'[i] = field[i] /\ queue'[i] = queue[i]
         /\ field'[c.id] \in Field /\ field'[c.id].setv = f.setv
         /\ \/ field'[c.id] = f /\ queue'[c.id] = queue[c.id]
            \/ Len(queue'[c.id]) > Len(queue[c.id])
         /\ \A x \in [buf : Texts, ver : Nat, push : BOOLEAN] :
              Leads(x, queue[c.id], f) => Leads(x, queue'[c.id], field'[c.id])
<1>1. c.id \in Ids /\ queue[c.id] \in Seq(Delta)
  BY DEF TypeOK, Command
<1>2. CASE field' = [field EXCEPT ![c.id] = f] /\ queue' = queue
  BY <1>1, <1>2 DEF TypeOK
<1>3. CASE /\ field' = [field EXCEPT ![c.id] = Typed(f, t)]
           /\ queue' = [queue EXCEPT ![c.id] = Append(@, DeltaOf(f, t))]
  <2> DEFINE q == queue[c.id]
             d == DeltaOf(f, t)
             g == Typed(f, t)
  <2>1. d \in Delta /\ g \in Field /\ g.setv = f.setv
    <3>1. f.buf \in Texts /\ f.ver + 1 \in Nat
      BY DEF Field
    <3>2. d \in Delta
      BY <3>1 DEF DeltaOf, Delta
    <3>3. g \in Field /\ g.setv = f.setv
      BY <3>1 DEF Typed, Field
    <3> QED
      BY <3>2, <3>3
  <2>2. Append(q, d) \in Seq(Delta) /\ Len(Append(q, d)) > Len(q)
    BY <1>1, <2>1, AppendProperties, LenProperties
  <2>3. field'[c.id] = g /\ queue'[c.id] = Append(q, d)
    BY <1>1, <1>3 DEF TypeOK
  <2>4. \A x \in [buf : Texts, ver : Nat, push : BOOLEAN] :
          Leads(x, q, f) => Leads(x, Append(q, d), g)
    BY <1>1, AppendLeads
  <2> HIDE DEF q, d, g
  <2>5. field' \in [Ids -> Field \cup {NoField}] /\ queue' \in [Ids -> Seq(Delta)]
    BY <1>1, <1>3, <2>1, <2>2 DEF TypeOK, q, d, g
  <2>6. \A i \in Ids \ {c.id} : field'[i] = field[i] /\ queue'[i] = queue[i]
    BY <1>3 DEF TypeOK
  <2> QED
    BY <2>1, <2>2, <2>3, <2>4, <2>5, <2>6 DEF q
<1> QED
  BY <1>2, <1>3 DEF Replay

-----------------------------------------------------------------------------
(* The invariant.                                                          *)

LEMMA SeenField ==
  ASSUME TypeOK, NEW i \in Ids, field[i].seen
  PROVE  field[i] \in Field /\ field[i].setv \in Nat
<1>1. field[i] \in Field
  BY DEF TypeOK, NoField
<1> QED
  BY <1>1 DEF Field

LEMMA InitInv == ASSUME SyncAssumption, Init PROVE IInv
<1>1. TypeOK
  <2>1. (Initial # Empty) \in BOOLEAN
    OBVIOUS
  <2>2. text \in [buf : Texts, ver : Nat, push : BOOLEAN]
    BY <2>1 DEF SyncAssumption, Init, NewText
  <2>3. \A i \in Ids : queue[i] \in Seq(Delta)
    BY EmptySeq DEF Init
  <2>4. field \in [Ids -> Field \cup {NoField}] /\ queue \in [Ids -> Seq(Delta)]
    BY <2>3 DEF Init
  <2> QED
    BY <2>2, <2>4 DEF Init, TypeOK
<1>2. SetsAreNew /\ LastWasTaken /\ EditsLead
  BY DEF Init, SetsAreNew, LastWasTaken, EditsLead, NoField
<1>3. StartsEmpty
  BY DEF Init, StartsEmpty, NoField, NewText
<1> QED
  BY <1>1, <1>2, <1>3 DEF IInv

LEMMA SetInv == ASSUME SyncAssumption, IInv, NEW t \in Texts, Set(t) PROVE IInv'
<1> USE DEF IInv
<1>1. /\ text' = [buf |-> t, ver |-> text.ver + 1, push |-> TRUE]
      /\ UNCHANGED <<field, queue, at, taking, last>> /\ text.ver \in Nat
  BY DEF Set, SetText, TypeOK
<1>2. TypeOK'
  BY <1>1 DEF TypeOK
<1>3. SetsAreNew'
  <2>1. ASSUME NEW i \in Ids, field[i].seen
        PROVE  field[i].setv < text.ver + 1
    <3>1. field[i].setv \in Nat /\ field[i].setv <= text.ver
      BY <2>1, SeenField DEF SetsAreNew
    <3> QED
      BY <3>1, <1>1
  <2>2. \A i \in Ids : field[i].seen => field[i].setv \in Nat
    BY SeenField
  <2> QED
    BY <1>1, <2>1, <2>2 DEF SetsAreNew
<1>4. LastWasTaken' /\ StartsEmpty' /\ EditsLead'
  BY <1>1 DEF LastWasTaken, StartsEmpty, EditsLead
<1> QED
  BY <1>2, <1>3, <1>4

LEMMA StartDrawInv ==
  ASSUME SyncAssumption, SetsOnMove, IInv, NEW i \in Ids, StartDraw(i) PROVE IInv'
<1> USE DEF IInv, StartDraw
<1>1. i # NoId
  BY DEF SyncAssumption
<1>2. TypeOK' /\ SetsAreNew' /\ LastWasTaken'
  BY <1>1 DEF TypeOK, SetsAreNew, LastWasTaken
<1>3. StartsEmpty'
  BY <1>1 DEF StartsEmpty
<1>4. EditsLead'
  BY <1>1 DEF EditsLead, StartsEmpty
<1> QED
  BY <1>2, <1>3, <1>4

LEMMA TakeInv == ASSUME SyncAssumption, IInv, Take PROVE IInv'
<1> USE DEF IInv
<1>1. /\ at \in Ids /\ at # NoId /\ taking /\ queue[at] \in Seq(Delta) /\ queue[at] # <<>>
      /\ queue' = [queue EXCEPT ![at] = Tail(@)]
      /\ text' = ApplyDelta(text, Head(queue[at]), Mixed)
      /\ UNCHANGED <<field, at, taking, last>>
  BY DEF Take, TypeOK
<1>2. field[at].seen /\ field[at] \in Field
  BY <1>1 DEF StartsEmpty, TypeOK, NoField
<1>3. queue' \in [Ids -> Seq(Delta)] /\ \A i \in Ids \ {at} : queue'[i] = queue[i]
  BY <1>1, HeadTailProperties DEF TypeOK
<1>4. StartsEmpty'
  BY <1>1, <1>2, <1>3 DEF StartsEmpty
<1>5. LastWasTaken'
  BY <1>1 DEF LastWasTaken
<1>6. CASE text.push
  <2>1. text' = text
    BY <1>1, <1>6 DEF ApplyDelta
  <2> QED
    BY <1>1, <1>3, <1>4, <1>5, <1>6, <2>1 DEF TypeOK, SetsAreNew, EditsLead
<1>7. CASE ~text.push
  <2>1. text \in [buf : Texts, ver : Nat, push : {FALSE}]
    BY <1>7 DEF TypeOK
  <2>2. Leads(text, queue[at], field[at])
    BY <1>1, <1>2, <1>7 DEF EditsLead
  <2>3. /\ text' \in [buf : Texts, ver : Nat, push : {FALSE}]
        /\ text.ver < text'.ver
        /\ Leads(text', Tail(queue[at]), field[at])
    <3> DEFINE h == Head(queue[at])
               x == ApplyDelta(text, h, Mixed)
    <3>1. /\ x = [buf |-> h.to, ver |-> h.ver, push |-> FALSE]
          /\ h.ver \in Nat /\ h.to \in Texts /\ text.ver < h.ver
          /\ Leads(x, Tail(queue[at]), field[at])
      BY <1>1, <1>2, <2>1, <2>2, TailLeads
    <3> HIDE DEF h, x
    <3>2. x \in [buf : Texts, ver : Nat, push : {FALSE}] /\ x.ver = h.ver
      BY <3>1
    <3> QED
      BY <1>1, <3>1, <3>2 DEF h, x
  <2>4. TypeOK'
    BY <1>1, <1>3, <2>3 DEF TypeOK
  <2>5. SetsAreNew'
    <3>1. ASSUME NEW i \in Ids, field[i].seen
          PROVE  field[i].setv <= text'.ver
      <4>1. field[i].setv \in Nat /\ field[i].setv <= text.ver
        BY <3>1, SeenField DEF SetsAreNew
      <4> QED
        BY <4>1, <2>1, <2>3
    <3> QED
      BY <1>1, <2>3, <3>1 DEF SetsAreNew
  <2>6. EditsLead'
    <3>1. queue'[at] = Tail(queue[at])
      BY <1>1 DEF TypeOK
    <3> QED
      BY <1>1, <2>3, <3>1 DEF EditsLead
  <2> QED
    BY <1>4, <1>5, <2>4, <2>5, <2>6
<1> QED
  BY <1>6, <1>7

LEMMA DrawInv == ASSUME SyncAssumption, IInv, NEW t \in Texts, Draw(t) PROVE IInv'
<1> USE DEF IInv
<1> DEFINE c == Drawn(at, text)
           f == Sync(field[at], c, Empty)
<1>1. /\ taking /\ at \in Ids /\ at # NoId /\ queue[at] = <<>>
      /\ text \in [buf : Texts, ver : Nat, push : BOOLEAN]
      /\ text' = [buf |-> text.buf, ver |-> text.ver, push |-> FALSE]
      /\ taking' = FALSE /\ at' = at /\ last' = c
      /\ Replay(c, f, t)
  BY DEF Draw, TypeOK, Sent
<1>2. c \in Command /\ c.id = at /\ c.set = text.push /\ c.ver = text.ver
  BY <1>1 DEF Drawn, Command
<1>3. /\ f \in Field /\ f.buf = text.buf /\ f.ver = text.ver /\ f.setv <= text.ver
      /\ text.push => f.setv = text.ver
  BY <1>1, DrawnInStep
<1> HIDE DEF c, f
<1>4. /\ field' \in [Ids -> Field \cup {NoField}]
      /\ queue' \in [Ids -> Seq(Delta)]
      /\ \A i \in Ids \ {at} : field'[i] = field[i] /\ queue'[i] = queue[i]
      /\ field'[at] \in Field /\ field'[at].setv = f.setv
      /\ Leads(text, queue[at], f) => Leads(text, queue'[at], field'[at])
  BY <1>1, <1>2, <1>3, ReplayOK
<1>5. field'[at].seen
  BY <1>4 DEF Field
<1>6. TypeOK'
  <2>1. last' \in Command \cup {Unset}
    BY <1>1, <1>2
  <2> QED
    BY <1>1, <1>4, <2>1 DEF TypeOK
<1>7. SetsAreNew'
  <2>1. \A i \in Ids : field'[i].seen => field'[i].setv <= text.ver
    BY <1>3, <1>4 DEF SetsAreNew
  <2> QED
    BY <1>1, <2>1 DEF SetsAreNew
<1>8. LastWasTaken'
  BY <1>1, <1>2, <1>3, <1>4, <1>5 DEF LastWasTaken
<1>9. StartsEmpty'
  BY <1>1, <1>4, <1>5 DEF StartsEmpty
<1>10. EditsLead'
  <2>1. Leads(text, queue[at], f)
    BY <1>1, <1>3 DEF Leads
  <2>2. Leads(text, queue'[at], field'[at])
    BY <1>4, <2>1
  <2>3. Leads(text', queue'[at], field'[at])
    BY <1>1, <2>2 DEF Leads
  <2> QED
    BY <1>1, <2>3 DEF EditsLead
<1> QED
  BY <1>6, <1>7, <1>8, <1>9, <1>10

LEMMA RedrawInv == ASSUME SyncAssumption, IInv, NEW t \in Texts, Redraw(t) PROVE IInv'
<1> USE DEF IInv
<1>1. /\ ~taking /\ last # Unset /\ last \in Command
      /\ UNCHANGED <<text, at, taking, last>>
      /\ text \in [buf : Texts, ver : Nat, push : BOOLEAN]
  BY DEF Redraw, TypeOK
<1>2. /\ last.id = at /\ at \in Ids /\ field[at] \in Field
      /\ Replay(last, field[at], t)
  BY <1>1, DrawnAgain DEF Redraw
<1>3. /\ field' \in [Ids -> Field \cup {NoField}]
      /\ queue' \in [Ids -> Seq(Delta)]
      /\ \A i \in Ids \ {at} : field'[i] = field[i] /\ queue'[i] = queue[i]
      /\ field'[at] \in Field /\ field'[at].setv = field[at].setv
      /\ Leads(text, queue[at], field[at]) => Leads(text, queue'[at], field'[at])
  BY <1>1, <1>2, ReplayOK
<1>4. field'[at].seen /\ field[at].seen /\ at # NoId
  BY <1>2, <1>3 DEF Field, SyncAssumption
<1>5. TypeOK'
  BY <1>1, <1>3 DEF TypeOK
<1>6. SetsAreNew'
  BY <1>1, <1>2, <1>3, <1>4 DEF SetsAreNew
<1>7. LastWasTaken'
  BY <1>1, <1>2, <1>3, <1>4 DEF LastWasTaken
<1>8. StartsEmpty'
  BY <1>1, <1>3, <1>4 DEF StartsEmpty
<1>9. EditsLead'
  BY <1>1, <1>3, <1>4 DEF EditsLead
<1> QED
  BY <1>5, <1>6, <1>7, <1>8, <1>9

LEMMA NextInv ==
  ASSUME SyncAssumption, SetsOnMove, IInv, [Next]_vars PROVE IInv'
<1>1. CASE DrawOther
  BY <1>1 DEF DrawOther, IInv, TypeOK, SetsAreNew, LastWasTaken, StartsEmpty, EditsLead
<1>2. CASE UNCHANGED vars
  BY <1>2 DEF vars, IInv, TypeOK, SetsAreNew, LastWasTaken, StartsEmpty, EditsLead
<1> QED
  BY <1>1, <1>2, SetInv, StartDrawInv, TakeInv, DrawInv, RedrawInv DEF Next

-----------------------------------------------------------------------------
(* The theorems.                                                           *)

\* Every state's variables have their types, and the invariant holds, of any app
\* that sets its Text where it draws it in another place.
THEOREM IInvHolds == SetsOnMove /\ Spec => []IInv
<1>1. SetsOnMove /\ Init => SetsOnMove /\ IInv
  BY SyncAssumption, InitInv
<1>2. (SetsOnMove /\ IInv) /\ [Next]_vars => (SetsOnMove /\ IInv)'
  BY SyncAssumption, NextInv
<1>3. SetsOnMove /\ IInv => IInv
  OBVIOUS
<1> QED
  BY <1>1, <1>2, <1>3, PTL DEF Spec

\* The app's Text and the field the user sees agree, in text and in version, whenever
\* no edit or set is on its way (text_field, sync_from_guest).
THEOREM InStepHolds == SetsOnMove /\ Spec => []InStep
<1>1. IInv => InStep
  BY DEF IInv, InStep, StartsEmpty, EditsLead, Leads
<1> QED
  BY <1>1, IInvHolds, PTL

\* What the user sees in a field changes only as they type, or as a set of the app's
\* arrives: a frame shown again does not undo their typing (set_version).
THEOREM ShownKeptHolds == SetsOnMove /\ Spec => ShownKept
<1> DEFINE KeptShown ==
      \A i \in Ids : field[i].seen /\ field'[i] # field[i] =>
        \/ Len(queue'[i]) > Len(queue[i])
        \/ taking /\ at = i /\ text.push
<1>1. ASSUME SyncAssumption, IInv, [Next]_vars
      PROVE  [KeptShown]_vars
  <2>1. ASSUME NEW t \in Texts, Draw(t)
        PROVE  KeptShown
    <3> DEFINE c == Drawn(at, text)
               f == Sync(field[at], c, Empty)
    <3>1. /\ taking /\ queue[at] = <<>> /\ at \in Ids
          /\ text \in [buf : Texts, ver : Nat, push : BOOLEAN]
      BY <1>1, <2>1 DEF Draw, IInv, TypeOK
    <3>2. c.id = at /\ c \in Command /\ Replay(c, f, t)
      BY <2>1, <3>1 DEF Draw, Drawn, Command
    <3>3. f \in Field /\ (~text.push /\ field[at].seen => f = field[at])
      BY <1>1, <3>1, DrawnInStep
    <3> HIDE DEF c, f
    <3>4. /\ \A i \in Ids \ {at} : field'[i] = field[i]
          /\ field'[at] = f \/ Len(queue'[at]) > Len(queue[at])
      BY <1>1, <3>2, <3>3, ReplayOK DEF IInv
    <3> QED
      BY <3>1, <3>3, <3>4
  <2>2. ASSUME NEW t \in Texts, Redraw(t)
        PROVE  KeptShown
    <3>1. /\ last.id = at /\ at \in Ids /\ field[at] \in Field /\ last \in Command
          /\ Replay(last, field[at], t)
      BY <1>1, <2>2, DrawnAgain DEF Redraw, IInv, TypeOK
    <3>2. /\ \A i \in Ids \ {at} : field'[i] = field[i]
          /\ field'[at] = field[at] \/ Len(queue'[at]) > Len(queue[at])
      BY <1>1, <3>1, ReplayOK DEF IInv
    <3> QED
      BY <3>2
  <2>3. CASE field' = field
    BY <2>3
  <2> QED
    BY <1>1, <2>1, <2>2, <2>3 DEF Next, Set, StartDraw, Take, DrawOther, vars
<1> QED
  BY <1>1, SyncAssumption, IInvHolds, PTL DEF Spec, ShownKept

-----------------------------------------------------------------------------
(* A Docs window.                                                          *)

Own(d)    == [of : {d}, n : Ns]
Places    == {Browse} \cup {Read(d) : d \in Docs}
MaybeText == Text \cup {NoText}
Writes    == [op : {"none", "save", "newdoc", "newfolder"}, doc : Docs \cup {NoText},
              text : MaybeText, st : {"none", "sent", "done", "refused", "ok", "err"}]
AppSet    == [view : Views, hist : Seq(Places), ed : MaybeText, push : BOOLEAN,
              saved : MaybeText, loaded : BOOLEAN, pend : Writes,
              read : [Docs -> ReadSlot], kept : SUBSET MaybeText]

\* A write is of a text of the document it is for.
WriteOK(w) ==
  /\ w.op \in {"save", "newdoc"} => w.doc \in Docs /\ w.text \in Own(w.doc)
  /\ w.op = "none" => w.st = "none"

\* What a request for a document brings is its text.
ReadsOwn(reads) ==
  \A d \in Docs : /\ reads[d].text \in Own(d) \cup {NoText}
                  /\ reads[d].st = "ready" => reads[d].text # NoText

\* The app edits its document's text, which its editor shows but for what is
\* yet to be taken, unless it has just set it.
EditorOK(a, sh, ty) ==
  /\ a.ed \in Own(a.view.doc)
  /\ ~a.push => /\ sh[a.view.doc] \in Own(a.view.doc)
                /\ a.view.doc \notin ty => sh[a.view.doc] = a.ed

\* The app a, while editors show sh and have edits ty.
AppOK(a, sh, ty) ==
  /\ a \in AppSet
  /\ a.loaded => a.view.at = "edit"
  /\ ReadsOwn(a.read)
  /\ WriteOK(a.pend)
  /\ Editing(a) => EditorOK(a, sh, ty)

DInv ==
  /\ AppOK(app, shown, typed)
  /\ FilesKeepOwnText
  /\ files \in [Docs -> MaybeText] /\ shown \in [Docs -> MaybeText]
  /\ typed \subseteq Docs
  /\ clicks \in 0..MaxClicks
  /\ \A w \in late : w \in Writes /\ WriteOK(w) /\ w.op # "none"

-----------------------------------------------------------------------------
LEMMA ViewIs ==
  /\ \A v \in Views : /\ v.at \in {"browse", "read", "edit"}
                      /\ v.at # "browse" => v.doc \in Docs
                      /\ v # Browse => v.at # "browse"
                      /\ v.at = "read" => v = Read(v.doc)
                      /\ v.at = "edit" => v = Edit(v.doc)
  /\ \A d \in Docs : Read(d) \in Views /\ Edit(d) \in Views /\ Read(d) \in Places
                     /\ Read(d).at = "read" /\ Edit(d).at = "edit"
                     /\ Read(d).doc = d /\ Edit(d).doc = d
  /\ Browse \in Views /\ Browse.at = "browse" /\ Places \subseteq Views /\ Browse \in Places
<1>1. ASSUME NEW v \in Views
      PROVE  /\ v.at \in {"browse", "read", "edit"}
             /\ v.at # "browse" => v.doc \in Docs
             /\ v # Browse => v.at # "browse"
             /\ v.at = "read" => v = Read(v.doc)
             /\ v.at = "edit" => v = Edit(v.doc)
  <2>1. CASE v = Browse
    BY <2>1 DEF Browse
  <2>2. ASSUME NEW d \in Docs, v = Read(d) PROVE v.at = "read" /\ v.doc = d
    BY <2>2 DEF Read
  <2>3. ASSUME NEW d \in Docs, v = Edit(d) PROVE v.at = "edit" /\ v.doc = d
    BY <2>3 DEF Edit
  <2> QED BY <2>1, <2>2, <2>3 DEF Views
<1>2. ASSUME NEW d \in Docs
      PROVE  /\ Read(d).at = "read" /\ Edit(d).at = "edit"
             /\ Read(d).doc = d /\ Edit(d).doc = d
  BY DEF Read, Edit
<1>3. Browse.at = "browse"
  BY DEF Browse
<1> QED BY <1>1, <1>2, <1>3 DEF Views, Places

LEMMA OwnIs ==
  ASSUME NEW d \in Docs
  PROVE  /\ Own(d) \subseteq Text /\ NoText \notin Own(d) /\ Fresh(d) \in Own(d)
         /\ \A t \in Own(d) : TextsAs(t) = Own(d) /\ t # NoText
<1>1. Own(d) \subseteq Text /\ NoText \notin Own(d) /\ Fresh(d) \in Own(d)
  BY DocsAssumption DEF Own, Text, NoText, Fresh
<1>2. ASSUME NEW t \in Own(d) PROVE TextsAs(t) = Own(d) /\ t # NoText
  <2>1. t # NoText /\ TextsAs(t) = {[t EXCEPT !.n = n] : n \in Ns}
    BY <1>1 DEF TextsAs
  <2>2. \A n \in Ns : [t EXCEPT !.n = n] \in Own(d)
    BY DEF Own
  <2>3. \A x \in Own(d) : x.n \in Ns /\ x = [t EXCEPT !.n = x.n]
    BY DEF Own
  <2> QED BY <2>1, <2>2, <2>3
<1> QED BY <1>1, <1>2

\* Opening a view, or leaving the editor, leaves no editor to be in step.
LEMMA MovesOK ==
  ASSUME NEW a, NEW sh, NEW ty, AppOK(a, sh, ty), NEW v \in Views, NEW h \in Seq(Places)
  PROVE  AppOK([a EXCEPT !.view = v, !.loaded = FALSE, !.hist = h], sh, ty)
  BY DEF AppOK, AppSet, Editing

LEMMA OpenedOK ==
  ASSUME NEW a, NEW sh, NEW ty, AppOK(a, sh, ty), NEW v \in Views
  PROVE  AppOK(Opened(a, v), sh, ty)
<1> DEFINE from == IF a.view.at = "edit" THEN Read(a.view.doc) ELSE a.view
           told == a.hist # <<>> /\ Last(a.hist) = from
           h    == IF told THEN a.hist ELSE Append(a.hist, from)
<1>1. a \in AppSet /\ a.view \in Views /\ a.hist \in Seq(Places)
  BY DEF AppOK, AppSet
<1>2. from \in Places
  BY <1>1, ViewIs
<1>3. h \in Seq(Places)
  BY <1>1, <1>2
<1>4. Opened(a, v) = IF v = a.view THEN a
                     ELSE [a EXCEPT !.view = v, !.loaded = FALSE, !.hist = h]
  BY DEF Opened
<1> HIDE DEF from, told, h
<1>5. AppOK([a EXCEPT !.view = v, !.loaded = FALSE, !.hist = h], sh, ty)
  BY <1>3, MovesOK
<1> QED BY <1>4, <1>5

LEMMA BackOK ==
  ASSUME NEW a, NEW sh, NEW ty, AppOK(a, sh, ty)
  PROVE  AppOK(Back(a), sh, ty)
<1>1. a.hist \in Seq(Places) /\ a \in AppSet
  BY DEF AppOK, AppSet
<1>2. CASE a.hist # <<>>
  <2>1. Last(a.hist) \in Places /\ Front(a.hist) \in Seq(Places)
    BY <1>1, <1>2 DEF Last, Front
  <2>2. Last(a.hist) \in Views
    BY <2>1, ViewIs
  <2>3. Back(a) = [a EXCEPT !.view = Last(a.hist), !.loaded = FALSE, !.hist = Front(a.hist)]
    BY <1>1, <1>2 DEF Back, AppSet
  <2>4. AppOK([a EXCEPT !.view = Last(a.hist), !.loaded = FALSE, !.hist = Front(a.hist)], sh, ty)
    BY <2>1, <2>2, MovesOK
  <2> QED BY <2>3, <2>4
<1>3. CASE a.hist = <<>>
  BY <1>3 DEF Back
<1> QED BY <1>2, <1>3

LEMMA ForgetOK ==
  ASSUME NEW a, NEW sh, NEW ty, AppOK(a, sh, ty), NEW d
  PROVE  AppOK(Forget(a, d), sh, ty)
<1> DEFINE r == [a.read EXCEPT ![d] = NotAsked]
<1>1. a \in AppSet /\ a.read \in [Docs -> ReadSlot] /\ ReadsOwn(a.read)
  BY DEF AppOK, AppSet
<1>2. r \in [Docs -> ReadSlot] /\ ReadsOwn(r)
  BY <1>1 DEF ReadsOwn, NotAsked, ReadSlot
<1>3. Forget(a, d) = [a EXCEPT !.read = r]
  BY <1>1 DEF Forget, AppSet
<1> HIDE DEF r
<1> QED BY <1>2, <1>3 DEF AppOK, AppSet, Editing, EditorOK

LEMMA NoWriteOK == NoWrite \in Writes /\ WriteOK(NoWrite)
  BY DEF NoWrite, Writes, WriteOK, MaybeText

LEMMA PendOK ==
  ASSUME NEW a, NEW sh, NEW ty, AppOK(a, sh, ty), NEW w \in Writes, WriteOK(w)
  PROVE  AppOK([a EXCEPT !.pend = w], sh, ty)
  BY DEF AppOK, AppSet, Editing, EditorOK

LEMMA PolledOK ==
  ASSUME NEW a, NEW sh, NEW ty, AppOK(a, sh, ty)
  PROVE  AppOK(Polled(a), sh, ty)
<1> DEFINE b == [a EXCEPT !.pend = NoWrite]
<1>1. AppOK(b, sh, ty)
  BY NoWriteOK, PendOK
<1>2. a.pend \in Writes /\ WriteOK(a.pend)
  BY DEF AppOK, AppSet
<1> HIDE DEF b
<1>3. CASE a.pend.st \notin {"ok", "err"}
  BY <1>3 DEF Polled
<1>4. CASE a.pend.st = "err"
  BY <1>1, <1>4 DEF Polled, b
<1>5. CASE a.pend.st = "ok" /\ a.pend.op = "save"
  <2> DEFINE c == IF b.view.at = "edit" THEN Forget(b, b.view.doc) ELSE b
  <2>1. AppOK(c, sh, ty)
    BY <1>1, ForgetOK
  <2>2. b.ed \in MaybeText
    BY <1>1 DEF AppOK, AppSet
  <2>3. Polled(a) = [c EXCEPT !.saved = b.ed]
    BY <1>5 DEF Polled, b
  <2> HIDE DEF c
  <2> QED BY <2>1, <2>2, <2>3 DEF AppOK, AppSet, Editing, EditorOK
<1>6. CASE a.pend.st = "ok" /\ a.pend.op = "newdoc"
  <2>1. Edit(a.pend.doc) \in Views
    BY <1>2, <1>6, ViewIs DEF WriteOK
  <2>2. Polled(a) = Opened(b, Edit(a.pend.doc))
    BY <1>6 DEF Polled, b
  <2> QED BY <1>1, <2>1, <2>2, OpenedOK
<1>7. CASE a.pend.st = "ok" /\ a.pend.op = "newfolder"
  <2>2. Polled(a) = Opened(b, Browse)
    BY <1>7 DEF Polled, b
  <2> QED BY <1>1, <2>2, OpenedOK, ViewIs
<1>8. CASE a.pend.st = "ok" /\ a.pend.op = "none"
  <2> QED BY <1>2, <1>8 DEF WriteOK
<1> QED BY <1>2, <1>3, <1>4, <1>5, <1>6, <1>7, <1>8 DEF Writes

LEMMA AskedOK ==
  ASSUME NEW a, NEW sh, NEW ty, AppOK(a, sh, ty)
  PROVE  AppOK(Asked(a), sh, ty)
<1> DEFINE d == a.view.doc
<1>1. a \in AppSet /\ a.read \in [Docs -> ReadSlot] /\ ReadsOwn(a.read) /\ a.view \in Views
  BY DEF AppOK, AppSet
<1>2. CASE a.view = Browse \/ Editing(a)
  BY <1>2 DEF Asked
<1>3. CASE ~(a.view = Browse \/ Editing(a)) /\ a.read[d].st = "none"
  <2>1. d \in Docs
    BY <1>1, <1>3, ViewIs
  <2> DEFINE r == [a.read EXCEPT ![d].st = "asked"]
  <2>2. r \in [Docs -> ReadSlot] /\ ReadsOwn(r)
    BY <1>1, <2>1 DEF ReadsOwn, ReadSlot
  <2>3. Asked(a) = [a EXCEPT !.read = r]
    BY <1>1, <1>3 DEF Asked, AppSet
  <2> HIDE DEF r
  <2> QED BY <2>2, <2>3 DEF AppOK, AppSet, Editing, EditorOK
<1>4. CASE /\ ~(a.view = Browse \/ Editing(a)) /\ a.read[d].st # "none"
           /\ a.view.at = "edit" /\ a.read[d].st = "ready"
  <2> DEFINE t == a.read[d].text
  <2>1. d \in Docs /\ t \in Own(d) /\ t \in MaybeText
    BY <1>1, <1>4, ViewIs, OwnIs DEF ReadsOwn, MaybeText
  <2>2. Asked(a) = Load(a, t)
    BY <1>4 DEF Asked
  <2> HIDE DEF t
  <2>3. Load(a, t) \in AppSet
    BY <1>1, <2>1 DEF Load, AppSet
  <2>4. Load(a, t).ed = t /\ Load(a, t).push /\ Load(a, t).view = a.view
        /\ Load(a, t).read = a.read /\ Load(a, t).pend = a.pend
    BY <1>1 DEF Load, AppSet
  <2> QED BY <1>4, <2>1, <2>2, <2>3, <2>4 DEF AppOK, EditorOK
<1>5. CASE /\ ~(a.view = Browse \/ Editing(a)) /\ a.read[d].st # "none"
           /\ ~(a.view.at = "edit" /\ a.read[d].st = "ready")
  BY <1>5 DEF Asked
<1> QED BY <1>2, <1>3, <1>4, <1>5

\* What a click can be, of the widgets drawn.
ClickOK(c, a) ==
  \/ c.op \in {"none", "back", "newfolder", "retry"}
  \/ c.op = "go" /\ c.view \in Places
  \/ c.op = "newdoc" /\ c.doc \in Docs
  \/ c.op = "edit" /\ a.view.at = "read"
  \/ c.op = "close" /\ a.view.at = "edit"
  \/ c.op \in {"save", "discard"} /\ Editing(a)
  \/ c.op = "insert" /\ Editing(a) /\ c.text \in TextsAs(a.ed)

LEMMA OfferedIs ==
  ASSUME NEW a, a.view \in Views, NEW c, c \in Offered(a) \/ c = NoClick
  PROVE  ClickOK(c, a)
<1> DEFINE v == a.view
<1>1. CASE c = NoClick
  BY <1>1 DEF NoClick, ClickOK
<1>2. ASSUME c \in {[op |-> "go", view |-> w] : w \in {Browse} \cup {Read(d) : d \in Docs}}
      PROVE  ClickOK(c, a)
  BY <1>2 DEF ClickOK, Places
<1>3. ASSUME c \in {[op |-> "back"] : h \in {x \in {a.hist} : x # <<>>}}
      PROVE  ClickOK(c, a)
  BY <1>3 DEF ClickOK
<1>4. CASE v = Browse /\ c \in {[op |-> "newdoc", doc |-> d] : d \in Docs} \cup {[op |-> "newfolder"]}
  BY <1>4 DEF ClickOK
<1>5. CASE v.at = "read" /\ c = In(v, "edit")
  BY <1>5 DEF ClickOK, In
<1>6. CASE v.at # "browse" /\ c = In(v, IF v.at = "read" THEN "retry" ELSE "close")
  <2>1. v.at \in {"read", "edit"}
    BY <1>6, ViewIs
  <2> QED BY <1>6, <2>1 DEF ClickOK, In
<1>7. CASE Editing(a) /\ c \in {In(v, "close"), In(v, "save"), In(v, "discard")}
  BY <1>7 DEF ClickOK, In, Editing
<1>8. CASE Editing(a) /\ c \in {[op |-> "insert", in |-> v, text |-> t] : t \in TextsAs(a.ed)}
  BY <1>8 DEF ClickOK
<1> DEFINE here == CASE v = Browse ->
                     {[op |-> "newdoc", doc |-> d] : d \in Docs} \cup {[op |-> "newfolder"]}
                [] v.at = "read" /\ a.read[v.doc].st = "ready"    -> {In(v, "edit")}
                [] v.at # "browse" /\ ~a.loaded /\ a.read[v.doc].st = "failed" ->
                     {In(v, IF v.at = "read" THEN "retry" ELSE "close")}
                [] Editing(a) ->
                     {In(v, "close")}
                     \cup {In(v, op) : op \in {x \in {"save"} : a.pend.op # "save"}
                                         \cup {x \in {"discard"} : Dirty(a)}}
                     \cup {[op |-> "insert", in |-> v, text |-> t] : t \in TextsAs(a.ed)}
                [] OTHER -> {}
<1>9. ASSUME c \in here PROVE ClickOK(c, a)
  BY <1>4, <1>5, <1>6, <1>7, <1>8, <1>9
<1>10. c \in Offered(a) =>
         \/ c \in here
         \/ c \in {[op |-> "go", view |-> w] : w \in {Browse} \cup {Read(d) : d \in Docs}}
         \/ c \in {[op |-> "back"] : h \in {x \in {a.hist} : x # <<>>}}
  BY DEF Offered
<1> QED BY <1>1, <1>2, <1>3, <1>9, <1>10

LEMMA ApplyOK ==
  ASSUME NEW a, NEW sh, NEW ty, AppOK(a, sh, ty), NEW c, ClickOK(c, a)
  PROVE  AppOK(Apply(a, c), sh, ty)
<1>1. a \in AppSet /\ a.view \in Views /\ a.hist \in Seq(Places) /\ a.ed \in MaybeText
  BY DEF AppOK, AppSet
<1>2. CASE Apply(a, c) = a
  BY <1>2
<1>3. CASE a.view.at = "edit" /\ Apply(a, c) = [a EXCEPT !.view = Read(a.view.doc), !.loaded = FALSE]
  <2>1. Read(a.view.doc) \in Views
    BY <1>1, <1>3, ViewIs
  <2>2. AppOK([a EXCEPT !.view = Read(a.view.doc), !.loaded = FALSE, !.hist = a.hist], sh, ty)
    BY <1>1, <2>1, MovesOK
  <2>3. [a EXCEPT !.view = Read(a.view.doc), !.loaded = FALSE, !.hist = a.hist]
          = [a EXCEPT !.view = Read(a.view.doc), !.loaded = FALSE]
    BY <1>1 DEF AppSet
  <2> QED BY <1>3, <2>2, <2>3
<1>4. CASE Apply(a, c) = Back(a)
  BY <1>4, BackOK
<1>5. CASE c.op = "go" /\ Apply(a, c) = Opened(a, c.view)
  <2>1. c.view \in Views
    BY <1>5, ViewIs DEF ClickOK
  <2> QED BY <1>5, <2>1, OpenedOK
<1>6. CASE c.op = "edit" /\ Apply(a, c) = Opened(a, Edit(a.view.doc))
  <2>1. Edit(a.view.doc) \in Views
    BY <1>1, <1>6, ViewIs DEF ClickOK
  <2> QED BY <1>6, <2>1, OpenedOK
<1>7. CASE Apply(a, c) = Forget(a, a.view.doc)
  BY <1>7, ForgetOK
<1>8. CASE c.op = "insert" /\ Apply(a, c) = [a EXCEPT !.ed = c.text, !.push = TRUE]
  <2>1. Editing(a) /\ c.text \in TextsAs(a.ed) /\ a.view.doc \in Docs
    BY <1>1, <1>8, ViewIs DEF ClickOK, Editing
  <2>2. c.text \in Own(a.view.doc) /\ c.text \in MaybeText
    BY <2>1, OwnIs DEF AppOK, EditorOK, MaybeText
  <2> DEFINE b == [a EXCEPT !.ed = c.text, !.push = TRUE]
  <2>3. b \in AppSet /\ b.ed = c.text /\ b.push /\ b.view = a.view /\ b.loaded = a.loaded
        /\ b.read = a.read /\ b.pend = a.pend
    BY <1>1, <2>2 DEF AppSet
  <2> HIDE DEF b
  <2>4. AppOK(b, sh, ty)
    BY <2>2, <2>3 DEF AppOK, EditorOK
  <2> QED BY <1>8, <2>4 DEF b
<1>9. CASE /\ c.op = "save"
           /\ Apply(a, c) = [a EXCEPT !.pend = Write("save", a.view.doc, a.ed), !.kept = @ \cup {a.ed}]
  <2> DEFINE w == Write("save", a.view.doc, a.ed)
             b == [a EXCEPT !.pend = w]
  <2>1. Editing(a) /\ a.view.doc \in Docs /\ a.ed \in Own(a.view.doc)
    BY <1>1, <1>9, ViewIs DEF ClickOK, Editing, AppOK, EditorOK
  <2>2. w \in Writes /\ WriteOK(w)
    BY <1>1, <2>1 DEF Write, Writes, WriteOK
  <2> HIDE DEF w
  <2>3. AppOK(b, sh, ty) /\ b \in AppSet
    BY <2>2, PendOK DEF AppOK
  <2>4. Apply(a, c) = [b EXCEPT !.kept = a.kept \cup {a.ed}] /\ a.kept \cup {a.ed} \subseteq MaybeText
    BY <1>1, <1>9 DEF w, AppSet
  <2> HIDE DEF b
  <2> QED BY <2>3, <2>4 DEF AppOK, AppSet, Editing, EditorOK
<1>10. CASE c.op = "newdoc" /\ Apply(a, c) = [a EXCEPT !.pend = Write("newdoc", c.doc, Fresh(c.doc))]
  <2> DEFINE w == Write("newdoc", c.doc, Fresh(c.doc))
  <2>1. c.doc \in Docs
    BY <1>10 DEF ClickOK
  <2>2. w \in Writes /\ WriteOK(w)
    BY <2>1, OwnIs DEF Write, Writes, WriteOK, MaybeText
  <2> HIDE DEF w
  <2> QED BY <1>10, <2>2, PendOK DEF w
<1>11. CASE Apply(a, c) = [a EXCEPT !.pend = Write("newfolder", NoText, NoText)]
  <2> DEFINE w == Write("newfolder", NoText, NoText)
  <2>2. w \in Writes /\ WriteOK(w)
    BY DEF Write, Writes, WriteOK, MaybeText
  <2> HIDE DEF w
  <2> QED BY <1>11, <2>2, PendOK DEF w
<1>12. ASSUME c.op \in {"discard", "back", "go", "close"}
       PROVE  \/ Apply(a, c) = a
              \/ a.view.at = "edit" /\ Apply(a, c) = [a EXCEPT !.view = Read(a.view.doc), !.loaded = FALSE]
              \/ Apply(a, c) = Back(a)
              \/ c.op = "go" /\ Apply(a, c) = Opened(a, c.view)
  BY <1>12 DEF Apply, ClickOK, Editing
<1> QED BY <1>2, <1>3, <1>4, <1>5, <1>6, <1>7, <1>8, <1>9, <1>10, <1>11, <1>12 DEF Apply

\* The edits of the editor drawn are taken, and it shows what it is given or typed.
LEMMA TakenOK ==
  ASSUME DInv, NEW a, AppOK(a, shown, typed), Show(a)
  PROVE  /\ AppOK(Taken(a), shown', typed')
         /\ shown' \in [Docs -> MaybeText] /\ typed' \subseteq Docs
         /\ \A d \in Docs : shown'[d] \in {NoText} \cup Own(d)
<1>1. /\ shown \in [Docs -> MaybeText] /\ typed \subseteq Docs
      /\ \A d \in Docs : shown[d] \in {NoText} \cup Own(d)
  BY DEF DInv, FilesKeepOwnText, Own
<1>2. CASE ~Editing(a)
  BY <1>1, <1>2 DEF Taken, Show
<1>3. CASE Editing(a)
  <2> DEFINE d == a.view.doc
             t == IF a.push THEN a.ed ELSE shown[d]
             e == IF ~a.push /\ d \in typed THEN shown[d] ELSE a.ed
             b == [a EXCEPT !.push = FALSE, !.ed = e]
  <2>1. a \in AppSet /\ a.view \in Views /\ d \in Docs
    BY <1>3, ViewIs DEF AppOK, AppSet, Editing
  <2>2. t \in Own(d) /\ e = t
    BY <1>3 DEF AppOK, EditorOK
  <2>3. PICK u \in {t} \cup TextsAs(t) :
          /\ shown' = [shown EXCEPT ![d] = u]
          /\ typed' = IF u = t THEN typed \ {d} ELSE typed \cup {d}
    BY <1>3 DEF Show
  <2>4. Taken(a) = b
    BY <1>3 DEF Taken
  <2> HIDE DEF e, t, d
  <2>5. u \in Own(d) /\ t \in MaybeText /\ u \in MaybeText
    BY <2>1, <2>2, <2>3, OwnIs DEF MaybeText
  <2>6. /\ shown' \in [Docs -> MaybeText] /\ typed' \subseteq Docs
        /\ \A x \in Docs : shown'[x] \in {NoText} \cup Own(x)
    BY <1>1, <2>1, <2>3, <2>5
  <2>7. b \in AppSet /\ b.ed = t /\ ~b.push /\ b.view = a.view /\ b.loaded = a.loaded
        /\ b.read = a.read /\ b.pend = a.pend
    BY <2>1, <2>2, <2>5 DEF AppSet
  <2> HIDE DEF b
  <2>8. shown'[d] = u /\ (d \notin typed' => u = t)
    BY <1>1, <2>1, <2>3
  <2>9. EditorOK(b, shown', typed')
    BY <2>2, <2>5, <2>7, <2>8 DEF EditorOK, d
  <2> QED BY <2>4, <2>6, <2>7, <2>9 DEF AppOK
<1> QED BY <1>2, <1>3

LEMMA TakenIs ==
  ASSUME NEW a \in AppSet
  PROVE  /\ Editing(Taken(a)) = Editing(a) /\ Taken(a).view = a.view
         /\ Taken(a).hist = a.hist /\ Taken(a).pend = a.pend /\ Taken(a).saved = a.saved
  BY DEF Taken, Editing, AppSet

\* A click in the app as it was drawn is one once its edits are taken.
LEMMA FrameOK ==
  ASSUME DInv, Frame PROVE DInv'
<1> DEFINE a == Asked(Polled(app))
           b == Taken(a)
           c == IF click \in Offered(a) THEN click ELSE NoClick
<1>1. /\ app' = Apply(b, c) /\ Show(a)
      /\ UNCHANGED <<files, late>>
      /\ clicks' = clicks \/ (clicks < MaxClicks /\ clicks' = clicks + 1)
  BY DEF Frame, Clicked
<1>2. AppOK(a, shown, typed)
  BY PolledOK, AskedOK DEF DInv
<1> HIDE DEF a
<1>3. /\ AppOK(b, shown', typed')
      /\ shown' \in [Docs -> MaybeText] /\ typed' \subseteq Docs
      /\ \A d \in Docs : shown'[d] \in {NoText} \cup Own(d)
  BY <1>1, <1>2, TakenOK
<1>4. ClickOK(c, a)
  BY <1>2, OfferedIs DEF AppOK, AppSet
<1> HIDE DEF c
<1>5. ClickOK(c, b)
  <2>1. CASE Editing(a)
    <3>1. a.view \in Views /\ a.view.doc \in Docs /\ a.ed \in Own(a.view.doc)
      BY <1>2, <2>1, ViewIs DEF AppOK, AppSet, Editing, EditorOK
    <3>2. Editing(b) /\ b.view = a.view /\ b.ed \in Own(a.view.doc)
      BY <1>2, <1>3, <2>1, TakenIs DEF AppOK, EditorOK
    <3>3. TextsAs(a.ed) = TextsAs(b.ed)
      BY <3>1, <3>2, OwnIs
    <3> HIDE DEF b
    <3> QED BY <1>4, <3>2, <3>3 DEF ClickOK
  <2>2. CASE ~Editing(a)
    BY <1>4, <2>2 DEF Taken
  <2> QED BY <2>1, <2>2
<1> HIDE DEF b
<1>6. AppOK(app', shown', typed')
  BY <1>1, <1>3, <1>5, ApplyOK
<1>7. clicks' \in 0..MaxClicks
  BY <1>1, DocsAssumption DEF DInv
<1>8. FilesKeepOwnText'
  BY <1>1, <1>3 DEF DInv, FilesKeepOwnText, Own
<1>9. \A w \in late' : w \in Writes /\ WriteOK(w) /\ w.op # "none"
  BY <1>1 DEF DInv
<1> QED BY <1>1, <1>3, <1>6, <1>7, <1>8, <1>9 DEF DInv

LEMMA DocsInit == DInit => DInv
<1> SUFFICES ASSUME DInit PROVE DInv
  OBVIOUS
<1>1. app \in AppSet
  BY NoWriteOK, ViewIs DEF DInit, AppSet, MaybeText, ReadSlot, NotAsked
<1>2. AppOK(app, shown, typed)
  BY <1>1, NoWriteOK DEF DInit, AppOK, ReadsOwn, NotAsked, Editing
<1>3. FilesKeepOwnText
  BY OwnIs DEF DInit, FilesKeepOwnText, Own
<1>4. files \in [Docs -> MaybeText]
  BY OwnIs DEF DInit, MaybeText
<1> QED BY <1>2, <1>3, <1>4, DocsAssumption DEF DInit, DInv, MaybeText

\* A step that changes the requests for documents only, or the write under way.
LEMMA ReadsOK ==
  ASSUME DInv, NEW r \in [Docs -> ReadSlot], ReadsOwn(r), app' = [app EXCEPT !.read = r],
         UNCHANGED <<shown, typed, files, late, clicks>>
  PROVE  DInv'
<1>1. AppOK(app', shown, typed)
  BY DEF DInv, AppOK, AppSet, Editing, EditorOK
<1> QED BY <1>1 DEF DInv, FilesKeepOwnText

LEMMA WriteStepOK ==
  ASSUME DInv, NEW st \in {"done", "refused", "ok", "err"}, app.pend.st # "none",
         app' = [app EXCEPT !.pend.st = st],
         UNCHANGED <<shown, typed, clicks>>, files' \in [Docs -> MaybeText],
         \A d \in Docs : files'[d] \in {NoText} \cup Own(d),
         \A w \in late' : w \in Writes /\ WriteOK(w) /\ w.op # "none"
  PROVE  DInv'
<1> DEFINE w == [app.pend EXCEPT !.st = st]
<1>1. app \in AppSet /\ app.pend \in Writes /\ WriteOK(app.pend)
  BY DEF DInv, AppOK, AppSet
<1>2. w \in Writes /\ WriteOK(w)
  BY <1>1 DEF Writes, WriteOK
<1>3. app' = [app EXCEPT !.pend = w]
  BY <1>1 DEF AppSet
<1> HIDE DEF w
<1>4. AppOK(app', shown, typed)
  BY <1>2, <1>3, PendOK DEF DInv
<1>5. FilesKeepOwnText'
  BY DEF DInv, FilesKeepOwnText, Own
<1> QED BY <1>4, <1>5 DEF DInv

\* A write done puts a document's text in its file.
LEMMA DoneOK ==
  ASSUME DInv, NEW w \in Writes, WriteOK(w), w.op # "none"
  PROVE  AfterWrite(w) \in [Docs -> MaybeText] /\ \A d \in Docs : AfterWrite(w)[d] \in {NoText} \cup Own(d)
<1>1. files \in [Docs -> MaybeText] /\ \A d \in Docs : files[d] \in {NoText} \cup Own(d)
  BY DEF DInv, FilesKeepOwnText, Own
<1>2. CASE Declined(w) \/ w.op = "newfolder"
  BY <1>1, <1>2 DEF AfterWrite
<1>3. CASE ~(Declined(w) \/ w.op = "newfolder")
  <2>1. w.doc \in Docs /\ w.text \in Own(w.doc) /\ w.text \in MaybeText
    BY <1>3 DEF Writes, WriteOK
  <2> QED BY <1>1, <1>3, <2>1 DEF AfterWrite
<1> QED BY <1>2, <1>3

LEMMA DocsStep == DInv /\ [DNext]_dvars => DInv'
<1> SUFFICES ASSUME DInv, [DNext]_dvars PROVE DInv'
  OBVIOUS
<1>1. /\ app \in AppSet /\ app.read \in [Docs -> ReadSlot] /\ ReadsOwn(app.read)
      /\ app.pend \in Writes /\ WriteOK(app.pend)
      /\ files \in [Docs -> MaybeText] /\ \A d \in Docs : files[d] \in {NoText} \cup Own(d)
  BY DEF DInv, AppOK, AppSet, FilesKeepOwnText, Own
<1>2. CASE Frame
  BY <1>2, FrameOK
<1>3. ASSUME NEW d \in Docs, NEW s \in ReadSlot, s.text \in {NoText} \cup Own(d),
             s.st = "ready" => s.text # NoText, app' = [app EXCEPT !.read[d] = s],
             UNCHANGED <<shown, typed, files, late, clicks>>
      PROVE  DInv'
  <2> DEFINE r == [app.read EXCEPT ![d] = s]
  <2>1. r \in [Docs -> ReadSlot] /\ ReadsOwn(r)
    BY <1>1, <1>3 DEF ReadsOwn
  <2>2. app' = [app EXCEPT !.read = r]
    BY <1>1, <1>3 DEF AppSet
  <2> HIDE DEF r
  <2> QED BY <1>3, <2>1, <2>2, ReadsOK
<1>4. ASSUME NEW d \in Docs, Sweep(d) PROVE DInv'
  <2>1. app' = [app EXCEPT !.read[d] = NotAsked]
    BY <1>4 DEF Sweep, Forget
  <2>2. NotAsked \in ReadSlot /\ NotAsked.text = NoText /\ NotAsked.st # "ready"
    BY DEF NotAsked, ReadSlot
  <2> HIDE DEF NotAsked
  <2> QED BY <1>3, <1>4, <2>1, <2>2 DEF Sweep
<1>5. ASSUME NEW d \in Docs, ServeRead(d) PROVE DInv'
  <2> DEFINE s == [st |-> "answered", text |-> files[d]]
  <2>1. s \in ReadSlot /\ s.text \in {NoText} \cup Own(d) /\ s.st # "ready"
    BY <1>1 DEF ReadSlot, MaybeText
  <2>2. app' = [app EXCEPT !.read[d] = s] /\ UNCHANGED <<shown, typed, files, late, clicks>>
    BY <1>5 DEF ServeRead
  <2> HIDE DEF s
  <2> QED BY <1>3, <2>1, <2>2
<1>6. ASSUME NEW d \in Docs, HearRead(d) PROVE DInv'
  <2>1. PICK st \in {"failed"} \cup {x \in {"ready"} : app.read[d].text # NoText} :
          app' = [app EXCEPT !.read[d] = [st |-> st, text |-> IF st = "ready" THEN @.text ELSE NoText]]
    BY <1>6 DEF HearRead
  <2> DEFINE s == [st |-> st, text |-> IF st = "ready" THEN app.read[d].text ELSE NoText]
  <2>2. s \in ReadSlot /\ s.text \in {NoText} \cup Own(d) /\ (s.st = "ready" => s.text # NoText)
    BY <1>1, <2>1 DEF ReadSlot, ReadsOwn
  <2>3. app' = [app EXCEPT !.read[d] = s] /\ UNCHANGED <<shown, typed, files, late, clicks>>
    BY <1>1, <1>6, <2>1 DEF HearRead, AppSet
  <2> HIDE DEF s
  <2> QED BY <1>3, <2>2, <2>3
<1>7. CASE ServeWrite
  <2>1. app.pend.op # "none"
    BY <1>1, <1>7 DEF ServeWrite, WriteOK
  <2>2. /\ files' = AfterWrite(app.pend) /\ UNCHANGED <<shown, typed, clicks, late>> /\ app.pend.st # "none"
        /\ app' = [app EXCEPT !.pend.st = IF Declined(app.pend) THEN "refused" ELSE "done"]
    BY <1>7 DEF ServeWrite
  <2>3. files' \in [Docs -> MaybeText] /\ \A d \in Docs : files'[d] \in {NoText} \cup Own(d)
    BY <1>1, <2>1, <2>2, DoneOK
  <2>4. \A w \in late' : w \in Writes /\ WriteOK(w) /\ w.op # "none"
    BY <2>2 DEF DInv
  <2> QED BY <2>2, <2>3, <2>4, WriteStepOK
<1>8. CASE HearWrite
  <2>1. /\ app' = [app EXCEPT !.pend.st = IF app.pend.st = "done" THEN "ok" ELSE "err"]
        /\ UNCHANGED <<shown, typed, clicks, late, files>> /\ app.pend.st # "none"
    BY <1>1, <1>8 DEF HearWrite, AppSet, Writes
  <2>2. \A w \in late' : w \in Writes /\ WriteOK(w) /\ w.op # "none"
    BY <2>1 DEF DInv
  <2> QED BY <1>1, <2>1, <2>2, WriteStepOK
<1>9. CASE FailWrite
  <2>1. /\ app' = [app EXCEPT !.pend.st = "err"] /\ late' \subseteq late \cup {app.pend}
        /\ UNCHANGED <<shown, typed, clicks, files>> /\ app.pend.st # "none"
    BY <1>9 DEF FailWrite
  <2>2. \A w \in late' : w \in Writes /\ WriteOK(w) /\ w.op # "none"
    BY <1>1, <2>1 DEF DInv, WriteOK
  <2> QED BY <1>1, <2>1, <2>2, WriteStepOK
<1>10. ASSUME NEW w \in late, ServeLate(w) PROVE DInv'
  <2>1. /\ files' = AfterWrite(w) /\ late' \subseteq late /\ UNCHANGED <<app, shown, typed, clicks>>
    BY <1>10 DEF ServeLate
  <2>2. files' \in [Docs -> MaybeText] /\ \A d \in Docs : files'[d] \in {NoText} \cup Own(d)
    BY <2>1, DoneOK DEF DInv
  <2> QED BY <2>1, <2>2 DEF DInv, FilesKeepOwnText, Own
<1>11. CASE UNCHANGED dvars
  BY <1>11 DEF dvars, DInv, FilesKeepOwnText
<1> QED BY <1>2, <1>4, <1>5, <1>6, <1>7, <1>8, <1>9, <1>10, <1>11 DEF DNext

\* The invariant of a Docs window (apps/docs/src/lib.rs): what it loads, edits, saves and
\* creates for a document is that document's text, and its editor is in step with it.
THEOREM DocsInvariant == DSpec => []DInv
  BY DocsInit, DocsStep, PTL DEF DSpec

\* No editor shows another document's text, no file is given one, and what is shown and not
\* typed since is what the app holds (load(), edit() and poll_pending() of apps/docs).
THEOREM TextsKept == DSpec => []DocsKeepTexts
<1>1. DInv => DocsKeepTexts
  <2> SUFFICES ASSUME DInv PROVE DocsKeepTexts
    OBVIOUS
  <2>1. app \in AppSet /\ AppOK(app, shown, typed)
    BY DEF DInv, AppOK
  <2>2. DTypeOK
    BY <2>1 DEF DInv, DTypeOK, AppOK, AppSet, Writes, MaybeText, Places
  <2>3. EditorInStep
    BY <2>1 DEF EditorInStep, AppOK, EditorOK
  <2> QED BY <2>2, <2>3 DEF DInv, DocsKeepTexts
<1> QED BY <1>1, DocsInvariant, PTL

\* No click but Discard leaves what the app knows to be unsaved: back(), open() and close
\* of apps/docs ask first, and the last edit is taken before the click is.
THEOREM LeavesClean == DSpec => ClicksLeaveClean
<1> DEFINE Clean == LeavesByClick /\ click.op # "discard" /\ app.pend.st # "ok" => Has = app.saved
<1>1. DInv /\ [DNext]_dvars => Clean
  <2> SUFFICES ASSUME DInv, [DNext]_dvars, LeavesByClick, click.op # "discard", app.pend.st # "ok"
               PROVE  Has = app.saved
    OBVIOUS
  <2>1. app \in AppSet /\ AppOK(app, shown, typed) /\ Editing(app) /\ app'.view # app.view
    BY DEF DInv, AppOK, LeavesByClick
  <2>2. Frame
    BY <2>1 DEF DNext, dvars, Sweep, ServeRead, HearRead, ServeWrite, HearWrite, FailWrite, ServeLate,
                Forget, AppSet
  <2> DEFINE p == Polled(app)
             a == Asked(p)
             b == Taken(a)
             c == IF click \in Offered(a) THEN click ELSE NoClick
  <2>3. /\ p \in AppSet /\ Editing(p) /\ p.view = app.view /\ p.ed = app.ed /\ p.push = app.push
        /\ p.saved = app.saved
    <3>1. p = app \/ p = [app EXCEPT !.pend = NoWrite]
      BY <2>1 DEF Polled, AppSet
    <3> QED BY <2>1, <3>1, NoWriteOK DEF AppSet, Editing
  <2>4. a = p
    BY <2>3 DEF Asked
  <2>5. app' = Apply(b, c)
    BY <2>2 DEF Frame, Clicked
  <2> HIDE DEF p
  <2>6. c.op \notin {"discard", "edit"}
    <3>1. a.view \in Views /\ a.view.at = "edit"
      BY <2>3, <2>4 DEF AppSet, Editing
    <3>2. ClickOK(c, a) /\ c.op # "discard"
      BY <3>1, OfferedIs DEF NoClick
    <3> QED BY <3>1, <3>2 DEF ClickOK
  <2> HIDE DEF a, c
  <2>7. /\ b.view = app.view /\ b.saved = app.saved /\ Editing(b)
        /\ b.ed = IF ~app.push /\ app.view.doc \in typed THEN shown[app.view.doc] ELSE app.ed
    BY <2>3, <2>4 DEF Taken, Editing, AppSet
  <2>8. b.ed = Has
    BY <2>1, <2>7 DEF Has, AppOK, EditorOK
  <2>9. b \in AppSet
    BY <2>1, <2>3, <2>4, <2>7 DEF Taken, AppSet, AppOK, EditorOK, MaybeText, DInv
  <2> HIDE DEF b
  <2>10. app'.view # b.view
    BY <2>1, <2>7
  <2>11. ASSUME Dirty(b) PROVE Apply(b, c).view = b.view
    <3>1. \/ Apply(b, c) = b
          \/ c.op = "insert" /\ Apply(b, c) = [b EXCEPT !.ed = c.text, !.push = TRUE]
          \/ Apply(b, c) = Forget(b, b.view.doc)
          \/ \E w : Apply(b, c) = [b EXCEPT !.pend = w]
          \/ \E w, k : Apply(b, c) = [b EXCEPT !.pend = w, !.kept = k]
      BY <2>6, <2>11 DEF Apply
    <3> QED BY <2>9, <3>1 DEF Forget, AppSet
  <2> QED BY <2>5, <2>7, <2>8, <2>10, <2>11 DEF Dirty
<1> QED BY <1>1, DocsInvariant, PTL DEF DSpec, ClicksLeaveClean
=============================================================================
