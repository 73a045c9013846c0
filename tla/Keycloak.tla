------------------------------ MODULE Keycloak ------------------------------
(***************************************************************************)
(* The Keycloak a server starts for itself (keycloak.rs, main.rs): one     *)
(* container, one volume and one password file for the whole machine, and  *)
(* any number of servers, from different checkouts, that provision it at   *)
(* their start.  A step is one call to the file system, to docker or to    *)
(* Keycloak, so that a server can be stopped between any two of them, and  *)
(* another one can go through its own meanwhile.  A start that fails does  *)
(* not fail the server: it runs with login turned off.                     *)
(***************************************************************************)
EXTENDS Integers, FiniteSets

CONSTANTS
    Servers,        \* the checkouts
    NoPassword,     \* no file, or nothing in the volume yet
    Torn,           \* what a file holds that was created and not yet written
    OldPasswords,   \* what earlier builds made up, a password for each checkout
    MaxStarts,      \* bound: starts of a server
    MaxTrouble      \* bound: docker calls that fail, and machines that restart

ASSUME KeycloakAssumption ==
    /\ NoPassword # Torn
    /\ {NoPassword, Torn} \cap (OldPasswords \cup Nat) = {}
    /\ OldPasswords \cap Nat = {}
    /\ {MaxStarts, MaxTrouble} \subseteq Nat

VARIABLES
    file,       \* the admin password file
    legacy,     \* the password file an earlier build left in each checkout
    container,  \* the container of the fixed name, or none
    volume,     \* what is in the volume: the admin's password, realm, client
    found,      \* what the start that made the file found in its checkout (history)
    server,     \* each server's start: where it is, what it has read
    starts,     \* starts so far, which number the random passwords
    trouble     \* faults so far

kvars == <<file, legacy, container, volume, found, server, starts, trouble>>

NoContainer == [label |-> "none", running |-> FALSE, published |-> FALSE]
NewContainer(ok) == [label |-> "current", running |-> ok, published |-> ok]

Passwords == {NoPassword, Torn} \cup OldPasswords \cup (0 .. MaxStarts)

\* spoiled says that something happened during the start that it cannot be
\* blamed for: a fault, or another server starting at the same time.
Off == [pc |-> "off", password |-> NoPassword, spoiled |-> FALSE]

\* What earlier builds left: nothing, a container from before there was a volume,
\* or a volume with the password of one of the checkouts (which may be gone by
\* now), provisioned or not, with a container that uses it or without.
EarlierBuild ==
    /\ volume \in [admin : {NoPassword} \cup OldPasswords, realm : BOOLEAN, client : BOOLEAN]
    /\ volume.admin = NoPassword => ~volume.realm
    /\ volume.client => volume.realm
    /\ \/ container \in {NoContainer, [label |-> "old", running |-> TRUE, published |-> TRUE]}
       \/ volume.admin # NoPassword /\ container \in [label : {"current"}, running : BOOLEAN,
                                                     published : BOOLEAN]

KInit ==
    /\ file = NoPassword
    /\ legacy \in [Servers -> {NoPassword} \cup OldPasswords]
    /\ EarlierBuild
    /\ found = NoPassword
    /\ server = [s \in Servers |-> Off]
    /\ starts = 0
    /\ trouble = 0

-----------------------------------------------------------------------------

Starting(s) == server[s].pc \notin {"off", "gated", "open"}

\* A server takes a step; every other start under way is no longer alone.
Goes(s, pc) ==
    server' = [o \in Servers |->
        IF o = s
        THEN [server[s] EXCEPT !.pc = pc,
                 !.spoiled = @ \/ \E other \in Servers \ {s} : Starting(other)]
        ELSE IF Starting(o) THEN [server[o] EXCEPT !.spoiled = TRUE] ELSE server[o]]

\* provision() fails: login is turned off, and everyone gets in.
GivesUp(s) == Goes(s, "open")

\* The same for a step that went wrong by itself.
Fault(s, pc) ==
    /\ trouble < MaxTrouble
    /\ trouble' = trouble + 1
    /\ server' = [server EXCEPT ![s].pc = pc, ![s].spoiled = TRUE]

Start(s) ==
    /\ server[s].pc = "off"
    /\ starts < MaxStarts
    /\ starts' = starts + 1
    /\ server' = [server EXCEPT ![s] = [Off EXCEPT !.pc = "read",
                     !.spoiled = \E o \in Servers : Starting(o)]]
    /\ UNCHANGED <<file, legacy, container, volume, found, trouble>>

\* As it would be with what an earlier build left not looked at.
ReadOnlyFile(s) ==
    /\ server[s].pc = "read"
    /\ server' = [server EXCEPT ![s].pc = IF file # NoPassword THEN "inspect" ELSE "create",
                      ![s].password = IF file # NoPassword THEN file ELSE starts]
    /\ UNCHANGED <<file, legacy, container, volume, found, starts, trouble>>

\* admin_password: the file's, else the legacy file's, else a random one.
ReadPassword(s) ==
    /\ server[s].pc = "read"
    /\ IF file # NoPassword
       THEN server' = [server EXCEPT ![s].pc = "inspect", ![s].password = file]
       ELSE server' = [server EXCEPT ![s].pc = "create",
                          ![s].password = IF legacy[s] = NoPassword THEN starts ELSE legacy[s]]
    /\ UNCHANGED <<file, legacy, container, volume, found, starts, trouble>>

CreateFile(s) ==
    /\ server[s].pc = "create"
    /\ IF file = NoPassword
       THEN file' = Torn /\ found' = legacy[s] /\ Goes(s, "write")
       ELSE GivesUp(s) /\ UNCHANGED <<file, found>>
    /\ UNCHANGED <<legacy, container, volume, starts, trouble>>

WriteFile(s) ==
    /\ server[s].pc = "write"
    /\ file' = server[s].password
    /\ Goes(s, "forget")
    /\ UNCHANGED <<legacy, container, volume, found, starts, trouble>>

ForgetLegacy(s) ==
    /\ server[s].pc = "forget"
    /\ legacy' = [legacy EXCEPT ![s] = NoPassword]
    /\ Goes(s, "inspect")
    /\ UNCHANGED <<file, container, volume, found, starts, trouble>>

-----------------------------------------------------------------------------
(* ensure_running *)

\* What to do about the container there is, by its label and state.
Verdict ==
    IF container.label = "none" THEN "run"
    ELSE IF container.label = "old" THEN "remove"
    ELSE IF container.running THEN "port" ELSE "start"

Inspect(s) ==
    /\ server[s].pc = "inspect"
    /\ Goes(s, Verdict)
    /\ UNCHANGED <<file, legacy, container, volume, found, starts, trouble>>

\* docker start: the container runs, published or, as after a first start that
\* failed, not.
DockerStart(s) ==
    /\ server[s].pc = "start"
    /\ IF container.label = "none"
       THEN GivesUp(s) /\ UNCHANGED container
       ELSE /\ container' = [container EXCEPT !.running = TRUE]
            /\ Goes(s, "port")
    /\ UNCHANGED <<file, legacy, volume, found, starts, trouble>>

\* As it would be if a running container were taken to be reachable.
ReusedRunning == container.running

Reused == container.running /\ container.published

CheckPort(s) ==
    /\ server[s].pc = "port"
    /\ Goes(s, IF Reused THEN "wait" ELSE "remove")
    /\ UNCHANGED <<file, legacy, container, volume, found, starts, trouble>>

\* docker rm -f; of a container that is gone it may or may not say so.
DockerRemove(s) ==
    /\ server[s].pc = "remove"
    /\ container' = NoContainer
    /\ \/ Goes(s, "run")
       \/ container.label = "none" /\ GivesUp(s)
    /\ UNCHANGED <<file, legacy, volume, found, starts, trouble>>

\* docker run: refused when the name is taken; otherwise the container starts,
\* and Keycloak makes its admin from the password in its environment the first
\* time it finds the volume empty.
DockerRun(s) ==
    /\ server[s].pc = "run"
    /\ \/ /\ container.label # "none"
          /\ Goes(s, "clean")
          /\ UNCHANGED <<container, volume, found, trouble>>
       \/ /\ container.label = "none"
          /\ container' = NewContainer(TRUE)
          /\ volume' = [volume EXCEPT !.admin = IF @ = NoPassword THEN server[s].password ELSE @]
          /\ Goes(s, "wait")
          /\ UNCHANGED trouble
       \/ /\ container.label = "none"
          /\ container' = NewContainer(FALSE)
          /\ Fault(s, "clean")
          /\ UNCHANGED volume
    /\ UNCHANGED <<file, legacy, found, starts>>

\* After a docker run that failed, whatever has the name is removed.
CleanUp(s) ==
    /\ server[s].pc = "clean"
    /\ container' = NoContainer
    /\ GivesUp(s)
    /\ UNCHANGED <<file, legacy, volume, found, starts, trouble>>

-----------------------------------------------------------------------------
(* wait_until_up, admin_token, ensure_realm, ensure_client *)

Reachable == container.label # "none" /\ container.running /\ container.published

WaitUntilUp(s) ==
    /\ server[s].pc = "wait"
    /\ \/ Reachable /\ Goes(s, "token") /\ UNCHANGED trouble
       \/ ~Reachable /\ GivesUp(s) /\ UNCHANGED trouble
       \/ Fault(s, "open")
    /\ UNCHANGED <<file, legacy, container, volume, found, starts>>

\* Each of these calls fails when Keycloak has gone; a token is given for the
\* admin's password alone; what exists already is kept (409), and the client
\* is brought up to date.
Provision(s) ==
    /\ server[s].pc \in {"token", "realm", "client"}
    /\ IF ~Reachable \/ (server[s].pc = "token" /\ server[s].password \notin {volume.admin} \ {Torn})
       THEN GivesUp(s) /\ UNCHANGED volume
       ELSE \/ /\ server[s].pc = "token"
               /\ Goes(s, "realm")
               /\ UNCHANGED volume
            \/ /\ server[s].pc = "realm"
               /\ volume' = [volume EXCEPT !.realm = TRUE]
               /\ Goes(s, "client")
            \/ /\ server[s].pc = "client"
               /\ volume' = [volume EXCEPT !.client = TRUE]
               /\ Goes(s, "gated")
    /\ UNCHANGED <<file, legacy, container, found, starts, trouble>>

\* A server is stopped, at any moment.
Stop(s) ==
    /\ server[s].pc # "off"
    /\ server' = [server EXCEPT ![s] = Off]
    /\ UNCHANGED <<file, legacy, container, volume, found, starts, trouble>>

\* The container is stopped from outside, or comes up again without a network.
Disturb ==
    /\ trouble < MaxTrouble
    /\ trouble' = trouble + 1
    /\ container.label = "current"
    /\ \/ container' = [container EXCEPT !.running = FALSE]
       \/ container' = [container EXCEPT !.running = TRUE, !.published = FALSE]
    /\ server' = [s \in Servers |->
                     IF Starting(s) THEN [server[s] EXCEPT !.spoiled = TRUE] ELSE server[s]]
    /\ UNCHANGED <<file, legacy, volume, found, starts>>

KNext ==
    \/ \E s \in Servers :
        \/ Start(s) \/ ReadPassword(s) \/ CreateFile(s) \/ WriteFile(s) \/ ForgetLegacy(s)
        \/ Inspect(s) \/ DockerStart(s) \/ CheckPort(s) \/ DockerRemove(s) \/ DockerRun(s)
        \/ CleanUp(s) \/ WaitUntilUp(s) \/ Provision(s) \/ Stop(s)
    \/ Disturb

KSpec == KInit /\ [][KNext]_kvars

-----------------------------------------------------------------------------

KeycloakWellFormed ==
    /\ {file, volume.admin} \cup {legacy[s] : s \in Servers} \subseteq Passwords
    /\ container.label \in {"none", "old", "current"}
    /\ \A s \in Servers : server[s].password \in Passwords

\* An earlier build gave the volume a password, and the file was made by a
\* checkout that did not have that one.
LockedOut == volume.admin \in OldPasswords /\ found # volume.admin

\* A start that nothing disturbs ends with login on, whatever earlier starts
\* and stops have left behind: a container that is stopped, unpublished, or of
\* an older version, half of the provisioning, a legacy password.  The
\* exceptions are a password file that was created and never written, and
\* LockedOut, which AllAgree is about.
LoneStartSucceeds ==
    /\ KeycloakWellFormed
    /\ \A s \in Servers :
        server[s].pc = "open" /\ ~server[s].spoiled =>
            Torn \in {server[s].password, volume.admin} \/ LockedOut

\* All servers agree on the admin password, and the file holds it: nobody is
\* locked out of the Keycloak they share, but by a file read while it was being
\* written, or where LockedOut says so.  In particular the password that an
\* earlier build gave the volume is kept, if the first to start is the checkout
\* that has it.
PasswordsAgree ==
    volume.admin \notin {NoPassword, Torn} =>
        \/ file = volume.admin
        \/ volume.admin \in OldPasswords /\ file \in {NoPassword, Torn}
        \/ LockedOut

\* The file is kept per machine, so that all checkouts agree on the password
\* (keycloak.rs:10).  They do not if the first to start has another password
\* than the volume, or none: its own becomes the machine's, and the right one
\* stays in a checkout where it is not looked for any more (keycloak.rs:217).
AllAgree ==
    volume.admin \in OldPasswords => file \in {NoPassword, Torn, volume.admin}

=============================================================================
