------------------------------ MODULE AdminStore ------------------------------
(***************************************************************************)
(* core/modules/AdminStore: the administrators, in memory (admins) and in   *)
(* the file admins.json (file).  Every change is made in memory first and   *)
(* then written, by a writeFile that is not ordered with the others; a      *)
(* check every 15 seconds compares the file with the hash of what was last  *)
(* written and writes it again when they differ.                            *)
(*                                                                         *)
(* A step is what runs between two awaits.  A hash is modelled by the       *)
(* content that it is of, an administrator by what the panel decides on:    *)
(* the permissions, one linked account and the password.  An account has an *)
(* identifier that stays, and an id that its owner may change (the username *)
(* at citizenfx), after which somebody else may take it.  A write truncates *)
(* the file when it opens it; two that overlap may leave a mixture.         *)
(***************************************************************************)
EXTENDS Naturals

CONSTANTS
    Names,          \* names of administrators
    Master,         \* the name of the master account
    Perms,          \* permissions
    Links,          \* what a provider says of an account: id and identifier
    None,           \* no administrator, account, write, content or session
    Absent, Empty, Broken,  \* no file, a truncated one, one that cannot be used
    Sessions,       \* sessions of web pages, which may wait for a write
    Slots,          \* slots for the writes in flight
    MaxPassword,    \* bound on the passwords: 0 .. MaxPassword
    Watched         \* bound: FALSE when nobody touches or checks the file

VARIABLES
    panel,          \* "loading", "setup", "on", or "down"
    admins,         \* this.admins, by name
    hash,           \* adminsFileHash
    checks,         \* refreshRoutine is set
    checking,       \* what checkAdminsFile in flight has read
    file,           \* admins.json
    writes,         \* the writeFile calls in flight
    doubt           \* history: a write failed or overlapped with another, or
                    \* somebody else touched the file, since it was last in order

fileVars == <<file, writes, doubt>>
storeVars == <<panel, admins, hash, checks, checking, fileVars>>

Admin == [perms : SUBSET Perms, link : Links \cup {None}, password : 0 .. MaxPassword]
Contents == [Names -> Admin \cup {None}]
Files == Contents \cup {Absent, Empty, Broken}
Write == [content : Contents, by : Sessions \cup {None}, restore : BOOLEAN,
          stage : {"queued", "open"}]

ASSUME AdminAssumption ==
    /\ Master \in Names
    /\ MaxPassword \in Nat
    /\ Watched \in BOOLEAN
    /\ Links \subseteq [id : STRING, identifier : STRING]
    /\ None \notin Links \cup Sessions \cup Admin \cup Contents \cup Write \cup Files
    /\ {Absent, Empty, Broken} \cap Contents = {}

NoAdmins == [n \in Names |-> None]

StoreTypeOK ==
    /\ panel \in {"loading", "setup", "on", "down"}
    /\ admins \in Contents
    /\ hash \in Contents \cup {None}
    /\ checks \in BOOLEAN
    /\ checking \in Files \cup {None}
    /\ file \in Files
    /\ writes \in [Slots -> Write \cup {None}]
    /\ doubt \in BOOLEAN

StoreInit ==
    /\ panel = "setup"
    /\ admins = NoAdmins
    /\ hash = None
    /\ checks = FALSE
    /\ checking = None
    /\ file = Absent
    /\ writes = [s \in Slots |-> None]
    /\ doubt = FALSE

-----------------------------------------------------------------------------
(* The administrators.                                                      *)

Named(n) == admins[n] # None

\* getAdminByProviderUID, getAdminByIdentifiers: who has an account.
HolderOfUid(link) == {n \in Names : Named(n) /\ admins[n].link # None /\ admins[n].link.id = link.id}
HolderOfIdentifier(link) ==
    {n \in Names : /\ Named(n) /\ admins[n].link # None
                   /\ admins[n].link.identifier = link.identifier}

\* Mutant: what is written is taken from memory before the change.
WriteAdminsFileLate(new, by, restore) ==
    /\ admins' = new
    /\ hash' = admins
    /\ \E s \in Slots :
           /\ writes[s] = None
           /\ writes' = [writes EXCEPT ![s] =
                  [content |-> admins, by |-> by, restore |-> restore, stage |-> "queued"]]
    /\ doubt' = (doubt \/ \E s \in Slots : writes[s] # None)
    /\ UNCHANGED <<panel, checks, file>>

\* The change in memory, and writeAdminsFile up to its await.
WriteAdminsFile(new, by, restore) ==
    /\ admins' = new
    /\ hash' = new
    /\ \E s \in Slots :
           /\ writes[s] = None
           /\ writes' = [writes EXCEPT ![s] =
                  [content |-> new, by |-> by, restore |-> restore, stage |-> "queued"]]
    /\ doubt' = (doubt \/ \E s \in Slots : writes[s] # None)
    /\ UNCHANGED <<panel, checks, file>>

Change(new, by) ==
    /\ panel = "on"
    /\ WriteAdminsFile(new, by, FALSE)
    /\ UNCHANGED checking

\* The first master account: the file must not exist.  (Its first write is
\* synchronous.)  The administrator is set, and can sign in, whether or not
\* the file is written.
CreateAdminsFile ==
    LET new == [NoAdmins EXCEPT ![Master] = [perms |-> {}, link |-> None, password |-> 0]]
    IN  /\ panel = "setup"
        /\ panel' = "on"
        /\ admins' = new
        /\ hash' = new
        /\ \/ file = Absent /\ file' = new /\ checks' = TRUE /\ doubt' = FALSE
           \/ /\ checks' = FALSE
              /\ doubt' = TRUE
              /\ file' \in {file} \cup (IF file = Absent THEN {Empty} ELSE {})
        /\ UNCHANGED <<checking, writes>>

\* handleAdd, addAdmin.  Only the id is looked for (of a license, the
\* identifier too).
AddAdmin(n, link, perms) ==
    /\ ~Named(n)
    /\ link # None => HolderOfUid(link) = {}
    /\ Change([admins EXCEPT ![n] = [perms |-> perms, link |-> link, password |-> 0]], None)

\* Mutant: the holders of the identifier are not looked for.
UidAvailableById(n, link) ==
    link # None => HolderOfUid(link) = {} \/ n \in HolderOfUid(link)

\* Mutant: the holders of the id are not looked for.
UidAvailableByIdentifier(n, link) ==
    link # None => HolderOfIdentifier(link) = {} \/ n \in HolderOfIdentifier(link)

\* assertProviderAvailable: who holds the identifier is looked for only when
\* nobody holds the id.  Which of several holders the list has first is left
\* open.
UidAvailable(n, link) ==
    LET existing == IF HolderOfUid(link) # {} THEN HolderOfUid(link) ELSE HolderOfIdentifier(link)
    IN  link # None => existing = {} \/ n \in existing

\* handleEdit, editAdmin, by another administrator: nobody edits the master.
EditAdmin(n, link, perms) ==
    /\ Named(n)
    /\ n # Master
    /\ UidAvailable(n, link)
    /\ Change([admins EXCEPT ![n].link = link, ![n].perms = perms], None)

\* selfIdentifiers: an administrator's own account.
SelfIdentifiers(n, link) ==
    /\ Named(n)
    /\ UidAvailable(n, link)
    /\ Change([admins EXCEPT ![n].link = link], None)

\* handleDelete, deleteAdmin
DeleteAdmin(n) ==
    /\ Named(n)
    /\ n # Master
    /\ Change([admins EXCEPT ![n] = None], None)

\* setAdminPassword, up to its await: the new password, and who waits.
SetAdminPassword(n, by) ==
    /\ Named(n)
    /\ admins[n].password < MaxPassword
    /\ Change([admins EXCEPT ![n].password = @ + 1], by)

\* setAdminPreferences: of what is modelled nothing changes, but it is written.
SetAdminPreferences == (\E n \in Names : Named(n)) /\ Change(admins, None)

-----------------------------------------------------------------------------
(* The file.                                                                *)

Others(s) == {o \in Slots \ {s} : writes[o] # None}

WriteOpens(s) ==
    /\ writes[s] # None
    /\ writes[s].stage = "queued"
    /\ writes' = [writes EXCEPT ![s].stage = "open"]
    /\ file' = Empty
    /\ UNCHANGED <<panel, admins, hash, checks, checking, doubt>>

\* The content is there, or in a mixture with that of another write.
WriteLands(s) ==
    /\ writes[s] # None
    /\ writes[s].stage = "open"
    /\ file' \in {writes[s].content} \cup (IF file = Empty THEN {} ELSE {Broken})
    /\ writes' = [writes EXCEPT ![s] = None]
    /\ doubt' = (doubt /\ ~(Others(s) = {} /\ file' = hash))
    /\ UNCHANGED <<panel, admins, hash, checks, checking>>

\* The file cannot be opened, or written.
WriteFails(s) ==
    /\ writes[s] # None
    /\ writes' = [writes EXCEPT ![s] = None]
    /\ doubt' = TRUE
    /\ UNCHANGED <<panel, admins, hash, checks, checking, file>>

Restoring == \E s \in Slots : writes[s] # None /\ writes[s].restore

\* checkAdminsFile, and its readFile.  Assumed: what an earlier check began
\* takes less than the 15 seconds between two of them.
CheckBegins ==
    /\ Watched
    /\ panel = "on"
    /\ checks
    /\ checking = None
    /\ ~Restoring
    /\ file # Absent
    /\ checking' = file
    /\ UNCHANGED <<panel, admins, hash, checks, fileVars>>

\* Mutant: a file that cannot be parsed is not restored.
CheckEndsUnlessBroken ==
    /\ checking # None
    /\ checking' = None
    /\ IF checking \notin {hash, Broken, Empty}
       THEN WriteAdminsFile(admins, None, TRUE)
       ELSE UNCHANGED <<panel, admins, hash, checks, fileVars>>

\* What was read is compared with the present hash.
CheckEnds ==
    /\ checking # None
    /\ checking' = None
    /\ IF checking # hash
       THEN WriteAdminsFile(admins, None, TRUE)
       ELSE UNCHANGED <<panel, admins, hash, checks, fileVars>>

\* Somebody else removes or damages the file, also when the panel is down.
Tamper ==
    /\ Watched
    /\ file' \in {Absent, Broken} \ {file}
    /\ doubt' = TRUE
    /\ UNCHANGED <<panel, admins, hash, checks, checking, writes>>

\* The panel ends, at any point, and starts again.
PanelRestarts ==
    /\ panel' = IF file = Absent THEN "setup" ELSE "loading"
    /\ admins' = NoAdmins
    /\ hash' = None
    /\ checks' = FALSE
    /\ checking' = None
    /\ writes' = [s \in Slots |-> None]
    /\ doubt' = FALSE
    /\ UNCHANGED file

\* loadAdminsFile: what cannot be used ends the panel.
LoadAdminsFile ==
    /\ panel = "loading"
    /\ IF file \in {Absent, Empty, Broken}
       THEN panel' = "down" /\ UNCHANGED <<admins, hash, checks>>
       ELSE panel' = "on" /\ admins' = file /\ hash' = file /\ checks' = TRUE
    /\ doubt' = FALSE
    /\ UNCHANGED <<checking, file, writes>>

-----------------------------------------------------------------------------
\* What administrators do, password changes apart.
Request ==
    \/ CreateAdminsFile
    \/ \E n \in Names, link \in Links \cup {None}, perms \in SUBSET Perms :
           AddAdmin(n, link, perms) \/ EditAdmin(n, link, perms)
    \/ \E n \in Names, link \in Links \cup {None} : SelfIdentifiers(n, link)
    \/ \E n \in Names : DeleteAdmin(n)
    \/ SetAdminPreferences

FileStep ==
    \/ \E s \in Slots : WriteOpens(s) \/ WriteLands(s) \/ WriteFails(s)
    \/ CheckBegins
    \/ CheckEnds

StoreNext ==
    \/ Request
    \/ \E n \in Names, by \in Sessions : SetAdminPassword(n, by)
    \/ FileStep
    \/ Tamper
    \/ PanelRestarts
    \/ LoadAdminsFile

StoreSpec == StoreInit /\ [][StoreNext]_storeVars

\* The interval fires, reads are answered, and as long as there are writes some
\* end, not always with an error (strongly, as the bound on the slots may hold a
\* write back).
StoreFairness ==
    /\ WF_storeVars(CheckBegins)
    /\ SF_storeVars(CheckEnds)
    /\ SF_storeVars(\E s \in Slots : WriteOpens(s))
    /\ SF_storeVars(\E s \in Slots : WriteLands(s))

FairStoreSpec == StoreSpec /\ StoreFairness

-----------------------------------------------------------------------------
(* Properties.                                                              *)

\* When no write is in flight, the file holds what is in memory, so that a
\* panel that ends comes back with it, unless a write failed, overlapped with
\* another one, or somebody touched the file, and no check has come since.
SavedWhenQuiet ==
    panel = "on" /\ ~doubt /\ (\A s \in Slots : writes[s] = None) => file = admins

\* Then the check brings the file back: once nobody changes anything, it
\* holds what is in memory, whatever mixture or older content was left there
\* (a file that is gone, and that of a failed setup, apart).
FileSettles ==
    <>[][FileStep \/ LoadAdminsFile]_storeVars =>
        []<>(panel # "on" \/ ~checks \/ file \in {Absent, admins})

Linked(a, n) == a[n] # None /\ a[n].link # None
SameId(a, m, n) == Linked(a, m) /\ Linked(a, n) /\ a[m].link.id = a[n].link.id
SameAccount(a, m, n) ==
    Linked(a, m) /\ Linked(a, n) /\ a[m].link.identifier = a[n].link.identifier

\* An id names one administrator, whatever was added, edited, and brought back
\* by a restart from an older file: a sign-in by an id is not somebody else's.
IdUnique == \A m, n \in Names : m # n => ~SameId(admins, m, n)

\* An edit links an account to a second administrator only under an id that
\* the edited one had already (who held the identifier is not looked for then).
\* By other steps it is one who is added that can share the identifier.
IdentifierTaken ==
    [][\A m, n \in Names :
           /\ m # n /\ Named(m) /\ Named(n) /\ panel = "on"
           /\ SameAccount(admins', m, n) /\ ~SameAccount(admins, m, n)
           => \E e \in {m, n} : /\ Linked(admins, e) /\ admins'[e].link # admins[e].link
                                /\ admins'[e].link.id = admins[e].link.id]_storeVars

\* "prevents duplicate identities": no two administrators share an account.
IdentifierUnique == \A m, n \in Names : m # n => ~SameAccount(admins, m, n)

\* "modified or deleted by an external source, it will be restored"
DeletedIsRestored ==
    file = Absent /\ panel = "on" /\ checks ~> file # Absent \/ panel # "on"

=============================================================================
