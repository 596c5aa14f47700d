----------------------------- MODULE AdminSockets -----------------------------
(***************************************************************************)
(* core/modules/WebServer/webSocket.ts and the routes under                 *)
(* core/routes/authentication, composed with AdminStore: the sessions of    *)
(* the web pages, which hold the name and the password hash they signed in  *)
(* with, and their sockets, which join a room when the administrator has    *)
(* the permission for it.  After a change of the administrators a refresh   *)
(* (reCheckAdminAuths) looks at every socket again, in the order in which   *)
(* they connected; it is deferred, and ends at the first socket whose       *)
(* session is no longer valid.                                              *)
(***************************************************************************)
EXTENDS AdminStore, Sequences

CONSTANTS
    RoomPerm,       \* the permission for the room
    MaxSockets,     \* bound on the sockets
    MaxRefreshes    \* bound on the refreshes that are due

Auth == [name : Names, password : 0 .. MaxPassword]

ASSUME SocketsAssumption ==
    /\ RoomPerm \in Perms
    /\ MaxSockets \in Nat
    /\ MaxRefreshes \in Nat
    /\ None \notin Auth

VARIABLES
    sessions,       \* of each session, its auth
    changing,       \* of each session, the auth it gets when its change of
                    \* password is written
    sockets,        \* the connected sockets, oldest first
    refreshes,      \* refreshOnlineAdmins that are due
    cut,            \* history: the last refresh ended before the last socket
    changer         \* history: of each name, the session that set its password

socketVars == <<sockets, refreshes, cut>>
sessionVars == <<sessions, changing, changer>>
vars == <<storeVars, socketVars, sessionVars>>

Socket == [session : Sessions, name : Names, room : BOOLEAN, shown : SUBSET Perms]

TypeOK ==
    /\ StoreTypeOK
    /\ sessions \in [Sessions -> Auth \cup {None}]
    /\ changing \in [Sessions -> Auth \cup {None}]
    /\ sockets \in Seq(Socket)
    /\ refreshes \in 0 .. MaxRefreshes
    /\ cut \in BOOLEAN
    /\ changer \in [Names -> Sessions \cup {None}]

Init ==
    /\ StoreInit
    /\ sessions = [s \in Sessions |-> None]
    /\ changing = [s \in Sessions |-> None]
    /\ sockets = <<>>
    /\ refreshes = 0
    /\ cut = FALSE
    /\ changer = [n \in Names |-> None]

-----------------------------------------------------------------------------
(* Sessions.                                                                *)

\* normalAuthLogic
Valid(s) ==
    /\ sessions[s] # None
    /\ Named(sessions[s].name)
    /\ admins[sessions[s].name].password = sessions[s].password

HasPermission(n, p) == n = Master \/ p \in admins[n].perms

Forget(s) == [n \in Names |-> IF changer[n] = s THEN None ELSE changer[n]]

\* verifyPassword: who knows the present password gets a session for it.
SignIn(s, n) ==
    /\ panel = "on"
    /\ Named(n)
    /\ sessions' = [sessions EXCEPT ![s] = [name |-> n, password |-> admins[n].password]]
    /\ UNCHANGED <<storeVars, socketVars, changing, changer>>

\* logout: the sockets of the session are not looked at.
SignOut(s) ==
    /\ sessions[s] # None
    /\ sessions' = [sessions EXCEPT ![s] = None]
    /\ UNCHANGED <<storeVars, socketVars, changing, changer>>

\* bootstrapMaster: the session of the master account, if it was saved.
BootstrapMaster(s) ==
    /\ CreateAdminsFile
    /\ sessions' = IF checks' THEN [sessions EXCEPT ![s] = [name |-> Master, password |-> 0]]
                              ELSE sessions
    /\ UNCHANGED <<socketVars, changing, changer>>

\* changePassword, up to the await of setAdminPassword (bound: a session has
\* one such request at a time).
ChangePassword(s) ==
    /\ Valid(s)
    /\ changing[s] = None
    /\ LET n == sessions[s].name IN
       /\ SetAdminPassword(n, s)
       /\ changing' = [changing EXCEPT ![s] =
                          [name |-> n, password |-> admins[n].password + 1]]
       /\ changer' = [changer EXCEPT ![n] = s]
    /\ UNCHANGED <<sessions, socketVars>>

-----------------------------------------------------------------------------
(* Sockets.                                                                 *)

\* handleConnection
HandleConnection(s) ==
    /\ panel = "on"
    /\ Valid(s)
    /\ Len(sockets) < MaxSockets
    /\ LET n == sessions[s].name IN
       sockets' = Append(sockets, [session |-> s, name |-> n,
                                   room |-> HasPermission(n, RoomPerm),
                                   shown |-> admins[n].perms])
    /\ UNCHANGED <<storeVars, sessionVars, refreshes, cut>>

Without(k) == [i \in 1 .. Len(sockets) - 1 |-> sockets[IF i < k THEN i ELSE i + 1]]

Disconnect(k) ==
    /\ sockets' = Without(k)
    /\ UNCHANGED <<storeVars, sessionVars, refreshes, cut>>

\* What reCheckAdminAuths makes of a socket with a valid session.
Rechecked(socket) ==
    LET n == sessions[socket.session].name IN
    [socket EXCEPT !.name = n,
                   !.room = @ /\ HasPermission(n, RoomPerm),
                   !.shown = admins[n].perms]

Invalid == {k \in DOMAIN sockets : ~Valid(sockets[k].session)}

\* The sockets before the first invalid one are looked at, that one is
\* disconnected, and the others are left as they are.
Recheck ==
    IF Invalid = {}
    THEN /\ sockets' = [k \in DOMAIN sockets |-> Rechecked(sockets[k])]
         /\ cut' = FALSE
    ELSE LET first == CHOOSE k \in Invalid : \A j \in Invalid : k <= j
         IN  /\ sockets' = [i \in 1 .. Len(sockets) - 1 |->
                               IF i < first THEN Rechecked(sockets[i]) ELSE sockets[i + 1]]
             /\ cut' = (first < Len(sockets))

RefreshOnlineAdmins ==
    /\ refreshes > 0
    /\ refreshes' = refreshes - 1
    /\ Recheck
    /\ UNCHANGED <<storeVars, sessionVars>>

RefreshDue ==
    /\ refreshes < MaxRefreshes
    /\ refreshes' = refreshes + 1
    /\ UNCHANGED <<sockets, cut>>

-----------------------------------------------------------------------------
(* The steps of AdminStore, with what follows from them.                    *)

\* Mutant: edits are only written.
EditSilently ==
    /\ \E n \in Names, link \in Links \cup {None}, perms \in SUBSET Perms :
           EditAdmin(n, link, perms)
    /\ UNCHANGED <<socketVars, sessionVars>>

EditOthers ==
    /\ \E n \in Names, link \in Links \cup {None}, perms \in SUBSET Perms :
           EditAdmin(n, link, perms)
    /\ RefreshDue
    /\ UNCHANGED sessionVars

AddOrDelete ==
    /\ \E n \in Names :
           /\ \/ \E link \in Links \cup {None}, perms \in SUBSET Perms : AddAdmin(n, link, perms)
              \/ DeleteAdmin(n)
           /\ changer' = [changer EXCEPT ![n] = None]
    /\ RefreshDue
    /\ UNCHANGED <<sessions, changing>>

EditSelf ==
    /\ \E n \in Names, link \in Links \cup {None} : SelfIdentifiers(n, link)
    /\ RefreshDue
    /\ UNCHANGED sessionVars

Prefer == SetAdminPreferences /\ UNCHANGED <<socketVars, sessionVars>>

\* Mutant: the session is left with the old password.
PasswordSetOnly(s) ==
    /\ changing' = [changing EXCEPT ![s] = None]
    /\ RefreshDue
    /\ UNCHANGED <<sessions, changer>>

\* setAdminPassword returns to changePassword, which updates its session: the
\* one it began with, whatever became of it meanwhile.
PasswordSet(s) ==
    /\ sessions' = [sessions EXCEPT ![s] = changing[s]]
    /\ changing' = [changing EXCEPT ![s] = None]
    /\ RefreshDue
    /\ UNCHANGED changer

\* The write of a request that waits for it ends.
WriteEnds(slot) ==
    \/ /\ WriteLands(slot)
       /\ IF writes[slot].by = None THEN UNCHANGED <<socketVars, sessionVars>>
                                    ELSE PasswordSet(writes[slot].by)
    \/ /\ WriteFails(slot)
       /\ IF writes[slot].by = None
          THEN UNCHANGED <<sessionVars>>
          ELSE /\ changing' = [changing EXCEPT ![writes[slot].by] = None]
               /\ changer' = Forget(writes[slot].by)
               /\ UNCHANGED sessions
       /\ UNCHANGED socketVars

FileWork ==
    /\ CheckBegins \/ CheckEnds \/ Tamper \/ LoadAdminsFile
       \/ \E slot \in Slots : WriteOpens(slot)
    /\ UNCHANGED <<socketVars, sessionVars>>

\* Sessions are saved now and then: some may be lost.
Restart ==
    /\ PanelRestarts
    /\ \E lost \in SUBSET Sessions :
           sessions' = [s \in Sessions |-> IF s \in lost THEN None ELSE sessions[s]]
    /\ changing' = [s \in Sessions |-> None]
    /\ sockets' = <<>>
    /\ refreshes' = 0
    /\ cut' = FALSE
    /\ changer' = [n \in Names |-> None]

Next ==
    \/ \E s \in Sessions :
           \/ \E n \in Names : SignIn(s, n)
           \/ SignOut(s)
           \/ BootstrapMaster(s)
           \/ ChangePassword(s)
           \/ HandleConnection(s)
    \/ \E k \in DOMAIN sockets : Disconnect(k)
    \/ RefreshOnlineAdmins
    \/ EditOthers
    \/ AddOrDelete
    \/ EditSelf
    \/ Prefer
    \/ \E slot \in Slots : WriteEnds(slot)
    \/ FileWork
    \/ Restart

Spec == Init /\ [][Next]_vars

-----------------------------------------------------------------------------
(* Properties.                                                              *)

\* "If an admin is not authed anymore, they will be disconnected.  If an admin
\* lost permission to a room, they will be kicked out of it": when no refresh
\* is due, and the last one was not cut short, every socket is that of an
\* administrator there is, shows the permissions there are, and is in the room
\* only with the permission for it, whoever the session is signed in as now.
RoomsFollow ==
    refreshes = 0 /\ ~cut =>
        \A k \in DOMAIN sockets :
            LET n == sockets[k].name IN
            /\ Named(n)
            /\ sockets[k].shown = admins[n].perms
            /\ sockets[k].room => HasPermission(n, RoomPerm)

\* Whoever changed a password stays signed in with the new one, whatever other
\* changes of the administrators, sign-ins and writes came before the answer.
OwnSessionKept ==
    \A n \in Names :
        LET s == changer[n] IN
        s # None /\ changing[s] = None /\ sessions[s] # None /\ sessions[s].name = n
            => Valid(s)

\* "Allow the caller to update its own password-backed session first": no
\* refresh disconnects a page while its change of password is being written.
OwnSocketKept ==
    [][\A s \in Sessions :
           changing[s] # None /\ RefreshOnlineAdmins
           /\ (\E k \in DOMAIN sockets : sockets[k].session = s)
               => \E k \in DOMAIN sockets' : sockets'[k].session = s]_vars

\* A page's socket in the room has the permission when no refresh is due.
RoomsAlwaysFollow ==
    refreshes = 0 =>
        \A k \in DOMAIN sockets :
            sockets[k].room /\ Named(sockets[k].name) => HasPermission(sockets[k].name, RoomPerm)

=============================================================================
