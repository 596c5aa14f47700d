----------------------------- MODULE FxPlayerlist -----------------------------
(***************************************************************************)
(* core/modules/FxPlayerlist: the panel's mirror of the players of the game *)
(* server, fed by the reports of PlayerReports, and the list that a web     *)
(* page keeps from the events the panel sends to it (wsRooms/playerlist,    *)
(* panel/src/hooks/playerlist.ts).                                          *)
(*                                                                         *)
(* A report carries the mutex of its server.  handleFd3Messages drops those *)
(* of any other server than the current one, so what a server has reported  *)
(* and the panel has not read when it kills the server is lost.             *)
(***************************************************************************)
EXTENDS PlayerReports

CONSTANT
    MaxBuffer       \* bound on the events waiting for the next flush

VARIABLES
    playerlist,     \* #playerlist: of each id, the last connection
    online,         \* of each id, its isConnected
    log,            \* joinLeaveLog: of each connection, its joins and leaves
    outBuffer,      \* events for the web pages
    client,         \* a web page is connected
    view,           \* of each connection, how often that page lists it
    missed,         \* history: connections that ended when the resource was
                    \* not running, had not caught up, or had lost its list
    clashed         \* history: the two refreshes of the resource overlapped

historyVars == <<missed, clashed>>
panelVars == <<playerlist, online, log, outBuffer, client, view>>
vars == <<reportVars, panelVars, historyVars>>

NoView == [c \in Conns |-> 0]

NoLog == [c \in Conns |-> [joined |-> 0, left |-> 0]]

Full == [type |-> "fullPlayerlist", ref |-> Nobody]
Joined(c) == [type |-> "playerJoining", ref |-> c]
Left(c) == [type |-> "playerDropped", ref |-> c]

Events == [type : {"fullPlayerlist", "playerJoining", "playerDropped"},
           ref : Conns \cup {Nobody}]

\* The mirror of the panel, and the pages.
MirrorTypeOK ==
    /\ ReportsTypeOK
    /\ playerlist \in [Ids -> Conns \cup {Nobody}]
    /\ online \in [Ids -> BOOLEAN]
    /\ log \in [Conns -> [joined : Nat, left : Nat]]
    /\ missed \subseteq Conns
    /\ clashed \in BOOLEAN

TypeOK ==
    /\ MirrorTypeOK
    /\ outBuffer \in Seq(Events)
    /\ client \in BOOLEAN
    /\ view \in [Conns -> Nat]

Init ==
    /\ ReportsInit
    /\ playerlist = NoneLive
    /\ online = [i \in Ids |-> FALSE]
    /\ log = NoLog
    /\ outBuffer = <<>>
    /\ client = FALSE
    /\ view = NoView
    /\ missed = {}
    /\ clashed = FALSE

-----------------------------------------------------------------------------
(* The web pages.                                                           *)

Online == {playerlist[i] : i \in {j \in Ids : online[j]}}

Buffer(event) ==
    /\ Len(outBuffer) < MaxBuffer
    /\ outBuffer' = Append(outBuffer, event)

\* useProcessPlayerlistEvents: an event in a page's list.
Process(list, event) ==
    CASE event.type = "fullPlayerlist" -> NoView
      [] event.type = "playerJoining" -> [list EXCEPT ![event.ref] = @ + 1]
      [] event.type = "playerDropped" ->
             [c \in Conns |-> IF list[c] > 0 /\ idOf[c] = idOf[event.ref]
                              THEN 0 ELSE list[c]]

ProcessAll(list, events) ==
    LET after[n \in 0 .. Len(events)] ==
            IF n = 0 THEN list ELSE Process(after[n - 1], events[n])
    IN  after[Len(events)]

FlushBuffers ==
    /\ outBuffer # <<>>
    /\ outBuffer' = <<>>
    /\ view' = IF client THEN ProcessAll(view, outBuffer) ELSE NoView
    /\ UNCHANGED <<reportVars, playerlist, online, log, client, historyVars>>

\* Mutant: the page gets the list first.
ClientConnectsUnflushed ==
    /\ ~client
    /\ client' = TRUE
    /\ view' = [c \in Conns |-> IF c \in Online THEN 1 ELSE 0]
    /\ UNCHANGED <<reportVars, playerlist, online, log, outBuffer, historyVars>>

\* handleConnection: the buffers are flushed before the page gets the list.
ClientConnects ==
    /\ ~client
    /\ client' = TRUE
    /\ view' = [c \in Conns |-> IF c \in Online THEN 1 ELSE 0]
    /\ outBuffer' = <<>>
    /\ UNCHANGED <<reportVars, playerlist, online, log, historyVars>>

ClientLeaves ==
    /\ client
    /\ client' = FALSE
    /\ view' = NoView
    /\ UNCHANGED <<reportVars, playerlist, online, log, outBuffer, historyVars>>

-----------------------------------------------------------------------------
(* The reports.                                                             *)

SameConnection(r) == online[r.id] /\ playerlist[r.id] = r.ref

\* Mutant: every report of a join is a new player who joins.
HandleJoiningAsNew(r) ==
    /\ playerlist' = [playerlist EXCEPT ![r.id] = r.ref]
    /\ online' = [online EXCEPT ![r.id] = TRUE]
    /\ log' = [log EXCEPT ![r.ref].joined = @ + 1]
    /\ Buffer(Joined(r.ref))

\* handleServerEvents, playerJoining.
HandleJoining(r) ==
    IF SameConnection(r)
    THEN UNCHANGED <<playerlist, online, log, outBuffer>>
    ELSE /\ playerlist' = [playerlist EXCEPT ![r.id] = r.ref]
         /\ online' = [online EXCEPT ![r.id] = TRUE]
         /\ log' = IF r.resync THEN log ELSE [log EXCEPT ![r.ref].joined = @ + 1]
         /\ Buffer(Joined(r.ref))

\* Mutant: a drop without a reference, or with another one, is taken.
StaleDropNever(r) == playerlist[r.id] = Nobody

\* There is nobody by that id, or somebody else.
StaleDrop(r) == playerlist[r.id] = Nobody \/ playerlist[r.id] # r.ref

\* handleServerEvents, playerDropped.
HandleDropped(r) ==
    IF StaleDrop(r)
    THEN UNCHANGED <<playerlist, online, log, outBuffer>>
    ELSE /\ online' = [online EXCEPT ![r.id] = FALSE]
         /\ log' = [log EXCEPT ![playerlist[r.id]].left = @ + 1]
         /\ Buffer(Left(playerlist[r.id]))
         /\ UNCHANGED playerlist

HandleServerEvents(r) ==
    \/ r.event = "playerJoining" /\ HandleJoining(r)
    \/ r.event = "playerDropped" /\ HandleDropped(r)

ReadReport ==
    /\ pipe # <<>>
    /\ pipe' = Tail(pipe)
    /\ HandleServerEvents(Head(pipe))
    /\ UNCHANGED <<server, idOf, live, resource, resourceVars, client, view,
                   historyVars>>

-----------------------------------------------------------------------------
(* The server, as the panel sees it.                                        *)

\* FxRunner.spawnServer
SpawnServer ==
    /\ ServerStarts
    /\ Buffer(Full)
    /\ UNCHANGED <<pipe, playerlist, online, log, client, view, historyVars>>

\* Mutant: the list stays until the next server fills it.
HandleServerCloseKeepsList ==
    /\ playerlist' = playerlist
    /\ online' = online
    /\ log' = NoLog
    /\ Buffer(Full)

HandleServerClose ==
    /\ playerlist' = NoneLive
    /\ online' = [i \in Ids |-> FALSE]
    /\ log' = NoLog
    /\ Buffer(Full)

\* Mutant: the reports are taken whatever their mutex.
KillServerKeepsReports ==
    /\ server # "none"
    /\ ServerGone("none")
    /\ HandleServerClose
    /\ missed' = {}
    /\ clashed' = FALSE
    /\ UNCHANGED <<pipe, client, view>>

\* FxRunner.killServer: there is no current server then, and what it had
\* reported will not be taken.
KillServer ==
    /\ server # "none"
    /\ ServerGone("none")
    /\ pipe' = <<>>
    /\ HandleServerClose
    /\ missed' = {}
    /\ clashed' = FALSE
    /\ UNCHANGED <<client, view>>

\* What the panel does not see of the server and of the resource.
Unseen ==
    /\ clashed' = (resource' /\ (clashed \/ refreshing' = Threads))
    /\ UNCHANGED <<panelVars, missed>>

RefreshStarts(t) == RefreshBegins(t) /\ Unseen
RefreshReports(t) == RefreshEnds(t) /\ Unseen
RefreshFails(t) == RefreshErrs(t) /\ Unseen

ServerStep ==
    /\ \/ ServerDies
       \/ ResourceStops
       \/ ResourceStarts
       \/ \E i \in Ids : Connect(i)
    /\ Unseen

PlayerLeaves(i) ==
    /\ Disconnect(i)
    /\ missed' = IF resource /\ synced /\ ~clashed THEN missed
                 ELSE missed \cup {live[i]}
    /\ UNCHANGED <<panelVars, clashed>>

Next ==
    \/ ServerStep
    \/ \E t \in Threads : RefreshStarts(t) \/ RefreshReports(t) \/ RefreshFails(t)
    \/ \E i \in Ids : PlayerLeaves(i)
    \/ SpawnServer
    \/ KillServer
    \/ ReadReport
    \/ FlushBuffers
    \/ ClientConnects
    \/ ClientLeaves

Spec == Init /\ [][Next]_vars

\* The threads of the resource go on (strongly, as the bound MaxPipe may hold a
\* report back), reports are read and buffers are flushed.  Servers, players,
\* resources and web pages come and go as they like.
Fairness ==
    /\ \A t \in Threads : WF_vars(RefreshStarts(t))
    /\ \A t \in Threads : SF_vars(RefreshReports(t))
    /\ SF_vars(ReadReport)
    /\ WF_vars(FlushBuffers)

FairSpec == Spec /\ Fairness

-----------------------------------------------------------------------------
(* Properties.                                                              *)

\* A connection joins and leaves once in the panel's statistics, however often
\* the resource was restarted and reports it again, and whatever the drops say
\* of connections with its id that the panel never heard of.
JoinedOnce == \A c \in Conns : log[c].joined <= 1 /\ log[c].left <= 1

\* Everything the resource had to report was reported and read.
Settled ==
    /\ resource /\ synced /\ ~clashed
    /\ refreshing = {}
    /\ pipe = <<>>

\* Then the panel lists every connected player, also those who came while the
\* resource was stopped, and who is on its list without being connected left
\* when the resource could not report it.
MirrorSettled ==
    Settled => \A i \in Ids :
        IF live[i] # Nobody THEN online[i] /\ playerlist[i] = live[i]
                            ELSE online[i] => playerlist[i] \in missed

\* A player who stays is shown on a page that stays, also one whose join the
\* resource was not there to see (unless its refresh for them failed).
PlayerShown ==
    \A c \in Conns :
        (\E i \in Ids : live[i] = c) /\ client
            ~> \/ view[c] > 0
               \/ \A i \in Ids : live[i] # c
               \/ ~client \/ ~resource \/ failed \/ clashed

Shown == {c \in Conns : view[c] > 0}

\* After a flush a page shows the players that the panel lists, with an id
\* twice only if the end of the first connection was missed.
ViewFollows ==
    client /\ outBuffer = <<>> =>
        /\ {idOf[c] : c \in Shown} = {i \in Ids : online[i]}
        /\ \A c \in Shown : view[c] = 1
        /\ \A c, d \in Shown : idOf[c] = idOf[d] /\ c < d => c \in missed

=============================================================================
