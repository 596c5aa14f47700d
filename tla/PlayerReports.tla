----------------------------- MODULE PlayerReports -----------------------------
(***************************************************************************)
(* resource/sv_playerlist.lua: how the panel's resource, inside the game    *)
(* server, keeps track of the connected players and reports them to the     *)
(* panel.  The server (external) gives a free id to every connection, and   *)
(* calls the handlers of the resource when it is running.  A connection is  *)
(* told from the others by its reference, which the resource keeps in the   *)
(* state of the player: here the number of the connection.                  *)
(*                                                                         *)
(* The resource may be stopped and started while players are connected.     *)
(* Two of its threads refresh its list: one for ever, and one once, to      *)
(* report the players who were there before it.  A refresh may yield to     *)
(* everything else in the middle (after 50 players, here after any), and it *)
(* may fail: the first thread then goes on, the second one is over.         *)
(***************************************************************************)
EXTENDS Naturals, Sequences, FiniteSets

CONSTANTS
    Ids,            \* server ids
    Nobody,         \* no connection
    MaxConns,       \* bound on the connections
    MaxPipe         \* bound on the reports on their way

ASSUME ReportsAssumption ==
    /\ IsFiniteSet(Ids)
    /\ MaxConns \in Nat
    /\ MaxPipe \in Nat
    /\ Nobody \notin Nat

VARIABLES
    server,         \* "none", "running", or "ended" (not yet noticed)
    idOf,           \* the id of every connection there was
    live,           \* of each id, the connection that has it
    resource,       \* TRUE: the panel's resource is running
    known,          \* TX_PLAYERLIST[id].connectionRef
    found,          \* TX_PLAYERLIST[id].foundLastCheck
    reported,       \* reportedConnectionRefs
    refreshing,     \* the threads in the middle of a refresh
    toVisit,        \* of each of them, the ids that it has yet to visit
    synced,         \* the players who were there before were reported
    failed,         \* their refresh failed: they will not be reported
    pipe            \* reports on their way to the panel

resourceVars == <<known, found, reported, refreshing, toVisit, synced, failed>>
reportVars == <<server, idOf, live, resource, resourceVars, pipe>>

Conns == 1 .. MaxConns
Threads == {"loop", "resync"}

Joining(i, c, resync) == [event |-> "playerJoining", id |-> i, ref |-> c, resync |-> resync]
Dropped(i, ref) == [event |-> "playerDropped", id |-> i, ref |-> ref, resync |-> FALSE]

Reports == [event : {"playerJoining", "playerDropped"}, id : Ids,
            ref : Conns \cup {Nobody}, resync : BOOLEAN]

ReportsTypeOK ==
    /\ server \in {"none", "running", "ended"}
    /\ idOf \in Seq(Ids)
    /\ Len(idOf) <= MaxConns
    /\ live \in [Ids -> Conns \cup {Nobody}]
    /\ resource \in BOOLEAN
    /\ known \in [Ids -> Conns \cup {Nobody}]
    /\ found \in [Ids -> BOOLEAN]
    /\ reported \subseteq Conns
    /\ refreshing \subseteq Threads
    /\ toVisit \in [Threads -> SUBSET Ids]
    /\ synced \in BOOLEAN
    /\ failed \in BOOLEAN
    /\ pipe \in Seq(Reports)

NoneLive == [i \in Ids |-> Nobody]

\* The tables of the resource, before its code has run.
FreshResource(synced_) ==
    /\ known' = NoneLive
    /\ found' = [i \in Ids |-> FALSE]
    /\ reported' = {}
    /\ refreshing' = {}
    /\ toVisit' = [t \in Threads |-> {}]
    /\ synced' = synced_
    /\ failed' = FALSE

ReportsInit ==
    /\ server = "none"
    /\ idOf = <<>>
    /\ live = NoneLive
    /\ resource = FALSE
    /\ known = NoneLive
    /\ found = [i \in Ids |-> FALSE]
    /\ reported = {}
    /\ refreshing = {}
    /\ toVisit = [t \in Threads |-> {}]
    /\ synced = FALSE
    /\ failed = FALSE
    /\ pipe = <<>>

-----------------------------------------------------------------------------
(* The game server (external).                                              *)

ServerStarts ==
    /\ server = "none"
    /\ server' = "running"
    /\ resource' = TRUE
    /\ FreshResource(FALSE)
    /\ UNCHANGED <<idOf, live>>

\* The process is gone, and with it the resource.
ServerGone(next) ==
    /\ server' = next
    /\ live' = NoneLive
    /\ resource' = FALSE
    /\ FreshResource(FALSE)
    /\ UNCHANGED idOf

\* By itself: what it had reported can still be read.
ServerDies ==
    /\ server = "running"
    /\ ServerGone("ended")
    /\ UNCHANGED pipe

ResourceStops ==
    /\ resource
    /\ resource' = FALSE
    /\ FreshResource(FALSE)
    /\ UNCHANGED <<server, idOf, live, pipe>>

\* Mutant: the thread that reports the players there before is not started.
ResourceStartsSynced ==
    /\ server = "running"
    /\ ~resource
    /\ resource' = TRUE
    /\ FreshResource(TRUE)
    /\ UNCHANGED <<server, idOf, live, pipe>>

ResourceStarts ==
    /\ server = "running"
    /\ ~resource
    /\ resource' = TRUE
    /\ UNCHANGED <<server, idOf, live, resourceVars, pipe>>

-----------------------------------------------------------------------------
(* The resource.                                                            *)

\* reportPlayerConnection, for the entries of some ids whose connection is
\* still there (GetPlayerName): the order is that of the table.
Report(ids, refs, resync) ==
    LET due == {i \in ids : refs[i] # Nobody /\ live'[i] # Nobody
                            /\ refs[i] \notin reported}
        n   == Cardinality(due)
    IN  /\ Len(pipe) + n <= MaxPipe
        /\ \E order \in [1 .. n -> due] :
               /\ \A i \in due : \E k \in 1 .. n : order[k] = i
               /\ pipe' = pipe \o [k \in 1 .. n |-> Joining(order[k], refs[order[k]], resync)]
        /\ reported' = reported \cup {refs[i] : i \in due}

\* A player connects, and the handler of playerJoining runs.
Connect(i) ==
    LET c == Len(idOf) + 1 IN
    /\ server = "running"
    /\ live[i] = Nobody
    /\ c <= MaxConns
    /\ idOf' = Append(idOf, i)
    /\ live' = [live EXCEPT ![i] = c]
    /\ IF resource
       THEN /\ known' = [known EXCEPT ![i] = c]
            /\ found' = [found EXCEPT ![i] = TRUE]
            /\ Report({i}, known', FALSE)
       ELSE UNCHANGED <<known, found, reported, pipe>>
    /\ UNCHANGED <<server, resource, refreshing, toVisit, synced, failed>>

\* A player leaves, and the handler of playerDropped runs: the report has the
\* reference of the entry, if there is one.
Disconnect(i) ==
    /\ live[i] # Nobody
    /\ live' = [live EXCEPT ![i] = Nobody]
    /\ IF resource
       THEN /\ Len(pipe) < MaxPipe
            /\ pipe' = Append(pipe, Dropped(i, known[i]))
            /\ reported' = reported \ {known[i]}
            /\ known' = [known EXCEPT ![i] = Nobody]
            /\ found' = [found EXCEPT ![i] = FALSE]
       ELSE UNCHANGED <<known, found, reported, pipe>>
    /\ UNCHANGED <<server, idOf, resource, refreshing, toVisit, synced, failed>>

\* refreshPlayerList visits ids: who is not on the list is put there.  (An
\* entry for somebody who left meanwhile is dropped by the next refresh and
\* never reported: it is left out.)
Visited(ids) ==
    [i \in Ids |-> IF i \in ids /\ known[i] = Nobody THEN live[i] ELSE known[i]]

VisitedFound(ids) ==
    [i \in Ids |-> found[i] \/ (i \in ids /\ Visited(ids)[i] # Nobody)]

\* The start of a refresh (GetPlayers), and the visits before it yields.
RefreshBegins(t) ==
    /\ resource
    /\ t \notin refreshing
    /\ t = "resync" => ~synced /\ ~failed
    /\ LET players == {i \in Ids : live[i] # Nobody} IN
       \E now \in SUBSET players :
           /\ refreshing' = refreshing \cup {t}
           /\ toVisit' = [toVisit EXCEPT ![t] = players \ now]
           /\ known' = Visited(now)
           /\ found' = VisitedFound(now)
    /\ UNCHANGED <<server, idOf, live, resource, reported, synced, failed, pipe>>

\* The other visits, and the removal of the entries that no refresh visited
\* since the last removal.  The thread of the resync then reports.
RefreshEnds(t) ==
    /\ t \in refreshing
    /\ refreshing' = refreshing \ {t}
    /\ toVisit' = [toVisit EXCEPT ![t] = {}]
    /\ known' = [i \in Ids |-> IF VisitedFound(toVisit[t])[i]
                               THEN Visited(toVisit[t])[i] ELSE Nobody]
    /\ found' = [i \in Ids |-> FALSE]
    /\ UNCHANGED <<server, idOf, live, resource, failed>>
    /\ IF t = "resync" THEN synced' = TRUE /\ Report(Ids, known', TRUE)
                       ELSE UNCHANGED <<reported, synced, pipe>>

\* An error (pcall) ends a refresh after some of its visits: nothing is
\* removed, and the thread of the resync returns without a report.
RefreshErrs(t) ==
    /\ t \in refreshing
    /\ refreshing' = refreshing \ {t}
    /\ toVisit' = [toVisit EXCEPT ![t] = {}]
    /\ \E now \in SUBSET toVisit[t] :
           /\ known' = Visited(now)
           /\ found' = VisitedFound(now)
    /\ failed' = (failed \/ t = "resync")
    /\ UNCHANGED <<server, idOf, live, resource, reported, synced, pipe>>

=============================================================================
