-------------------------- MODULE FxPlayerlistProofs --------------------------
(***************************************************************************)
(* Proofs about FxPlayerlist, for any finite set of ids, any number of      *)
(* connections, and queues of any length.                                   *)
(*                                                                         *)
(* MirrorInv: what is on its way and what the panel lists, so that no       *)
(* report takes a connected player away and nobody is counted twice.        *)
(* SettleInv: who is connected is on the list or on the way to it, and who  *)
(* is not leaves it later, so that the mirror is right when all is settled. *)
(* FollowInv: who is replaced on the list has ended before, in the queue.   *)
(* PageInv: the list a page will have when it has read what waits for it,   *)
(* so that it shows who is online.                                          *)
(***************************************************************************)
EXTENDS FxPlayerlist, FiniteSetTheorems, SequenceTheorems, WellFoundedInduction, TLAPS

\* What the lemmas speak of: all but the pages.
mirrorVars == <<reportVars, playerlist, online, log, historyVars>>

-----------------------------------------------------------------------------
(* The invariant.                                                           *)

\* The resource lists nobody but who is connected, by the present connection,
\* and only when it is running.
KnownIsLive ==
    /\ \A i \in Ids : known[i] # Nobody => resource /\ known[i] = live[i]
    /\ refreshing # {} => resource

\* Connections are numbered as they come.
Numbered ==
    \A i \in Ids :
        /\ live[i] # Nobody => live[i] <= Len(idOf) /\ idOf[live[i]] = i
        /\ playerlist[i] # Nobody => playerlist[i] <= Len(idOf)

\* A report is of a connection there was, of that id, and a drop of one that
\* is over.
Genuine(r) ==
    /\ IF r.event = "playerJoining" THEN r.ref # Nobody ELSE ~r.resync
    /\ r.ref # Nobody => r.ref <= Len(idOf) /\ idOf[r.ref] = r.id
    /\ r.event = "playerDropped" /\ r.ref # Nobody => live[r.id] # r.ref

PipeGenuine == \A k \in DOMAIN pipe : Genuine(pipe[k])

\* The joins of an id are reported, and listed, in the order of the
\* connections.
Joins(k) == pipe[k].event = "playerJoining"

InOrder ==
    /\ \A i \in Ids : playerlist[i] # Nobody /\ live[i] # Nobody => playerlist[i] <= live[i]
    /\ \A k \in DOMAIN pipe : Joins(k) =>
           /\ live[pipe[k].id] # Nobody => pipe[k].ref <= live[pipe[k].id]
           /\ playerlist[pipe[k].id] # Nobody => playerlist[pipe[k].id] <= pipe[k].ref
    /\ \A j, k \in DOMAIN pipe :
           j < k /\ Joins(j) /\ Joins(k) /\ pipe[j].id = pipe[k].id => pipe[j].ref <= pipe[k].ref

\* What the statistics count: one join and one drop of a connection.
Counted(r) == ~r.resync /\ r.ref # Nobody
Apart(q, r) == Counted(q) /\ Counted(r) => q.event # r.event \/ q.ref # r.ref

Uncounted(r) ==
    Counted(r) =>
        /\ r.event = "playerJoining" => log[r.ref].joined = 0
        /\ r.event = "playerDropped" => log[r.ref].left = 0

QueuesApart ==
    /\ \A j, k \in DOMAIN pipe : j # k => Apart(pipe[j], pipe[k])
    /\ \A k \in DOMAIN pipe : Uncounted(pipe[k])

LogOfPast ==
    \A c \in Conns :
        /\ log[c].joined <= 1 /\ log[c].left <= 1
        /\ c > Len(idOf) => log[c].joined = 0 /\ log[c].left = 0
        /\ log[c].left # 0 => live[idOf[c]] # c

MirrorInv ==
    /\ MirrorTypeOK
    /\ KnownIsLive
    /\ Numbered
    /\ PipeGenuine
    /\ InOrder
    /\ QueuesApart
    /\ LogOfPast

-----------------------------------------------------------------------------
(* Connections come and go: a new one has a new number.                     *)

Evolves ==
    /\ idOf' \in Seq(Ids) /\ Len(idOf') >= Len(idOf) /\ Len(idOf') <= MaxConns
    /\ \A c \in 1 .. Len(idOf) : idOf'[c] = idOf[c]
    /\ live' \in [Ids -> Conns \cup {Nobody}]
    /\ \A i \in Ids :
           \/ live'[i] \in {live[i], Nobody}
           \/ live'[i] > Len(idOf) /\ live'[i] <= Len(idOf') /\ idOf'[live'[i]] = i

LEMMA Basics ==
    ASSUME MirrorTypeOK
    PROVE  /\ pipe \in Seq(Reports) /\ Len(pipe) \in Nat /\ DOMAIN pipe = 1 .. Len(pipe)
           /\ \A k \in DOMAIN pipe : pipe[k] \in Reports
           /\ idOf \in Seq(Ids) /\ Len(idOf) \in Nat /\ Len(idOf) <= MaxConns
           /\ \A c \in 1 .. Len(idOf) : idOf[c] \in Ids
           /\ live \in [Ids -> Conns \cup {Nobody}]
           /\ MaxConns \in Nat /\ Nobody \notin Nat
<1>1. /\ pipe \in Seq(Reports) /\ idOf \in Seq(Ids)
      /\ live \in [Ids -> Conns \cup {Nobody}] /\ Len(idOf) <= MaxConns
      BY DEF MirrorTypeOK, ReportsTypeOK
<1> QED BY <1>1, ReportsAssumption

LEMMA ReportFields ==
    \A r \in Reports : /\ r.event \in {"playerJoining", "playerDropped"}
                       /\ r.id \in Ids /\ r.ref \in Conns \cup {Nobody}
                       /\ r.resync \in BOOLEAN
BY DEF Reports

LEMMA ConnsAreNumbers == Conns \subseteq Nat /\ \A c \in Conns : c # Nobody /\ c >= 1 /\ c <= MaxConns
BY ReportsAssumption DEF Conns

LEMMA GenuineRef ==
    ASSUME MirrorTypeOK, NEW r \in Reports, Genuine(r), r.ref # Nobody
    PROVE  r.ref \in Conns /\ r.ref \in 1 .. Len(idOf) /\ idOf[r.ref] = r.id
<1>1. r.ref \in Conns BY ReportFields
<1>2. r.ref \in Nat /\ r.ref >= 1 BY <1>1, ConnsAreNumbers
<1>3. r.ref <= Len(idOf) /\ idOf[r.ref] = r.id BY DEF Genuine
<1> QED BY <1>1, <1>2, <1>3, Basics

LEMMA GenuineStays ==
    ASSUME MirrorTypeOK, Evolves, NEW r \in Reports, Genuine(r)
    PROVE  Genuine(r)'
<1>1. r.event \in {"playerJoining", "playerDropped"} /\ r.id \in Ids /\ r.ref \in Conns \cup {Nobody}
      BY ReportFields
<1>2. CASE r.ref = Nobody BY <1>2 DEF Genuine
<1>3. CASE r.ref # Nobody
  <2>1. r.ref \in 1 .. Len(idOf) /\ idOf[r.ref] = r.id
        BY <1>3, GenuineRef
  <2>2. r.ref <= Len(idOf') /\ idOf'[r.ref] = r.id
        BY <2>1, Basics DEF Evolves
  <2>3. live[r.id] # r.ref => live'[r.id] # r.ref
        BY <1>1, <1>3, <2>1, Basics DEF Evolves
  <2> QED BY <2>2, <2>3 DEF Genuine
<1> QED BY <1>2, <1>3

LEMMA LogStays ==
    ASSUME MirrorTypeOK, Evolves, LogOfPast, log' = log
    PROVE  LogOfPast'
<1> SUFFICES ASSUME NEW c \in Conns
             PROVE  /\ log[c].joined <= 1 /\ log[c].left <= 1
                    /\ c > Len(idOf') => log[c].joined = 0 /\ log[c].left = 0
                    /\ log[c].left # 0 => live'[idOf'[c]] # c
    BY DEF LogOfPast
<1>1. /\ log[c].joined <= 1 /\ log[c].left <= 1
      /\ c > Len(idOf) => log[c].joined = 0 /\ log[c].left = 0
      /\ log[c].left # 0 => live[idOf[c]] # c
      BY DEF LogOfPast
<1>2. c \in Nat /\ c >= 1 /\ c # Nobody BY ConnsAreNumbers
<1>3. Len(idOf) \in Nat /\ Len(idOf') \in Nat /\ Len(idOf') >= Len(idOf)
      BY Basics DEF Evolves
<1>4. c > Len(idOf') => c > Len(idOf) BY <1>2, <1>3
<1>5. ASSUME log[c].left # 0 PROVE live'[idOf'[c]] # c
  <2>1. c \in 1 .. Len(idOf) BY <1>1, <1>2, <1>3, <1>5
  <2>2. idOf'[c] = idOf[c] /\ idOf[c] \in Ids BY <2>1, Basics DEF Evolves
  <2> QED BY <1>1, <1>2, <1>5, <2>1, <2>2, Basics DEF Evolves
<1> QED BY <1>1, <1>4, <1>5

LEMMA SameQueuesApart ==
    ASSUME QueuesApart, UNCHANGED <<pipe, log>>
    PROVE  QueuesApart'
BY DEF QueuesApart, Apart, Uncounted, Counted

LEMMA NumberedStays ==
    ASSUME MirrorTypeOK, Evolves, Numbered,
           \A i \in Ids : playerlist'[i] \in {playerlist[i], Nobody}
    PROVE  Numbered'
<1> SUFFICES ASSUME NEW i \in Ids
             PROVE  /\ live'[i] # Nobody => live'[i] <= Len(idOf') /\ idOf'[live'[i]] = i
                    /\ playerlist'[i] # Nobody => playerlist'[i] <= Len(idOf')
    BY DEF Numbered
<1>1. Len(idOf) \in Nat /\ Len(idOf') \in Nat /\ Len(idOf') >= Len(idOf)
      BY Basics DEF Evolves
<1>2. playerlist'[i] # Nobody => playerlist'[i] <= Len(idOf')
  <2>1. playerlist \in [Ids -> Conns \cup {Nobody}] BY DEF MirrorTypeOK
  <2>2. playerlist[i] # Nobody => playerlist[i] \in Nat /\ playerlist[i] <= Len(idOf)
        BY <2>1, ConnsAreNumbers DEF Numbered
  <2> QED BY <1>1, <2>2
<1>3. CASE live'[i] = live[i]
  <2>1. ASSUME live[i] # Nobody PROVE live[i] \in 1 .. Len(idOf) /\ idOf[live[i]] = i
    <3>1. live[i] \in Conns BY <2>1, Basics
    <3>2. live[i] \in Nat /\ live[i] >= 1 BY <3>1, ConnsAreNumbers
    <3> QED BY <1>1, <2>1, <3>2 DEF Numbered
  <2> QED BY <1>1, <1>2, <1>3, <2>1 DEF Evolves
<1>4. CASE live'[i] = Nobody BY <1>2, <1>4
<1>5. CASE live'[i] > Len(idOf) /\ live'[i] <= Len(idOf') /\ idOf'[live'[i]] = i
      BY <1>2, <1>5
<1> QED BY <1>3, <1>4, <1>5 DEF Evolves

\* More reports, or none.
Extends ==
    /\ pipe' \in Seq(Reports) /\ Len(pipe') >= Len(pipe)
    /\ \A k \in 1 .. Len(pipe) : pipe'[k] = pipe[k]

New == Len(pipe) + 1 .. Len(pipe')

\* What a new report is: that of a join is of the connection there is, and one
\* that counts is the only new one, and the first of its kind.
NewReports ==
    /\ \A k \in New : Genuine(pipe[k])'
    /\ \A k \in New : pipe'[k].event = "playerJoining" => pipe'[k].ref = live'[pipe'[k].id]
    /\ \A k \in New : Counted(pipe'[k]) =>
           /\ Len(pipe') = Len(pipe) + 1
           /\ Uncounted(pipe'[k])
           /\ \A r \in Reports : Genuine(r) => Apart(r, pipe'[k])

LEMMA OrderStays ==
    ASSUME MirrorInv, Evolves, Extends, NewReports, UNCHANGED <<playerlist>>
    PROVE  InOrder'
<1>0. MirrorTypeOK BY DEF MirrorInv
<1>1. /\ Len(pipe) \in Nat /\ Len(pipe') \in Nat /\ Len(pipe') >= Len(pipe)
      /\ DOMAIN pipe = 1 .. Len(pipe) /\ DOMAIN pipe' = 1 .. Len(pipe')
      /\ \A k \in 1 .. Len(pipe) : pipe'[k] = pipe[k]
      /\ \A k \in DOMAIN pipe' : pipe'[k] \in Reports
      BY <1>0, Basics DEF Extends
<1>2. \A k \in DOMAIN pipe' : k \in DOMAIN pipe \/ k \in New
      BY <1>1 DEF New
<1>3. \A i \in Ids : playerlist[i] # Nobody => playerlist[i] \in Nat /\ playerlist[i] <= Len(idOf)
  <2>1. playerlist \in [Ids -> Conns \cup {Nobody}] BY <1>0 DEF MirrorTypeOK
  <2> QED BY <2>1, ConnsAreNumbers DEF MirrorInv, Numbered
<1>4. \A i \in Ids : live'[i] # Nobody =>
          live'[i] \in Nat /\ (live'[i] = live[i] \/ live'[i] > Len(idOf))
  <2>1. live' \in [Ids -> Conns \cup {Nobody}] BY DEF Evolves
  <2> QED BY <2>1, ConnsAreNumbers DEF Evolves
<1>5. Len(idOf) \in Nat BY <1>0, Basics
<1>6. \A i \in Ids : playerlist[i] # Nobody /\ live'[i] # Nobody => playerlist[i] <= live'[i]
  <2> SUFFICES ASSUME NEW i \in Ids, playerlist[i] # Nobody, live'[i] # Nobody
               PROVE  playerlist[i] <= live'[i]
      OBVIOUS
  <2>1. CASE live'[i] = live[i] BY <2>1 DEF MirrorInv, InOrder
  <2>2. CASE live'[i] > Len(idOf) BY <1>3, <1>4, <1>5, <2>2
  <2> QED BY <1>4, <2>1, <2>2
\* An old report of a join.
<1>7. ASSUME NEW k \in DOMAIN pipe, Joins(k)
      PROVE  /\ pipe[k].ref \in Nat
             /\ live'[pipe[k].id] # Nobody => pipe[k].ref <= live'[pipe[k].id]
             /\ playerlist[pipe[k].id] # Nobody => playerlist[pipe[k].id] <= pipe[k].ref
  <2>1. pipe[k] \in Reports /\ pipe[k].id \in Ids BY <1>0, Basics, ReportFields
  <2>2. Genuine(pipe[k]) /\ pipe[k].ref # Nobody
        BY <1>7 DEF MirrorInv, PipeGenuine, Genuine, Joins
  <2>3. pipe[k].ref \in 1 .. Len(idOf) BY <1>0, <2>1, <2>2, GenuineRef
  <2>4. ASSUME live'[pipe[k].id] # Nobody PROVE pipe[k].ref <= live'[pipe[k].id]
    <3>1. CASE live'[pipe[k].id] = live[pipe[k].id]
          BY <1>7, <2>4, <3>1 DEF MirrorInv, InOrder
    <3>2. CASE live'[pipe[k].id] > Len(idOf)
          BY <1>4, <1>5, <2>1, <2>3, <2>4, <3>2
    <3> QED BY <1>4, <2>1, <2>4, <3>1, <3>2
  <2>5. playerlist[pipe[k].id] # Nobody => playerlist[pipe[k].id] <= pipe[k].ref
        BY <1>7 DEF MirrorInv, InOrder
  <2> QED BY <2>3, <2>4, <2>5
\* A new one.
<1>8. ASSUME NEW k \in New, Joins(k)'
      PROVE  /\ pipe'[k].ref = live'[pipe'[k].id] /\ live'[pipe'[k].id] # Nobody
             /\ pipe'[k].id \in Ids
  <2>1. k \in DOMAIN pipe' /\ pipe'[k] \in Reports BY <1>1 DEF New
  <2>2. pipe'[k].ref = live'[pipe'[k].id] BY <1>8 DEF NewReports, Joins
  <2>3. pipe'[k].ref # Nobody BY <1>8 DEF NewReports, Joins, Genuine
  <2> QED BY <2>1, <2>2, <2>3, ReportFields
<1>9. ASSUME NEW k \in DOMAIN pipe', Joins(k)'
      PROVE  /\ live'[pipe'[k].id] # Nobody => pipe'[k].ref <= live'[pipe'[k].id]
             /\ playerlist[pipe'[k].id] # Nobody => playerlist[pipe'[k].id] <= pipe'[k].ref
  <2>1. CASE k \in DOMAIN pipe
        BY <1>1, <1>7, <1>9, <2>1 DEF Joins
  <2>2. CASE k \in New
    <3>1. pipe'[k].ref = live'[pipe'[k].id] /\ live'[pipe'[k].id] # Nobody /\ pipe'[k].id \in Ids
          BY <1>8, <1>9, <2>2
    <3> QED BY <1>4, <1>6, <3>1
  <2> QED BY <1>2, <2>1, <2>2
<1>10. ASSUME NEW j \in DOMAIN pipe', NEW k \in DOMAIN pipe', j < k, Joins(j)', Joins(k)',
              pipe'[j].id = pipe'[k].id
       PROVE  pipe'[j].ref <= pipe'[k].ref
  <2>1. CASE k \in DOMAIN pipe
    <3>1. j \in DOMAIN pipe BY <1>1, <1>10, <2>1
    <3>2. Joins(j) /\ Joins(k) /\ pipe[j].id = pipe[k].id
          BY <1>1, <1>10, <2>1, <3>1 DEF Joins
    <3>3. pipe[j].ref <= pipe[k].ref BY <1>10, <2>1, <3>1, <3>2 DEF MirrorInv, InOrder
    <3> QED BY <1>1, <2>1, <3>1, <3>3
  <2>2. CASE k \in New
    <3>1. pipe'[k].ref = live'[pipe'[k].id] /\ live'[pipe'[k].id] # Nobody
          BY <1>8, <1>10, <2>2
    <3> QED BY <1>9, <1>10, <3>1
  <2> QED BY <1>2, <2>1, <2>2
<1> QED BY <1>6, <1>9, <1>10 DEF InOrder

LEMMA ApartStays ==
    ASSUME MirrorInv, Evolves, Extends, NewReports, UNCHANGED <<log>>
    PROVE  QueuesApart'
<1>0. MirrorTypeOK BY DEF MirrorInv
<1>1. /\ Len(pipe) \in Nat /\ Len(pipe') \in Nat /\ Len(pipe') >= Len(pipe)
      /\ DOMAIN pipe = 1 .. Len(pipe) /\ DOMAIN pipe' = 1 .. Len(pipe')
      /\ \A k \in 1 .. Len(pipe) : pipe'[k] = pipe[k]
      /\ \A k \in DOMAIN pipe : pipe[k] \in Reports
      BY <1>0, Basics DEF Extends
<1>2. \A k \in DOMAIN pipe' : k \in DOMAIN pipe \/ k \in New
      BY <1>1 DEF New
<1>3. ASSUME NEW j \in DOMAIN pipe', NEW k \in DOMAIN pipe', j # k
      PROVE  Apart(pipe'[j], pipe'[k])
  <2>1. CASE j \in DOMAIN pipe /\ k \in DOMAIN pipe
        BY <1>1, <1>3, <2>1 DEF MirrorInv, QueuesApart
  <2>2. CASE j \in DOMAIN pipe /\ k \in New
    <3>1. Genuine(pipe[j]) /\ pipe[j] \in Reports BY <1>1, <2>2 DEF MirrorInv, PipeGenuine
    <3> QED BY <1>1, <2>2, <3>1 DEF NewReports, Apart
  <2>3. CASE j \in New /\ k \in DOMAIN pipe
    <3>1. Genuine(pipe[k]) /\ pipe[k] \in Reports BY <1>1, <2>3 DEF MirrorInv, PipeGenuine
    <3> QED BY <1>1, <2>3, <3>1 DEF NewReports, Apart
  <2>4. CASE j \in New /\ k \in New
    <3>0. j \in Int /\ k \in Int /\ j # k /\ j >= Len(pipe) + 1 /\ k >= Len(pipe) + 1
          /\ j <= Len(pipe') /\ k <= Len(pipe')
          BY <1>1, <1>3, <2>4 DEF New
    <3>1. Len(pipe) \in Nat /\ Len(pipe') \in Nat BY <1>1
    <3>2. Len(pipe') # Len(pipe) + 1 BY <3>0, <3>1
    <3> QED BY <2>4, <3>2 DEF NewReports, Apart
  <2> QED BY <1>2, <2>1, <2>2, <2>3, <2>4
<1>5. ASSUME NEW k \in DOMAIN pipe' PROVE Uncounted(pipe'[k])
  <2>1. CASE k \in DOMAIN pipe BY <1>1, <2>1 DEF MirrorInv, QueuesApart
  <2>2. CASE k \in New BY <2>2 DEF NewReports, Uncounted
  <2> QED BY <1>2, <2>1, <2>2
<1> QED BY <1>3, <1>5 DEF QueuesApart, Uncounted, Apart, Counted

\* Every step but those of the panel keeps what the invariant says of the
\* queues when the reports that it adds are as they should be.
LEMMA PipeExtends ==
    ASSUME MirrorInv, Evolves, Extends, NewReports, UNCHANGED <<playerlist, log>>
    PROVE  Numbered' /\ PipeGenuine' /\ InOrder' /\ QueuesApart' /\ LogOfPast'
<1>0. MirrorTypeOK BY DEF MirrorInv
<1>1. PipeGenuine'
  <2> SUFFICES ASSUME NEW k \in DOMAIN pipe' PROVE Genuine(pipe[k])'
      BY DEF PipeGenuine
  <2>1. /\ Len(pipe) \in Nat /\ Len(pipe') \in Nat /\ Len(pipe') >= Len(pipe)
        /\ DOMAIN pipe = 1 .. Len(pipe) /\ DOMAIN pipe' = 1 .. Len(pipe')
        BY <1>0, Basics DEF Extends
  <2>2. CASE k \in DOMAIN pipe
    <3>1. pipe'[k] = pipe[k] /\ pipe[k] \in Reports /\ Genuine(pipe[k])
          BY <1>0, <2>1, <2>2, Basics DEF Extends, MirrorInv, PipeGenuine
    <3>2. \A r \in Reports : Genuine(r) => Genuine(r)' BY <1>0, GenuineStays
    <3> QED BY <3>1, <3>2 DEF Genuine
  <2>3. CASE k \in New BY <2>3 DEF NewReports
  <2> QED BY <2>1, <2>2, <2>3 DEF New
<1> QED BY <1>0, <1>1, NumberedStays, OrderStays, ApartStays, LogStays DEF MirrorInv

-----------------------------------------------------------------------------
(* The steps of the server and the resource.                                *)

LEMMA ReportAdds ==
    ASSUME MirrorTypeOK, NEW ids \in SUBSET Ids, NEW refs \in [Ids -> Conns \cup {Nobody}],
           NEW resync \in BOOLEAN, Report(ids, refs, resync)
    PROVE  /\ Extends
           /\ \A k \in New : \E i \in ids :
                  refs[i] # Nobody /\ live'[i] # Nobody /\ pipe'[k] = Joining(i, refs[i], resync)
           /\ \A i \in ids : ids = {i} => Len(pipe') <= Len(pipe) + 1
           /\ reported' \subseteq Conns
<1> DEFINE due == {i \in ids : refs[i] # Nobody /\ live'[i] # Nobody /\ refs[i] \notin reported}
           n == Cardinality(due)
<1>1. PICK order \in [1 .. n -> due] :
          pipe' = pipe \o [k \in 1 .. n |-> Joining(order[k], refs[order[k]], resync)]
      BY DEF Report
<1>2. IsFiniteSet(due)
      BY ReportsAssumption, FS_Subset
<1>3. n \in Nat BY <1>2, FS_CardinalityType
<1>4. \A i \in ids : ids = {i} => n <= 1
  <2> SUFFICES ASSUME NEW i \in ids, ids = {i} PROVE n <= 1
      OBVIOUS
  <2>1. due = {} \/ due = {i} OBVIOUS
  <2>2. Cardinality({}) = 0 /\ Cardinality({i}) = 1 BY FS_EmptySet, FS_Singleton
  <2> HIDE DEF due
  <2>3. n = 0 \/ n = 1 BY <2>1, <2>2
  <2> QED BY <2>3
<1>5. reported' = reported \cup {refs[i] : i \in due}
      BY DEF Report
<1>6. \A i \in due : i \in ids /\ i \in Ids /\ refs[i] \in Conns /\ refs[i] # Nobody /\ live'[i] # Nobody
      OBVIOUS
<1>7. reported' \subseteq Conns
      BY <1>5, <1>6 DEF MirrorTypeOK, ReportsTypeOK
<1> HIDE DEF n, due
<1> DEFINE more == [k \in 1 .. n |-> Joining(order[k], refs[order[k]], resync)]
<1>8. \A k \in 1 .. n : order[k] \in due /\ more[k] = Joining(order[k], refs[order[k]], resync)
      BY <1>1
<1>9. \A k \in 1 .. n : more[k] \in Reports
      BY <1>6, <1>8 DEF Joining, Reports
<1>10. more \in Seq(Reports) /\ Len(more) = n
  <2>1. more \in [1 .. n -> Reports] BY <1>9
  <2> HIDE DEF more
  <2>2. more \in Seq(Reports) BY <1>3, <2>1, SeqDef
  <2> QED BY <1>3, <2>1, <2>2
<1>11. pipe' = pipe \o more BY <1>1
<1> HIDE DEF more
<1>12. pipe \in Seq(Reports) /\ Len(pipe) \in Nat BY Basics
<1>13. /\ pipe' \in Seq(Reports) /\ Len(pipe') = Len(pipe) + n
       /\ \A k \in 1 .. Len(pipe) + n :
              pipe'[k] = IF k <= Len(pipe) THEN pipe[k] ELSE more[k - Len(pipe)]
      BY <1>10, <1>11, <1>12, ConcatProperties
<1>14. /\ \A k \in 1 .. Len(pipe) : pipe'[k] = pipe[k]
       /\ \A k \in Len(pipe) + 1 .. Len(pipe) + n :
              k - Len(pipe) \in 1 .. n /\ pipe'[k] = more[k - Len(pipe)]
      BY <1>3, <1>12, <1>13
<1>15. Extends BY <1>3, <1>12, <1>13, <1>14 DEF Extends
<1>16. \A k \in New : \E i \in ids :
           refs[i] # Nobody /\ live'[i] # Nobody /\ pipe'[k] = Joining(i, refs[i], resync)
      BY <1>6, <1>8, <1>13, <1>14 DEF New
<1>17. \A i \in ids : ids = {i} => Len(pipe') <= Len(pipe) + 1
      BY <1>3, <1>4, <1>12, <1>13
<1> QED BY <1>7, <1>15, <1>16, <1>17

LEMMA NothingAdded ==
    ASSUME MirrorTypeOK, pipe' = pipe
    PROVE  Extends /\ NewReports
<1>1. pipe \in Seq(Reports) /\ Len(pipe) \in Nat BY Basics
<1>2. New = {} BY <1>1 DEF New
<1> QED BY <1>1, <1>2 DEF Extends, NewReports

\* What the resource keeps of its own.
ResourceTypeOK ==
    /\ known \in [Ids -> Conns \cup {Nobody}]
    /\ found \in [Ids -> BOOLEAN]
    /\ reported \subseteq Conns
    /\ refreshing \subseteq Threads
    /\ toVisit \in [Threads -> SUBSET Ids]
    /\ synced \in BOOLEAN
    /\ failed \in BOOLEAN

LEMMA NoneLiveType == NoneLive \in [Ids -> Conns \cup {Nobody}]
BY DEF NoneLive

LEMMA FreshType ==
    ASSUME NEW b \in BOOLEAN, FreshResource(b)
    PROVE  ResourceTypeOK' /\ (\A i \in Ids : known'[i] = Nobody) /\ refreshing' = {}
BY NoneLiveType DEF FreshResource, ResourceTypeOK, NoneLive

\* A step of the resource and of the players leaves the panel alone.
Beside == UNCHANGED <<playerlist, online, log>>

LEMMA ServerStepKeeps ==
    ASSUME MirrorInv, Evolves, Extends, NewReports, Beside,
           ResourceTypeOK', KnownIsLive', server' \in {"none", "running", "ended"},
           resource' \in BOOLEAN, missed' \subseteq Conns, clashed' \in BOOLEAN
    PROVE  MirrorInv'
<1>1. Numbered' /\ PipeGenuine' /\ InOrder' /\ QueuesApart' /\ LogOfPast'
      BY PipeExtends DEF Beside
<1>2. MirrorTypeOK /\ UNCHANGED <<playerlist, online, log>>
      BY DEF MirrorInv, Beside
<1>3. ReportsTypeOK'
      BY DEF ReportsTypeOK, ResourceTypeOK, Evolves, Extends
<1>4. MirrorTypeOK' BY <1>2, <1>3 DEF MirrorTypeOK
<1> QED BY <1>1, <1>4 DEF MirrorInv

LEMMA NobodyNew ==
    ASSUME MirrorTypeOK, idOf' = idOf, live' = live \/ live' = NoneLive
    PROVE  Evolves
<1>1. idOf \in Seq(Ids) /\ Len(idOf) \in Nat /\ Len(idOf) <= MaxConns
      /\ live \in [Ids -> Conns \cup {Nobody}]
      BY Basics
<1> QED BY <1>1, NoneLiveType DEF Evolves, NoneLive

LEMMA ConnectKeeps ==
    ASSUME MirrorInv, NEW i \in Ids, Connect(i), Beside, missed' = missed, clashed' \in BOOLEAN
    PROVE  MirrorInv'
<1> DEFINE c == Len(idOf) + 1
<1>0. MirrorTypeOK /\ KnownIsLive /\ ResourceTypeOK
      BY DEF MirrorInv, MirrorTypeOK, ReportsTypeOK, ResourceTypeOK
<1>1. /\ server = "running" /\ live[i] = Nobody /\ c <= MaxConns
      /\ idOf' = Append(idOf, i)
      /\ live' = [live EXCEPT ![i] = c]
      /\ IF resource
         THEN /\ known' = [known EXCEPT ![i] = c]
              /\ found' = [found EXCEPT ![i] = TRUE]
              /\ Report({i}, known', FALSE)
         ELSE UNCHANGED <<known, found, reported, pipe>>
      /\ UNCHANGED <<server, resource, refreshing, toVisit, synced, failed>>
      BY DEF Connect
<1>2. /\ idOf \in Seq(Ids) /\ Len(idOf) \in Nat /\ live \in [Ids -> Conns \cup {Nobody}]
      /\ MaxConns \in Nat
      BY <1>0, Basics
<1>3. c \in Conns /\ c # Nobody /\ c \in Nat /\ c > Len(idOf)
      BY <1>1, <1>2, ReportsAssumption DEF Conns
<1>4. /\ live'[i] = c /\ \A j \in Ids \ {i} : live'[j] = live[j]
      /\ live' \in [Ids -> Conns \cup {Nobody}]
      BY <1>1, <1>2, <1>3
<1>5. /\ idOf' \in Seq(Ids) /\ Len(idOf') = c /\ idOf'[c] = i
      /\ \A k \in 1 .. Len(idOf) : idOf'[k] = idOf[k]
      BY <1>1, <1>2
<1>6. Evolves
  <2>1. \A j \in Ids : \/ live'[j] \in {live[j], Nobody}
                       \/ live'[j] > Len(idOf) /\ live'[j] <= Len(idOf') /\ idOf'[live'[j]] = j
        BY <1>3, <1>4, <1>5
  <2> QED BY <1>1, <1>2, <1>3, <1>4, <1>5, <2>1 DEF Evolves
<1> HIDE DEF c
<1>7. CASE resource
  <2>1. /\ known' = [known EXCEPT ![i] = c] /\ found' = [found EXCEPT ![i] = TRUE]
        /\ Report({i}, known', FALSE)
        BY <1>1, <1>7
  <2>2. known' \in [Ids -> Conns \cup {Nobody}] /\ found' \in [Ids -> BOOLEAN]
        BY <1>0, <1>3, <2>1 DEF ResourceTypeOK
  <2>3. known'[i] = c /\ \A j \in Ids \ {i} : known'[j] = known[j]
        BY <1>0, <2>1 DEF ResourceTypeOK
  <2>4. /\ Extends /\ reported' \subseteq Conns
        /\ \A k \in New : \E j \in {i} :
               known'[j] # Nobody /\ live'[j] # Nobody /\ pipe'[k] = Joining(j, known'[j], FALSE)
        /\ Len(pipe') <= Len(pipe) + 1
    <3>1. {i} \in SUBSET Ids /\ FALSE \in BOOLEAN OBVIOUS
    <3> DEFINE refs == known'
    <3>2. refs \in [Ids -> Conns \cup {Nobody}] /\ Report({i}, refs, FALSE) BY <2>1, <2>2
    <3> HIDE DEF refs
    <3>3. /\ Extends /\ reported' \subseteq Conns
          /\ \A k \in New : \E j \in {i} :
                 refs[j] # Nobody /\ live'[j] # Nobody /\ pipe'[k] = Joining(j, refs[j], FALSE)
          /\ \A j \in {i} : {i} = {j} => Len(pipe') <= Len(pipe) + 1
          BY <1>0, <3>1, <3>2, ReportAdds
    <3> QED BY <3>3 DEF refs
  <2>5. \A k \in New : pipe'[k] = Joining(i, c, FALSE)
        BY <2>3, <2>4
  <2>6. \A k \in New : /\ pipe'[k].event = "playerJoining" /\ pipe'[k].id = i
                       /\ pipe'[k].ref = c /\ pipe'[k].resync = FALSE
        BY <2>5 DEF Joining
  <2>7. ASSUME NEW k \in New PROVE Len(pipe') = Len(pipe) + 1
    <3>1. pipe \in Seq(Reports) /\ Len(pipe) \in Nat BY <1>0, Basics
    <3>2. Len(pipe') \in Nat BY <2>4 DEF Extends
    <3> QED BY <2>4, <3>1, <3>2 DEF New
  <2>8. ASSUME NEW r \in Reports, Genuine(r) PROVE r.ref # c
    <3>1. CASE r.ref = Nobody BY <1>3, <3>1
    <3>2. CASE r.ref # Nobody
      <4>1. r.ref \in 1 .. Len(idOf) BY <1>0, <2>8, <3>2, GenuineRef
      <4> QED BY <1>2, <1>3, <4>1
    <3> QED BY <3>1, <3>2
  <2>9. log[c].joined = 0 BY <1>3 DEF MirrorInv, LogOfPast
  <2>10. NewReports
    <3>1. \A k \in New : Genuine(pipe[k])'
          BY <1>3, <1>5, <2>6 DEF Genuine
    <3>2. \A k \in New : pipe'[k].ref = live'[pipe'[k].id]
          BY <1>4, <2>6
    <3>3. \A k \in New : Uncounted(pipe'[k])
          BY <2>6, <2>9 DEF Uncounted
    <3>4. \A k \in New : \A r \in Reports : Genuine(r) => Apart(r, pipe'[k])
          BY <2>6, <2>8 DEF Apart
    <3> QED BY <2>7, <3>1, <3>2, <3>3, <3>4 DEF NewReports
  <2>11. KnownIsLive'
        BY <1>0, <1>1, <1>4, <1>7, <2>3 DEF KnownIsLive
  <2>12. ResourceTypeOK'
        BY <1>0, <1>1, <2>2, <2>4 DEF ResourceTypeOK
  <2> QED BY <1>0, <1>1, <1>6, <1>7, <2>4, <2>10, <2>11, <2>12, ServerStepKeeps
          DEF MirrorTypeOK, ReportsTypeOK
<1>8. CASE ~resource
  <2>1. UNCHANGED <<known, found, reported, pipe>> BY <1>1, <1>8
  <2>2. Extends /\ NewReports BY <1>0, <2>1, NothingAdded
  <2>3. ResourceTypeOK' BY <1>0, <1>1, <2>1 DEF ResourceTypeOK
  <2>4. KnownIsLive' BY <1>0, <1>1, <1>8, <2>1 DEF KnownIsLive
  <2> QED BY <1>0, <1>1, <1>6, <2>2, <2>3, <2>4, ServerStepKeeps
          DEF MirrorTypeOK, ReportsTypeOK
<1> QED BY <1>0, <1>7, <1>8 DEF MirrorTypeOK, ReportsTypeOK

LEMMA LeaveKeeps ==
    ASSUME MirrorInv, NEW i \in Ids, PlayerLeaves(i)
    PROVE  MirrorInv'
<1>0. /\ MirrorTypeOK /\ KnownIsLive /\ ResourceTypeOK /\ live[i] # Nobody
      /\ server \in {"none", "running", "ended"} /\ resource \in BOOLEAN
      /\ missed \subseteq Conns /\ clashed \in BOOLEAN
      BY DEF MirrorInv, MirrorTypeOK, ReportsTypeOK, ResourceTypeOK, PlayerLeaves, Disconnect
<1>1. /\ live' = [live EXCEPT ![i] = Nobody]
      /\ IF resource
         THEN /\ pipe' = Append(pipe, Dropped(i, known[i]))
              /\ reported' = reported \ {known[i]}
              /\ known' = [known EXCEPT ![i] = Nobody]
              /\ found' = [found EXCEPT ![i] = FALSE]
         ELSE UNCHANGED <<known, found, reported, pipe>>
      /\ UNCHANGED <<server, idOf, resource, refreshing, toVisit, synced, failed>>
      BY DEF PlayerLeaves, Disconnect
<1>2. /\ missed' \in {missed, missed \cup {live[i]}} /\ clashed' = clashed
      /\ Beside
      BY DEF PlayerLeaves, panelVars, Beside
<1>3. /\ live \in [Ids -> Conns \cup {Nobody}]
      /\ pipe \in Seq(Reports) /\ Len(pipe) \in Nat
      /\ idOf \in Seq(Ids) /\ Len(idOf) \in Nat /\ Len(idOf) <= MaxConns
      BY <1>0, Basics
<1>4. live[i] \in Conns /\ missed' \subseteq Conns BY <1>0, <1>2, <1>3
<1>5. /\ live'[i] = Nobody /\ \A j \in Ids \ {i} : live'[j] = live[j]
      /\ live' \in [Ids -> Conns \cup {Nobody}]
      BY <1>1, <1>3
<1>6. Evolves BY <1>1, <1>3, <1>5 DEF Evolves
<1>7. CASE resource
  <2>1. /\ pipe' = Append(pipe, Dropped(i, known[i])) /\ reported' = reported \ {known[i]}
        /\ known' = [known EXCEPT ![i] = Nobody] /\ found' = [found EXCEPT ![i] = FALSE]
        BY <1>1, <1>7
  <2>2. known[i] \in {live[i], Nobody} /\ known[i] \in Conns \cup {Nobody}
        BY <1>0 DEF KnownIsLive, ResourceTypeOK
  <2> DEFINE d == Dropped(i, known[i])
  <2>3. /\ d \in Reports /\ d.event = "playerDropped" /\ d.id = i /\ d.ref = known[i]
        /\ d.resync = FALSE
        BY <2>2 DEF Dropped, Reports
  <2> HIDE DEF d
  <2>4. /\ pipe' \in Seq(Reports) /\ Len(pipe') = Len(pipe) + 1
        /\ \A k \in 1 .. Len(pipe) : pipe'[k] = pipe[k]
        /\ pipe'[Len(pipe) + 1] = d
    <3>1. pipe' = Append(pipe, d) BY <2>1 DEF d
    <3> QED BY <1>3, <2>3, <3>1, AppendProperties
  <2>5. Extends BY <1>3, <2>4 DEF Extends
  <2>6. \A k \in New : pipe'[k] = d BY <1>3, <2>4 DEF New
  <2>7. known[i] # Nobody => live[i] <= Len(idOf) /\ idOf[live[i]] = i
        BY <1>0, <2>2 DEF MirrorInv, Numbered
  <2>8. \A k \in New : Genuine(pipe[k])'
    <3>1. known[i] # Nobody => known[i] <= Len(idOf') /\ idOf'[known[i]] = i /\ live'[i] # known[i]
          BY <1>1, <1>5, <2>2, <2>7
    <3> QED BY <2>3, <2>6, <3>1 DEF Genuine
  <2>9. Uncounted(d)
    <3>1. ASSUME known[i] # Nobody PROVE log[known[i]].left = 0
      <4>1. known[i] = live[i] /\ live[i] \in Conns /\ live[idOf[live[i]]] = live[i]
            BY <1>4, <2>2, <2>7, <3>1
      <4> QED BY <4>1 DEF MirrorInv, LogOfPast
    <3> QED BY <2>3, <3>1 DEF Uncounted, Counted
  <2>10. ASSUME NEW r \in Reports, Genuine(r), d.ref # Nobody, r.event = d.event
         PROVE  r.ref # d.ref
    <3> SUFFICES ASSUME r.ref = d.ref PROVE FALSE
        OBVIOUS
    <3>1. r.ref = live[i] /\ r.ref # Nobody BY <2>2, <2>3, <2>10
    <3>2. idOf[r.ref] = r.id BY <2>10, <3>1 DEF Genuine
    <3>3. r.id = i BY <2>3, <2>7, <2>10, <3>1, <3>2
    <3> QED BY <2>3, <2>10, <3>1, <3>3 DEF Genuine
  <2>11. \A r \in Reports : Genuine(r) => Apart(r, d)
         BY <2>10 DEF Apart, Counted
  <2>12. NewReports
         BY <2>3, <2>4, <2>6, <2>8, <2>9, <2>11 DEF NewReports
  <2>13. /\ known'[i] = Nobody /\ \A j \in Ids \ {i} : known'[j] = known[j]
         /\ ResourceTypeOK'
         BY <1>0, <1>1, <2>1 DEF ResourceTypeOK
  <2>14. KnownIsLive' BY <1>0, <1>1, <1>5, <2>13 DEF KnownIsLive
  <2> QED BY <1>0, <1>1, <1>2, <1>4, <1>6, <2>5, <2>12, <2>13, <2>14, ServerStepKeeps
<1>8. CASE ~resource
  <2>1. UNCHANGED <<known, found, reported, pipe>> BY <1>1, <1>8
  <2>2. Extends /\ NewReports BY <1>0, <2>1, NothingAdded
  <2>3. ResourceTypeOK' BY <1>0, <1>1, <2>1 DEF ResourceTypeOK
  <2>4. KnownIsLive' BY <1>0, <1>1, <1>8, <2>1 DEF KnownIsLive
  <2> QED BY <1>0, <1>1, <1>2, <1>4, <1>6, <2>2, <2>3, <2>4, ServerStepKeeps
<1> QED BY <1>0, <1>7, <1>8

\* A visit lists who is connected.
LEMMA VisitTypes ==
    ASSUME MirrorTypeOK, KnownIsLive, resource, NEW ids \in SUBSET Ids
    PROVE  /\ Visited(ids) \in [Ids -> Conns \cup {Nobody}]
           /\ VisitedFound(ids) \in [Ids -> BOOLEAN]
           /\ \A i \in Ids : Visited(ids)[i] # Nobody => Visited(ids)[i] = live[i]
<1>1. /\ known \in [Ids -> Conns \cup {Nobody}] /\ live \in [Ids -> Conns \cup {Nobody}]
      /\ found \in [Ids -> BOOLEAN]
      BY DEF MirrorTypeOK, ReportsTypeOK
<1>2. \A i \in Ids : Visited(ids)[i] = IF i \in ids /\ known[i] = Nobody THEN live[i] ELSE known[i]
      BY DEF Visited
<1>3. Visited(ids) \in [Ids -> Conns \cup {Nobody}]
      BY <1>1 DEF Visited
<1>4. VisitedFound(ids) \in [Ids -> BOOLEAN]
  <2>1. \A i \in Ids : (found[i] \/ (i \in ids /\ Visited(ids)[i] # Nobody)) \in BOOLEAN
        OBVIOUS
  <2> QED BY <2>1 DEF VisitedFound
<1> QED BY <1>2, <1>3, <1>4 DEF KnownIsLive

LEMMA RefreshBeginsKeeps ==
    ASSUME MirrorInv, NEW t \in Threads, RefreshStarts(t)
    PROVE  MirrorInv'
<1>0. /\ MirrorTypeOK /\ KnownIsLive /\ ResourceTypeOK
      /\ server \in {"none", "running", "ended"} /\ resource \in BOOLEAN
      /\ missed \subseteq Conns /\ clashed \in BOOLEAN
      BY DEF MirrorInv, MirrorTypeOK, ReportsTypeOK, ResourceTypeOK
<1> DEFINE players == {i \in Ids : live[i] # Nobody}
<1>1. /\ resource
      /\ UNCHANGED <<server, idOf, live, resource, reported, synced, failed, pipe>>
      BY DEF RefreshStarts, RefreshBegins
<1>2. PICK now \in SUBSET players :
          /\ refreshing' = refreshing \cup {t}
          /\ toVisit' = [toVisit EXCEPT ![t] = players \ now]
          /\ known' = Visited(now)
          /\ found' = VisitedFound(now)
      BY DEF RefreshStarts, RefreshBegins
<1>3. /\ Beside /\ missed' = missed
      /\ clashed' = (resource' /\ (clashed \/ refreshing' = Threads))
      BY DEF RefreshStarts, Unseen, panelVars, Beside
<1>4. clashed' \in BOOLEAN BY <1>3
<1>5. now \in SUBSET Ids /\ players \ now \in SUBSET Ids OBVIOUS
<1> HIDE DEF players
<1>6. /\ known' \in [Ids -> Conns \cup {Nobody}] /\ found' \in [Ids -> BOOLEAN]
      /\ \A i \in Ids : known'[i] # Nobody => known'[i] = live[i]
      BY <1>0, <1>1, <1>2, <1>5, VisitTypes
<1>7. ResourceTypeOK' BY <1>0, <1>1, <1>2, <1>5, <1>6 DEF ResourceTypeOK
<1>8. KnownIsLive' BY <1>1, <1>6 DEF KnownIsLive
<1>9. Evolves /\ Extends /\ NewReports BY <1>0, <1>1, NobodyNew, NothingAdded
<1> QED BY <1>0, <1>1, <1>3, <1>4, <1>7, <1>8, <1>9, ServerStepKeeps

LEMMA RefreshEndsKeeps ==
    ASSUME MirrorInv, NEW t \in Threads, RefreshReports(t)
    PROVE  MirrorInv'
<1>0. /\ MirrorTypeOK /\ KnownIsLive /\ ResourceTypeOK
      /\ server \in {"none", "running", "ended"} /\ resource \in BOOLEAN
      /\ missed \subseteq Conns /\ clashed \in BOOLEAN
      BY DEF MirrorInv, MirrorTypeOK, ReportsTypeOK, ResourceTypeOK
<1>1. /\ t \in refreshing
      /\ refreshing' = refreshing \ {t}
      /\ toVisit' = [toVisit EXCEPT ![t] = {}]
      /\ known' = [i \in Ids |-> IF VisitedFound(toVisit[t])[i]
                                 THEN Visited(toVisit[t])[i] ELSE Nobody]
      /\ found' = [i \in Ids |-> FALSE]
      /\ UNCHANGED <<server, idOf, live, resource, failed>>
      /\ \/ synced' = TRUE /\ Report(Ids, known', TRUE)
         \/ UNCHANGED <<reported, synced, pipe>>
      BY DEF RefreshReports, RefreshEnds
<1>2. /\ Beside /\ missed' = missed
      /\ clashed' = (resource' /\ (clashed \/ refreshing' = Threads))
      BY DEF RefreshReports, Unseen, panelVars, Beside
<1>3. clashed' \in BOOLEAN BY <1>2
<1>4. resource BY <1>0, <1>1 DEF KnownIsLive
<1>5. toVisit[t] \in SUBSET Ids BY <1>0 DEF ResourceTypeOK
<1>6. /\ known' \in [Ids -> Conns \cup {Nobody}] /\ found' \in [Ids -> BOOLEAN]
      /\ \A i \in Ids : known'[i] # Nobody => known'[i] = live[i]
      BY <1>0, <1>1, <1>4, <1>5, VisitTypes
<1>7. KnownIsLive' BY <1>1, <1>4, <1>6 DEF KnownIsLive
<1>8. Evolves BY <1>0, <1>1, NobodyNew
<1>9. refreshing' \subseteq Threads /\ toVisit' \in [Threads -> SUBSET Ids]
      BY <1>0, <1>1 DEF ResourceTypeOK
<1>10. CASE synced' = TRUE /\ Report(Ids, known', TRUE)
  <2>1. /\ Extends /\ reported' \subseteq Conns
        /\ \A k \in New : \E i \in Ids :
               known'[i] # Nobody /\ pipe'[k] = Joining(i, known'[i], TRUE)
    <3> DEFINE refs == known'
    <3>1. refs \in [Ids -> Conns \cup {Nobody}] /\ Report(Ids, refs, TRUE) BY <1>6, <1>10
    <3> HIDE DEF refs
    <3>2. /\ Extends /\ reported' \subseteq Conns
          /\ \A k \in New : \E i \in Ids :
                 refs[i] # Nobody /\ live'[i] # Nobody /\ pipe'[k] = Joining(i, refs[i], TRUE)
          BY <1>0, <3>1, ReportAdds
    <3> QED BY <3>2 DEF refs
  <2>2. \A k \in New : /\ pipe'[k].event = "playerJoining" /\ pipe'[k].resync = TRUE
                       /\ pipe'[k].ref # Nobody /\ pipe'[k].id \in Ids
                       /\ pipe'[k].ref = live[pipe'[k].id]
    <3> SUFFICES ASSUME NEW k \in New
                 PROVE  /\ pipe'[k].event = "playerJoining" /\ pipe'[k].resync = TRUE
                        /\ pipe'[k].ref # Nobody /\ pipe'[k].id \in Ids
                        /\ pipe'[k].ref = live[pipe'[k].id]
        OBVIOUS
    <3>1. PICK i \in Ids : known'[i] # Nobody /\ pipe'[k] = Joining(i, known'[i], TRUE)
          BY <2>1
    <3>2. known'[i] = live[i] BY <1>6, <3>1
    <3> QED BY <3>1, <3>2 DEF Joining
  <2>3. NewReports
    <3>1. \A i \in Ids : live[i] # Nobody => live[i] <= Len(idOf) /\ idOf[live[i]] = i
          BY DEF MirrorInv, Numbered
    <3>2. \A k \in New : pipe'[k].ref <= Len(idOf) /\ idOf[pipe'[k].ref] = pipe'[k].id
          BY <2>2, <3>1
    <3> QED BY <1>1, <2>2, <3>2 DEF NewReports, Genuine, Counted
  <2>4. ResourceTypeOK' BY <1>0, <1>1, <1>6, <1>9, <1>10, <2>1 DEF ResourceTypeOK
  <2> QED BY <1>0, <1>1, <1>2, <1>3, <1>7, <1>8, <2>1, <2>3, <2>4, ServerStepKeeps
<1>11. CASE UNCHANGED <<reported, synced, pipe>>
  <2>1. ResourceTypeOK' BY <1>0, <1>1, <1>6, <1>9, <1>11 DEF ResourceTypeOK
  <2>2. Extends /\ NewReports BY <1>0, <1>11, NothingAdded
  <2> QED BY <1>0, <1>1, <1>2, <1>3, <1>7, <1>8, <2>1, <2>2, ServerStepKeeps
<1> QED BY <1>1, <1>10, <1>11

LEMMA RefreshErrsKeeps ==
    ASSUME MirrorInv, NEW t \in Threads, RefreshFails(t)
    PROVE  MirrorInv'
<1>0. /\ MirrorTypeOK /\ KnownIsLive /\ ResourceTypeOK
      /\ server \in {"none", "running", "ended"} /\ resource \in BOOLEAN
      /\ missed \subseteq Conns /\ clashed \in BOOLEAN
      BY DEF MirrorInv, MirrorTypeOK, ReportsTypeOK, ResourceTypeOK
<1>1. /\ t \in refreshing
      /\ refreshing' = refreshing \ {t}
      /\ toVisit' = [toVisit EXCEPT ![t] = {}]
      /\ failed' \in BOOLEAN
      /\ UNCHANGED <<server, idOf, live, resource, reported, synced, pipe>>
      BY <1>0 DEF RefreshFails, RefreshErrs, ResourceTypeOK
<1>2. PICK now \in SUBSET toVisit[t] : known' = Visited(now) /\ found' = VisitedFound(now)
      BY DEF RefreshFails, RefreshErrs
<1>3. /\ Beside /\ missed' = missed
      /\ clashed' = (resource' /\ (clashed \/ refreshing' = Threads))
      BY DEF RefreshFails, Unseen, panelVars, Beside
<1>4. clashed' \in BOOLEAN BY <1>3
<1>5. resource BY <1>0, <1>1 DEF KnownIsLive
<1>6. now \in SUBSET Ids BY <1>0, <1>2 DEF ResourceTypeOK
<1>7. /\ known' \in [Ids -> Conns \cup {Nobody}] /\ found' \in [Ids -> BOOLEAN]
      /\ \A i \in Ids : known'[i] # Nobody => known'[i] = live[i]
      BY <1>0, <1>2, <1>5, <1>6, VisitTypes
<1>8. ResourceTypeOK' BY <1>0, <1>1, <1>7 DEF ResourceTypeOK
<1>9. KnownIsLive' BY <1>1, <1>5, <1>7 DEF KnownIsLive
<1>10. Evolves /\ Extends /\ NewReports BY <1>0, <1>1, NobodyNew, NothingAdded
<1> QED BY <1>0, <1>1, <1>3, <1>4, <1>8, <1>9, <1>10, ServerStepKeeps

LEMMA ServerStepsKeep ==
    ASSUME MirrorInv, ServerStep
    PROVE  MirrorInv'
<1>0. /\ MirrorTypeOK /\ KnownIsLive /\ ResourceTypeOK
      /\ server \in {"none", "running", "ended"} /\ resource \in BOOLEAN
      /\ missed \subseteq Conns /\ clashed \in BOOLEAN
      BY DEF MirrorInv, MirrorTypeOK, ReportsTypeOK, ResourceTypeOK
<1>1. /\ Beside /\ missed' = missed
      /\ clashed' = (resource' /\ (clashed \/ refreshing' = Threads))
      BY DEF ServerStep, Unseen, panelVars, Beside
<1>2. clashed' \in BOOLEAN BY <1>1
<1>3. CASE \E i \in Ids : Connect(i)
      BY <1>1, <1>2, <1>3, ConnectKeeps
<1>4. CASE ServerDies \/ ResourceStops
  <2>1. /\ FreshResource(FALSE) /\ resource' = FALSE /\ server' \in {server, "ended"}
        /\ live' \in {live, NoneLive} /\ idOf' = idOf /\ pipe' = pipe
        BY <1>4 DEF ServerDies, ServerGone, ResourceStops
  <2>2. ResourceTypeOK' /\ KnownIsLive' BY <2>1, FreshType DEF KnownIsLive
  <2>3. Evolves /\ Extends /\ NewReports BY <1>0, <2>1, NobodyNew, NothingAdded
  <2> QED BY <1>0, <1>1, <1>2, <2>1, <2>2, <2>3, ServerStepKeeps
<1>5. CASE ResourceStarts
  <2>1. /\ resource' = TRUE /\ UNCHANGED <<server, idOf, live, pipe>>
        /\ UNCHANGED <<known, found, reported, refreshing, toVisit, synced, failed>>
        BY <1>5 DEF ResourceStarts, resourceVars
  <2>2. ResourceTypeOK' /\ KnownIsLive' BY <1>0, <2>1 DEF ResourceTypeOK, KnownIsLive
  <2>3. Evolves /\ Extends /\ NewReports BY <1>0, <2>1, NobodyNew, NothingAdded
  <2> QED BY <1>0, <1>1, <1>2, <2>1, <2>2, <2>3, ServerStepKeeps
<1> QED BY <1>3, <1>4, <1>5 DEF ServerStep

-----------------------------------------------------------------------------
(* The steps of the panel.                                                  *)

LEMMA SameMirror ==
    ASSUME MirrorInv, UNCHANGED mirrorVars
    PROVE  MirrorInv'
<1>0. MirrorTypeOK BY DEF MirrorInv
<1>1. /\ UNCHANGED <<server, idOf, live, resource, pipe>>
      /\ UNCHANGED <<known, found, reported, refreshing, toVisit, synced, failed>>
      /\ UNCHANGED <<playerlist, online, log, missed, clashed>>
      BY DEF mirrorVars, reportVars, resourceVars, historyVars
<1>2. Evolves /\ Extends /\ NewReports BY <1>0, <1>1, NobodyNew, NothingAdded
<1>3. Numbered' /\ PipeGenuine' /\ InOrder' /\ QueuesApart' /\ LogOfPast'
      BY <1>1, <1>2, PipeExtends
<1>4. MirrorTypeOK' BY <1>0, <1>1 DEF MirrorTypeOK, ReportsTypeOK
<1>5. KnownIsLive' BY <1>1 DEF MirrorInv, KnownIsLive
<1> QED BY <1>3, <1>4, <1>5 DEF MirrorInv

\* A report is taken from a queue and handled.
Handled(r) ==
    /\ HandleServerEvents(r)
    /\ UNCHANGED <<server, idOf, live, resource, resourceVars, missed, clashed>>

LEMMA HandledTypes ==
    ASSUME MirrorInv, NEW r \in Reports, Genuine(r), Uncounted(r), Handled(r)
    PROVE  /\ playerlist' \in [Ids -> Conns \cup {Nobody}] /\ online' \in [Ids -> BOOLEAN]
           /\ log' \in [Conns -> [joined : Nat, left : Nat]]
           /\ \A i \in Ids : playerlist'[i] = playerlist[i]
                  \/ (r.event = "playerJoining" /\ r.id = i /\ playerlist'[i] = r.ref)
           /\ \A i \in Ids : online'[i] = online[i] \/ r.id = i
           /\ r.event = "playerDropped" =>
                  /\ playerlist' = playerlist
                  /\ \A i \in Ids : online'[i] # online[i] => playerlist[i] = r.ref /\ r.id = i
           /\ \A c \in Conns :
                  \/ log'[c] = log[c]
                  \/ /\ c = r.ref /\ Counted(r)
                     /\ IF r.event = "playerJoining"
                        THEN log'[c].joined = 1 /\ log'[c].left = log[c].left
                        ELSE log'[c].left = 1 /\ log'[c].joined = log[c].joined
<1>0. /\ playerlist \in [Ids -> Conns \cup {Nobody}] /\ online \in [Ids -> BOOLEAN]
      /\ log \in [Conns -> [joined : Nat, left : Nat]]
      BY DEF MirrorInv, MirrorTypeOK
<1>1. /\ r.event \in {"playerJoining", "playerDropped"} /\ r.id \in Ids
      /\ r.ref \in Conns \cup {Nobody} /\ r.resync \in BOOLEAN
      BY ReportFields
<1>2. CASE r.event = "playerJoining"
  <2>0. HandleJoining(r) BY <1>2 DEF Handled, HandleServerEvents
  <2>1. r.ref \in Conns BY <1>1, <1>2 DEF Genuine
  <2>2. CASE SameConnection(r)
    <3>1. UNCHANGED <<playerlist, online, log>> BY <2>0, <2>2 DEF HandleJoining
    <3> QED BY <1>0, <1>2, <3>1
  <2>3. CASE ~SameConnection(r)
    <3>1. /\ playerlist' = [playerlist EXCEPT ![r.id] = r.ref]
          /\ online' = [online EXCEPT ![r.id] = TRUE]
          /\ log' = IF r.resync THEN log ELSE [log EXCEPT ![r.ref].joined = @ + 1]
          BY <2>0, <2>3 DEF HandleJoining
    <3>2. /\ playerlist' \in [Ids -> Conns \cup {Nobody}] /\ online' \in [Ids -> BOOLEAN]
          /\ playerlist'[r.id] = r.ref
          /\ \A i \in Ids \ {r.id} : playerlist'[i] = playerlist[i] /\ online'[i] = online[i]
          BY <1>0, <1>1, <2>1, <3>1
    <3>3. CASE r.resync
          BY <1>0, <1>2, <3>1, <3>2, <3>3
    <3>4. CASE ~r.resync
      <4>1. Counted(r) /\ log[r.ref].joined = 0
            BY <1>2, <2>1, <3>4, ConnsAreNumbers DEF Counted, Uncounted
      <4>2. log[r.ref] \in [joined : Nat, left : Nat] BY <1>0, <2>1
      <4> DEFINE e == [log[r.ref] EXCEPT !.joined = @ + 1]
      <4>3. e \in [joined : Nat, left : Nat] /\ e.joined = 1 /\ e.left = log[r.ref].left
            BY <4>1, <4>2
      <4>4. log' = [log EXCEPT ![r.ref] = e] BY <1>0, <3>1, <3>4
      <4> HIDE DEF e
      <4>5. /\ log' \in [Conns -> [joined : Nat, left : Nat]] /\ log'[r.ref] = e
            /\ \A c \in Conns \ {r.ref} : log'[c] = log[c]
            BY <1>0, <2>1, <4>3, <4>4
      <4> QED BY <1>2, <3>2, <4>1, <4>3, <4>5
    <3> QED BY <3>3, <3>4
  <2> QED BY <2>2, <2>3
<1>3. CASE r.event = "playerDropped"
  <2>0. HandleDropped(r) BY <1>3 DEF Handled, HandleServerEvents
  <2>2. CASE StaleDrop(r)
    <3>1. UNCHANGED <<playerlist, online, log>> BY <2>0, <2>2 DEF HandleDropped
    <3> QED BY <1>0, <1>3, <3>1
  <2>3. CASE ~StaleDrop(r)
    <3>1. /\ online' = [online EXCEPT ![r.id] = FALSE]
          /\ log' = [log EXCEPT ![playerlist[r.id]].left = @ + 1]
          /\ playerlist' = playerlist
          BY <2>0, <2>3 DEF HandleDropped
    <3>2. playerlist[r.id] = r.ref /\ r.ref \in Conns
          BY <1>1, <2>3 DEF StaleDrop
    <3>3. /\ online' \in [Ids -> BOOLEAN] /\ \A i \in Ids \ {r.id} : online'[i] = online[i]
          BY <1>0, <1>1, <3>1
    <3>4. /\ log[r.ref] \in [joined : Nat, left : Nat]
          /\ Counted(r) /\ log[r.ref].left = 0
          BY <1>0, <1>3, <3>2, ConnsAreNumbers DEF Counted, Uncounted, Genuine
    <3> DEFINE e == [log[r.ref] EXCEPT !.left = @ + 1]
    <3>5. e \in [joined : Nat, left : Nat] /\ e.left = 1 /\ e.joined = log[r.ref].joined
          BY <3>4
    <3>6. log' = [log EXCEPT ![r.ref] = e] BY <1>0, <3>1, <3>2
    <3> HIDE DEF e
    <3>7. /\ log' \in [Conns -> [joined : Nat, left : Nat]] /\ log'[r.ref] = e
          /\ \A c \in Conns \ {r.ref} : log'[c] = log[c]
          BY <1>0, <3>2, <3>5, <3>6
    <3> QED BY <1>0, <1>3, <3>1, <3>2, <3>3, <3>4, <3>5, <3>7
  <2> QED BY <2>2, <2>3
<1> QED BY <1>1, <1>2, <1>3

\* What the handling of a report leaves of the invariant, the queue apart.
LEMMA HandledKeeps ==
    ASSUME MirrorInv, NEW r \in Reports, Genuine(r), Uncounted(r), Handled(r)
    PROVE  /\ Numbered' /\ LogOfPast' /\ KnownIsLive'
           /\ \A q \in Reports : Genuine(q) => Genuine(q)'
           /\ \A q \in Reports : Uncounted(q) /\ Apart(r, q) => Uncounted(q)'
<1>0. /\ MirrorTypeOK /\ Numbered /\ LogOfPast /\ KnownIsLive
      BY DEF MirrorInv
<1>1. UNCHANGED <<idOf, live, resource, known, refreshing>>
      BY DEF Handled, resourceVars
<1>2. r.event \in {"playerJoining", "playerDropped"} BY ReportFields
<1>3. r.ref # Nobody => r.ref \in 1 .. Len(idOf) /\ idOf[r.ref] = r.id
      BY <1>0, GenuineRef
<1>4. Numbered'
  <2>1. \A i \in Ids : playerlist'[i] = playerlist[i]
            \/ (r.event = "playerJoining" /\ r.id = i /\ playerlist'[i] = r.ref)
        BY HandledTypes
  <2> QED BY <1>0, <1>1, <1>3, <2>1 DEF Numbered
<1>5. \A c \in Conns :
          \/ log'[c] = log[c]
          \/ /\ c = r.ref /\ Counted(r)
             /\ IF r.event = "playerJoining"
                THEN log'[c].joined = 1 /\ log'[c].left = log[c].left
                ELSE log'[c].left = 1 /\ log'[c].joined = log[c].joined
      BY HandledTypes
<1>6. LogOfPast'
  <2> SUFFICES ASSUME NEW c \in Conns
               PROVE  /\ log'[c].joined <= 1 /\ log'[c].left <= 1
                      /\ c > Len(idOf) => log'[c].joined = 0 /\ log'[c].left = 0
                      /\ log'[c].left # 0 => live[idOf[c]] # c
      BY <1>1 DEF LogOfPast
  <2>1. CASE log'[c] = log[c] BY <1>0, <2>1 DEF LogOfPast
  <2>2. CASE log'[c] # log[c]
    <3>1. /\ c = r.ref /\ c # Nobody
          /\ IF r.event = "playerJoining"
             THEN log'[c].joined = 1 /\ log'[c].left = log[c].left
             ELSE log'[c].left = 1 /\ log'[c].joined = log[c].joined
          BY <1>5, <2>2 DEF Counted
    <3>2. c \in 1 .. Len(idOf) /\ idOf[c] = r.id BY <1>3, <3>1
    <3>3. ~(c > Len(idOf)) BY <1>0, <3>2, Basics
    <3>4. r.event = "playerDropped" => live[idOf[c]] # c
          BY <3>1, <3>2 DEF Genuine
    <3>5. /\ log[c].joined <= 1 /\ log[c].left <= 1
          /\ log[c].left # 0 => live[idOf[c]] # c
          BY <1>0 DEF LogOfPast
    <3> QED BY <1>2, <3>1, <3>3, <3>4, <3>5
  <2> QED BY <2>1, <2>2
<1>7. \A q \in Reports : Genuine(q) => Genuine(q)'
      BY <1>1 DEF Genuine
<1>9. ASSUME NEW q \in Reports, Uncounted(q), Apart(r, q) PROVE Uncounted(q)'
  <2> SUFFICES ASSUME Counted(q)
               PROVE  /\ q.event = "playerJoining" => log'[q.ref].joined = 0
                      /\ q.event = "playerDropped" => log'[q.ref].left = 0
      BY DEF Uncounted
  <2>1. q.ref \in Conns BY ReportFields DEF Counted
  <2>2. /\ q.event = "playerJoining" => log[q.ref].joined = 0
        /\ q.event = "playerDropped" => log[q.ref].left = 0
        BY <1>9 DEF Uncounted
  <2>3. CASE log'[q.ref] = log[q.ref] BY <2>2, <2>3
  <2>4. CASE log'[q.ref] # log[q.ref]
    <3>1. /\ q.ref = r.ref /\ Counted(r)
          /\ IF r.event = "playerJoining"
             THEN log'[q.ref].left = log[q.ref].left
             ELSE log'[q.ref].joined = log[q.ref].joined
          BY <1>5, <2>1, <2>4
    <3>2. q.event # r.event BY <1>9, <3>1 DEF Apart
    <3> QED BY <1>2, <2>2, <3>1, <3>2
  <2> QED BY <2>3, <2>4
<1>10. KnownIsLive' BY <1>0, <1>1 DEF KnownIsLive
<1> QED BY <1>4, <1>6, <1>7, <1>9, <1>10

LEMMA TailIs ==
    ASSUME NEW q \in Seq(Reports), q # <<>>
    PROVE  /\ Head(q) = q[1] /\ Head(q) \in Reports /\ 1 \in DOMAIN q
           /\ Tail(q) \in Seq(Reports)
           /\ \A k \in DOMAIN Tail(q) : k + 1 \in DOMAIN q /\ k + 1 > 1 /\ Tail(q)[k] = q[k + 1]
           /\ \A k \in DOMAIN Tail(q) : k \in Nat
<1>1. Len(q) \in Nat \ {0} /\ DOMAIN q = 1 .. Len(q) /\ q[1] \in Reports
      OBVIOUS
<1>2. Head(q) = q[1] /\ Tail(q) \in Seq(Reports) /\ Len(Tail(q)) = Len(q) - 1
      BY HeadTailProperties
<1>3. DOMAIN Tail(q) = 1 .. Len(q) - 1 BY <1>2
<1>4. \A k \in 1 .. Len(q) - 1 : Tail(q)[k] = q[k + 1] BY HeadTailProperties, <1>2
<1> QED BY <1>1, <1>2, <1>3, <1>4

LEMMA ReadKeeps ==
    ASSUME MirrorInv, ReadReport
    PROVE  MirrorInv'
<1> DEFINE r == Head(pipe)
<1>0. /\ MirrorTypeOK /\ pipe \in Seq(Reports) /\ pipe # <<>> /\ pipe' = Tail(pipe)
      BY Basics DEF MirrorInv, ReadReport
<1>1. /\ r = pipe[1] /\ r \in Reports /\ 1 \in DOMAIN pipe
      /\ pipe' \in Seq(Reports)
      /\ \A k \in DOMAIN pipe' : k + 1 \in DOMAIN pipe /\ k + 1 > 1 /\ pipe'[k] = pipe[k + 1]
      /\ \A k \in DOMAIN pipe' : k \in Nat
      BY <1>0, TailIs
<1>2. Handled(r)
      BY DEF ReadReport, Handled, resourceVars, historyVars
<1>3. Genuine(r) /\ Uncounted(r)
      BY <1>1 DEF MirrorInv, PipeGenuine, QueuesApart
<1> HIDE DEF r
<1>4. /\ Numbered' /\ LogOfPast' /\ KnownIsLive'
      /\ \A q \in Reports : Genuine(q) => Genuine(q)'
      /\ \A q \in Reports : Uncounted(q) /\ Apart(r, q) => Uncounted(q)'
      BY <1>1, <1>2, <1>3, HandledKeeps
<1>5. /\ playerlist' \in [Ids -> Conns \cup {Nobody}] /\ online' \in [Ids -> BOOLEAN]
      /\ log' \in [Conns -> [joined : Nat, left : Nat]]
      /\ \A i \in Ids : playerlist'[i] = playerlist[i]
             \/ (r.event = "playerJoining" /\ r.id = i /\ playerlist'[i] = r.ref)
      BY <1>1, <1>2, <1>3, HandledTypes
<1>6. UNCHANGED <<server, idOf, live, resource, known, found, reported, refreshing, toVisit,
                  synced, failed, missed, clashed>>
      BY <1>2 DEF Handled, resourceVars
<1>7. MirrorTypeOK' BY <1>0, <1>1, <1>5, <1>6 DEF MirrorTypeOK, ReportsTypeOK
<1>8. \A k \in DOMAIN pipe : pipe[k] \in Reports BY <1>0, Basics
<1>10. PipeGenuine'
  <2>1. \A k \in DOMAIN pipe' : Genuine(pipe[k + 1]) /\ pipe[k + 1] \in Reports
        BY <1>1, <1>8 DEF MirrorInv, PipeGenuine
  <2> QED BY <1>1, <1>4, <2>1 DEF PipeGenuine, Genuine
<1>12. QueuesApart'
  <2>1. \A j, k \in DOMAIN pipe' : j # k => Apart(pipe'[j], pipe'[k])
        BY <1>1 DEF MirrorInv, QueuesApart
  <2>3. \A k \in DOMAIN pipe' : Uncounted(pipe[k + 1]) /\ Apart(r, pipe[k + 1])
    <3> SUFFICES ASSUME NEW k \in DOMAIN pipe'
                 PROVE  Uncounted(pipe[k + 1]) /\ Apart(r, pipe[k + 1])
        OBVIOUS
    <3>1. k + 1 \in DOMAIN pipe /\ 1 # k + 1 BY <1>1
    <3> QED BY <1>1, <3>1 DEF MirrorInv, QueuesApart
  <2>4. \A k \in DOMAIN pipe' : Uncounted(pipe[k])'
        BY <1>1, <1>4, <1>8, <2>3 DEF Uncounted
  <2> QED BY <2>1, <2>4 DEF QueuesApart, Apart, Counted
<1>13. InOrder'
  <2>1. ASSUME r.event = "playerJoining"
        PROVE  /\ Joins(1)
               /\ live[r.id] # Nobody => r.ref <= live[r.id]
        BY <1>1, <2>1 DEF MirrorInv, InOrder, Joins
  <2>2. \A i \in Ids : playerlist'[i] # Nobody /\ live[i] # Nobody => playerlist'[i] <= live[i]
        BY <1>5, <2>1 DEF MirrorInv, InOrder
  <2>3. ASSUME NEW k \in DOMAIN pipe', Joins(k)'
        PROVE  /\ live[pipe'[k].id] # Nobody => pipe'[k].ref <= live[pipe'[k].id]
               /\ playerlist'[pipe'[k].id] # Nobody => playerlist'[pipe'[k].id] <= pipe'[k].ref
    <3> DEFINE l == k + 1
    <3>1. l \in DOMAIN pipe /\ 1 < l /\ pipe'[k] = pipe[l] /\ Joins(l) /\ pipe[l].id \in Ids
          BY <1>1, <1>8, <2>3, ReportFields DEF Joins
    <3> HIDE DEF l
    <3>2. /\ live[pipe[l].id] # Nobody => pipe[l].ref <= live[pipe[l].id]
          /\ playerlist[pipe[l].id] # Nobody => playerlist[pipe[l].id] <= pipe[l].ref
          BY <3>1 DEF MirrorInv, InOrder
    <3>3. r.event = "playerJoining" /\ r.id = pipe[l].id => r.ref <= pipe[l].ref
          BY <1>1, <2>1, <3>1 DEF MirrorInv, InOrder
    <3> QED BY <1>5, <3>1, <3>2, <3>3
  <2>4. ASSUME NEW j \in DOMAIN pipe', NEW k \in DOMAIN pipe', j < k, Joins(j)', Joins(k)',
               pipe'[j].id = pipe'[k].id
        PROVE  pipe'[j].ref <= pipe'[k].ref
    <3> DEFINE l == k + 1 m == j + 1
    <3>1. /\ l \in DOMAIN pipe /\ pipe'[k] = pipe[l] /\ Joins(l)
          /\ m \in DOMAIN pipe /\ pipe'[j] = pipe[m] /\ Joins(m)
          /\ m < l
          BY <1>1, <2>4 DEF Joins
    <3> HIDE DEF l, m
    <3> QED BY <2>4, <3>1 DEF MirrorInv, InOrder
  <2> QED BY <1>6, <2>2, <2>3, <2>4 DEF InOrder
<1> QED BY <1>4, <1>7, <1>10, <1>12, <1>13 DEF MirrorInv

LEMMA SpawnKeeps ==
    ASSUME MirrorInv, SpawnServer
    PROVE  MirrorInv'
<1>0. MirrorTypeOK BY DEF MirrorInv
<1>1. /\ server' = "running" /\ resource' = TRUE /\ FreshResource(FALSE)
      /\ UNCHANGED <<idOf, live, pipe>> /\ Beside /\ UNCHANGED <<missed, clashed>>
      BY DEF SpawnServer, ServerStarts, Beside, historyVars
<1>2. ResourceTypeOK' /\ KnownIsLive' BY <1>1, FreshType DEF KnownIsLive
<1>3. Evolves /\ Extends /\ NewReports BY <1>0, <1>1, NobodyNew, NothingAdded
<1> QED BY <1>0, <1>1, <1>2, <1>3, ServerStepKeeps DEF MirrorTypeOK

\* A killed server: what was on its way is dropped.
LEMMA KillKeeps ==
    ASSUME MirrorInv, KillServer
    PROVE  MirrorInv'
<1>0. MirrorTypeOK BY DEF MirrorInv
<1>1. /\ server' = "none" /\ live' = NoneLive /\ resource' = FALSE /\ FreshResource(FALSE)
      /\ idOf' = idOf /\ pipe' = <<>>
      /\ playerlist' = NoneLive /\ online' = [i \in Ids |-> FALSE] /\ log' = NoLog
      /\ missed' = {} /\ clashed' = FALSE
      BY DEF KillServer, ServerGone, HandleServerClose
<1>2. pipe' \in Seq(Reports) /\ DOMAIN pipe' = {}
  <2>1. <<>> \in Seq(Reports) /\ DOMAIN <<>> = {} OBVIOUS
  <2> QED BY <1>1, <2>1
<1>3. ResourceTypeOK' /\ KnownIsLive' BY <1>1, FreshType DEF KnownIsLive
<1>4. /\ \A i \in Ids : live'[i] = Nobody /\ playerlist'[i] = Nobody
      /\ playerlist' \in [Ids -> Conns \cup {Nobody}] /\ live' \in [Ids -> Conns \cup {Nobody}]
      /\ online' \in [Ids -> BOOLEAN]
      BY <1>1, NoneLiveType DEF NoneLive
<1>5. /\ \A c \in Conns : log'[c].joined = 0 /\ log'[c].left = 0
      /\ log' \in [Conns -> [joined : Nat, left : Nat]]
      BY <1>1 DEF NoLog
<1>6. MirrorTypeOK'
  <2>1. ReportsTypeOK'
        BY <1>0, <1>1, <1>2, <1>3, <1>4 DEF MirrorTypeOK, ReportsTypeOK, ResourceTypeOK
  <2> QED BY <1>1, <1>4, <1>5, <2>1 DEF MirrorTypeOK
<1>7. Numbered' /\ PipeGenuine' /\ InOrder' /\ QueuesApart' /\ LogOfPast'
      BY <1>2, <1>4, <1>5 DEF Numbered, PipeGenuine, InOrder, QueuesApart, LogOfPast
<1> QED BY <1>3, <1>6, <1>7 DEF MirrorInv

LEMMA MirrorInit == Init => MirrorInv
<1> SUFFICES ASSUME Init PROVE MirrorInv
    OBVIOUS
<1>1. /\ server = "none" /\ idOf = <<>> /\ live = NoneLive /\ resource = FALSE
      /\ known = NoneLive /\ found = [i \in Ids |-> FALSE] /\ reported = {}
      /\ refreshing = {} /\ toVisit = [t \in Threads |-> {}] /\ synced = FALSE
      /\ failed = FALSE /\ pipe = <<>> /\ playerlist = NoneLive
      /\ online = [i \in Ids |-> FALSE] /\ log = NoLog
      /\ missed = {} /\ clashed = FALSE
      BY DEF Init, ReportsInit
<1>2. /\ <<>> \in Seq(Reports) /\ <<>> \in Seq(Ids) /\ Len(<<>>) = 0 /\ DOMAIN <<>> = {}
      OBVIOUS
<1>3. MaxConns \in Nat BY ReportsAssumption
<1>4. /\ idOf \in Seq(Ids) /\ Len(idOf) <= MaxConns /\ pipe \in Seq(Reports)
      /\ DOMAIN pipe = {}
      BY <1>1, <1>2, <1>3
<1>5. ReportsTypeOK BY <1>1, <1>4, NoneLiveType DEF ReportsTypeOK
<1>6. log \in [Conns -> [joined : Nat, left : Nat]] /\ \A c \in Conns : log[c].joined = 0 /\ log[c].left = 0
      BY <1>1 DEF NoLog
<1>7. MirrorTypeOK BY <1>1, <1>4, <1>5, <1>6, NoneLiveType DEF MirrorTypeOK
<1>8. \A i \in Ids : live[i] = Nobody /\ known[i] = Nobody /\ playerlist[i] = Nobody
      BY <1>1 DEF NoneLive
<1> QED BY <1>1, <1>4, <1>6, <1>7, <1>8
        DEF MirrorInv, KnownIsLive, Numbered, PipeGenuine, InOrder, QueuesApart, LogOfPast

LEMMA MirrorStays == MirrorInv /\ [Next]_vars => MirrorInv'
<1> SUFFICES ASSUME MirrorInv, [Next]_vars PROVE MirrorInv'
    OBVIOUS
<1>1. CASE UNCHANGED vars
      BY <1>1, SameMirror DEF vars, mirrorVars, panelVars
<1>2. CASE FlushBuffers \/ ClientConnects \/ ClientLeaves
      BY <1>2, SameMirror DEF FlushBuffers, ClientConnects, ClientLeaves, mirrorVars
<1>3. CASE Next /\ ~(FlushBuffers \/ ClientConnects \/ ClientLeaves)
      BY <1>3, ServerStepsKeep, RefreshBeginsKeeps, RefreshEndsKeeps, RefreshErrsKeeps, LeaveKeeps, SpawnKeeps,
         KillKeeps, ReadKeeps DEF Next
<1> QED BY <1>1, <1>2, <1>3

LEMMA MirrorSafe == Spec => []MirrorInv
BY MirrorInit, MirrorStays, PTL DEF Spec

\* The step of a report that is read leaves who is connected where he is.
LEMMA HandledKeepsLive ==
    ASSUME MirrorInv, NEW r \in Reports, Genuine(r), Uncounted(r), Handled(r),
           NEW i \in Ids, live[i] # Nobody, online[i], playerlist[i] = live[i],
           r.event = "playerJoining" /\ r.id = i => r.ref = live[i]
    PROVE  online'[i] /\ playerlist'[i] = live[i]
<1>1. /\ playerlist'[i] = playerlist[i]
             \/ (r.event = "playerJoining" /\ r.id = i /\ playerlist'[i] = r.ref)
      /\ online'[i] = online[i] \/ r.id = i
      /\ r.event = "playerDropped" =>
             (online'[i] # online[i] => playerlist[i] = r.ref /\ r.id = i)
      BY HandledTypes
<1>2. playerlist'[i] = live[i] BY <1>1
<1>3. r.event \in {"playerJoining", "playerDropped"} BY ReportFields
<1>4. CASE r.event = "playerDropped"
      BY <1>1, <1>2, <1>4 DEF Genuine
<1>5. CASE r.event = "playerJoining"
  <2>1. HandleJoining(r) BY <1>5 DEF Handled, HandleServerEvents
  <2>2. online \in [Ids -> BOOLEAN] /\ r.id \in Ids BY ReportFields DEF MirrorInv, MirrorTypeOK
  <2>3. online' = online \/ online' = [online EXCEPT ![r.id] = TRUE]
        BY <2>1 DEF HandleJoining
  <2>4. online'[i] BY <2>2, <2>3
  <2> QED BY <1>2, <2>4
<1> QED BY <1>3, <1>4, <1>5

LEMMA KeptStep ==
    ASSUME MirrorInv, [Next]_vars, NEW i \in Ids,
           live[i] # Nobody, live'[i] = live[i], online[i], playerlist[i] = live[i]
    PROVE  online'[i] /\ playerlist'[i] = live[i]
<1>0. /\ MirrorTypeOK
      /\ pipe \in Seq(Reports) /\ live \in [Ids -> Conns \cup {Nobody}]
      BY Basics DEF MirrorInv
<1>1. CASE UNCHANGED <<playerlist, online>>
      BY <1>1
<1>2. CASE KillServer
  <2>1. live'[i] = Nobody BY <1>2 DEF KillServer, ServerGone, NoneLive
  <2> QED BY <2>1
<1>4. CASE ReadReport
  <2> DEFINE r == Head(pipe)
  <2>1. pipe # <<>> /\ Handled(r)
        BY <1>4 DEF ReadReport, Handled, resourceVars, historyVars
  <2>2. r = pipe[1] /\ r \in Reports /\ 1 \in DOMAIN pipe BY <1>0, <2>1, TailIs
  <2>3. Genuine(r) /\ Uncounted(r) BY <2>2 DEF MirrorInv, PipeGenuine, QueuesApart
  <2>4. ASSUME r.event = "playerJoining", r.id = i PROVE r.ref = live[i]
    <3>1. r.ref <= live[i] /\ live[i] <= r.ref
          BY <2>1, <2>2, <2>4 DEF MirrorInv, InOrder, Joins
    <3>2. r.ref # Nobody BY <2>3, <2>4 DEF Genuine
    <3>3. r.ref \in Nat /\ live[i] \in Nat
          BY <1>0, <2>2, <3>2, ReportFields, ConnsAreNumbers
    <3> QED BY <3>1, <3>3
  <2> HIDE DEF r
  <2> QED BY <2>1, <2>2, <2>3, <2>4, HandledKeepsLive
<1> QED BY <1>1, <1>2, <1>4
        DEF Next, ServerStep, RefreshStarts, RefreshReports, RefreshFails, PlayerLeaves, Unseen, SpawnServer,
            FlushBuffers, ClientConnects, ClientLeaves, vars, panelVars

-----------------------------------------------------------------------------
(* When everything is settled.                                              *)

Drops(k) == pipe[k].event = "playerDropped"

\* The connection of an id is on the list of the panel, or on its way.
Told(i) ==
    \/ online[i] /\ playerlist[i] = live[i]
    \/ \E k \in DOMAIN pipe : Joins(k) /\ pipe[k].id = i /\ pipe[k].ref = live[i]

\* The end of a connection is on its way, behind a place in the queue, or could
\* not be reported.
EndTold(i, c, place) ==
    \/ c \in missed
    \/ \E k \in DOMAIN pipe : k > place /\ Drops(k) /\ pipe[k].id = i /\ pipe[k].ref = c

Hosted ==
    /\ resource => server = "running"
    /\ synced => resource
    /\ ~clashed => refreshing # Threads
    /\ \A i \in Ids : online[i] => playerlist[i] # Nobody
    /\ \A c \in reported : c <= Len(idOf)

\* A refresh that is alone loses nobody who is connected.
RefreshSees ==
    ~clashed => \A t \in refreshing : \A i \in Ids :
        live[i] # Nobody => i \in toVisit[t] \/ (found[i] /\ known[i] = live[i])

\* After the resync the resource lists who is connected, and has reported all.
CaughtUp ==
    synced /\ ~clashed => \A i \in Ids :
        known[i] = live[i] /\ (live[i] # Nobody => live[i] \in reported)

ReportedTold ==
    \A i \in Ids : live[i] # Nobody /\ live[i] \in reported => Told(i)

\* Who is on the list, or on the way to it, and not connected any more, leaves
\* it later.
EndsTold ==
    server # "ended" =>
        /\ \A i \in Ids : online[i] /\ playerlist[i] # live[i] => EndTold(i, playerlist[i], 0)
        /\ \A k \in DOMAIN pipe : Joins(k) /\ pipe[k].ref # live[pipe[k].id] =>
               EndTold(pipe[k].id, pipe[k].ref, k)

ResourceInv == Hosted /\ RefreshSees /\ CaughtUp
QueueInv    == ReportedTold /\ EndsTold
SettleInv   == ResourceInv /\ QueueInv

\* Connections come and go beside the panel, with their reports.
LEMMA QueueExtends ==
    ASSUME MirrorInv, SettleInv, Extends, UNCHANGED <<playerlist, online>>,
           missed \subseteq missed', server' # "ended" => server # "ended",
           \A k \in New : Joins(k)' => pipe'[k].ref = live'[pipe'[k].id],
           \A i \in Ids :
               \/ live'[i] = live[i]
               \/ live[i] = Nobody
               \/ /\ live'[i] = Nobody
                  /\ server' # "ended" =>
                         \/ live[i] \in missed'
                         \/ \E k \in New : Drops(k)' /\ pipe'[k].id = i /\ pipe'[k].ref = live[i],
           \A i \in Ids : live'[i] # Nobody /\ live'[i] \in reported' =>
               \/ live'[i] = live[i] /\ live[i] \in reported
               \/ \E k \in New : Joins(k)' /\ pipe'[k].id = i /\ pipe'[k].ref = live'[i]
    PROVE  QueueInv'
<1>0. MirrorTypeOK BY DEF MirrorInv
<1>1. /\ Len(pipe) \in Nat /\ Len(pipe') \in Nat /\ Len(pipe') >= Len(pipe)
      /\ DOMAIN pipe = 1 .. Len(pipe) /\ DOMAIN pipe' = 1 .. Len(pipe')
      /\ \A k \in DOMAIN pipe : k \in DOMAIN pipe' /\ pipe'[k] = pipe[k] /\ k \in Int
      /\ \A k \in DOMAIN pipe : pipe[k] \in Reports /\ pipe[k].id \in Ids
      BY <1>0, Basics, ReportFields DEF Extends
<1>2. /\ \A k \in DOMAIN pipe' : k \in DOMAIN pipe \/ k \in New
      /\ \A k \in New : k \in DOMAIN pipe' /\ k > 0 /\ \A j \in DOMAIN pipe : k > j
      BY <1>1 DEF New
<1>3. ReportedTold'
  <2> SUFFICES ASSUME NEW i \in Ids, live'[i] # Nobody, live'[i] \in reported'
               PROVE  Told(i)'
      BY DEF ReportedTold
  <2>1. CASE \E k \in New : Joins(k)' /\ pipe'[k].id = i /\ pipe'[k].ref = live'[i]
        BY <1>2, <2>1 DEF Told
  <2>2. CASE live'[i] = live[i] /\ live[i] \in reported
    <3>1. Told(i) BY <2>2 DEF SettleInv, QueueInv, ReportedTold
    <3> QED BY <1>1, <2>2, <3>1 DEF Told, Joins
  <2> QED BY <2>1, <2>2
<1>4. ASSUME NEW i \in Ids, NEW c, NEW j, EndTold(i, c, j) PROVE EndTold(i, c, j)'
      BY <1>1, <1>4 DEF EndTold, Drops
<1>5. ASSUME NEW i \in Ids, NEW c, c = live[i], c # Nobody, live'[i] # c, server' # "ended",
             NEW j \in DOMAIN pipe \cup {0}
      PROVE  EndTold(i, c, j)'
      BY <1>2, <1>5 DEF EndTold
<1>6. EndsTold'
  <2> SUFFICES ASSUME server' # "ended", server # "ended"
               PROVE  /\ \A i \in Ids : online[i] /\ playerlist[i] # live'[i] =>
                             EndTold(i, playerlist[i], 0)'
                      /\ \A k \in DOMAIN pipe' : Joins(k)' /\ pipe'[k].ref # live'[pipe'[k].id] =>
                             EndTold(pipe[k].id, pipe[k].ref, k)'
      BY DEF EndsTold, EndTold
  <2>1. ASSUME NEW i \in Ids, NEW c, c # Nobody, c # live'[i], NEW j \in DOMAIN pipe \cup {0},
               c # live[i] => EndTold(i, c, j)
        PROVE  EndTold(i, c, j)'
        BY <1>4, <1>5, <2>1
  <2>2. ASSUME NEW i \in Ids, online[i], playerlist[i] # live'[i]
        PROVE  EndTold(i, playerlist[i], 0)'
    <3> SUFFICES ASSUME NEW c, c = playerlist[i] PROVE EndTold(i, c, 0)'
        BY DEF EndTold
    <3>1. c # Nobody BY <2>2 DEF SettleInv, ResourceInv, Hosted
    <3>2. c # live[i] => EndTold(i, c, 0) BY <2>2 DEF SettleInv, QueueInv, EndsTold
    <3> QED BY <2>1, <2>2, <3>1, <3>2
  <2>3. ASSUME NEW k \in DOMAIN pipe', Joins(k)', pipe'[k].ref # live'[pipe'[k].id]
        PROVE  EndTold(pipe[k].id, pipe[k].ref, k)'
    <3>1. k \in DOMAIN pipe BY <1>2, <2>3
    <3>2. pipe'[k] = pipe[k] /\ pipe[k].id \in Ids /\ Joins(k) /\ pipe[k].ref # live'[pipe[k].id]
          BY <1>1, <2>3, <3>1 DEF Joins
    <3> SUFFICES ASSUME NEW i \in Ids, NEW c, i = pipe[k].id, c = pipe[k].ref
                 PROVE  EndTold(i, c, k)'
        BY <3>2 DEF EndTold
    <3>3. c # Nobody BY <3>1, <3>2 DEF MirrorInv, PipeGenuine, Genuine, Joins
    <3>4. c # live[i] => EndTold(i, c, k)
          BY <3>1, <3>2 DEF SettleInv, QueueInv, EndsTold
    <3> QED BY <2>1, <3>1, <3>2, <3>3, <3>4
  <2> QED BY <2>2, <2>3
<1> QED BY <1>3, <1>6 DEF QueueInv

\* All that is due is reported.
LEMMA ReportAll ==
    ASSUME MirrorTypeOK, NEW ids \in SUBSET Ids, NEW refs \in [Ids -> Conns \cup {Nobody}],
           NEW resync \in BOOLEAN, Report(ids, refs, resync)
    PROVE  /\ Extends
           /\ \A k \in New : \E i \in ids :
                  refs[i] # Nobody /\ live'[i] # Nobody /\ pipe'[k] = Joining(i, refs[i], resync)
           /\ \A i \in ids : refs[i] # Nobody /\ live'[i] # Nobody => refs[i] \in reported'
           /\ \A c \in reported' \ reported : \E k \in New :
                  Joins(k)' /\ pipe'[k].ref = c /\ refs[pipe'[k].id] = c
           /\ reported \subseteq reported'
<1> DEFINE due == {i \in ids : refs[i] # Nobody /\ live'[i] # Nobody /\ refs[i] \notin reported}
           n == Cardinality(due)
<1>1. PICK order \in [1 .. n -> due] :
          /\ \A i \in due : \E k \in 1 .. n : order[k] = i
          /\ pipe' = pipe \o [k \in 1 .. n |-> Joining(order[k], refs[order[k]], resync)]
      BY DEF Report
<1>2. n \in Nat
  <2>1. IsFiniteSet(due) BY ReportsAssumption, FS_Subset
  <2> QED BY <2>1, FS_CardinalityType
<1>3. reported' = reported \cup {refs[i] : i \in due}
      BY DEF Report
<1>4. /\ Extends
      /\ \A k \in New : \E i \in ids :
             refs[i] # Nobody /\ live'[i] # Nobody /\ pipe'[k] = Joining(i, refs[i], resync)
      BY ReportAdds
<1>5. \A i \in ids : refs[i] # Nobody /\ live'[i] # Nobody => refs[i] \in reported'
      BY <1>3
<1>6. \A i \in due : i \in Ids /\ refs[i] \in Conns
      OBVIOUS
<1> HIDE DEF n, due
<1>7. ASSUME NEW i \in due
      PROVE  \E k \in New : Joins(k)' /\ pipe'[k].ref = refs[i] /\ pipe'[k].id = i
  <2>1. PICK k \in 1 .. n : order[k] = i BY <1>1
  <2> DEFINE more == [j \in 1 .. n |-> Joining(order[j], refs[order[j]], resync)]
  <2>2. more[k] = Joining(i, refs[i], resync) BY <2>1
  <2>3. \A j \in 1 .. n : more[j] \in Reports
    <3>1. \A j \in 1 .. n : order[j] \in due BY <1>1
    <3> QED BY <1>6, <3>1 DEF Joining, Reports
  <2>4. more \in Seq(Reports) /\ Len(more) = n
    <3>1. more \in [1 .. n -> Reports] BY <2>3
    <3> HIDE DEF more
    <3>2. more \in Seq(Reports) BY <1>2, <3>1, SeqDef
    <3> QED BY <1>2, <3>1, <3>2
  <2>5. pipe' = pipe \o more BY <1>1
  <2> HIDE DEF more
  <2>6. pipe \in Seq(Reports) /\ Len(pipe) \in Nat BY Basics
  <2>7. /\ Len(pipe') = Len(pipe) + n
        /\ \A l \in 1 .. Len(pipe) + n :
               pipe'[l] = IF l <= Len(pipe) THEN pipe[l] ELSE more[l - Len(pipe)]
        BY <2>4, <2>5, <2>6, ConcatProperties
  <2> DEFINE l == Len(pipe) + k
  <2>8. l \in New /\ l \in 1 .. Len(pipe) + n /\ ~(l <= Len(pipe)) /\ l - Len(pipe) = k
        BY <1>2, <2>6, <2>7 DEF New
  <2>9. pipe'[l] = Joining(i, refs[i], resync) BY <2>2, <2>7, <2>8
  <2> QED BY <2>8, <2>9 DEF Joins, Joining
<1>8. ASSUME NEW c \in reported' \ reported
      PROVE  \E k \in New : Joins(k)' /\ pipe'[k].ref = c /\ refs[pipe'[k].id] = c
  <2>1. PICK i \in due : c = refs[i] BY <1>3, <1>8
  <2> QED BY <1>7, <2>1
<1> QED BY <1>3, <1>4, <1>5, <1>8

LEMMA LiveApart ==
    ASSUME MirrorInv
    PROVE  /\ \A i, j \in Ids : live[i] # Nobody /\ live[i] = live[j] => i = j
           /\ \A i \in Ids : live[i] # Nobody => live[i] \in Nat /\ live[i] <= Len(idOf)
           /\ Len(idOf) \in Nat
<1>1. live \in [Ids -> Conns \cup {Nobody}] /\ Len(idOf) \in Nat
      BY Basics DEF MirrorInv
<1> QED BY <1>1, ConnsAreNumbers DEF MirrorInv, Numbered

\* While the resource is stopped it has no part in the invariant.
LEMMA FreshSettles ==
    ASSUME refreshing' = {}, synced' = FALSE, reported' = {}, resource' => server' = "running",
           \A i \in Ids : online'[i] => playerlist'[i] # Nobody
    PROVE  ResourceInv'
BY DEF ResourceInv, Hosted, RefreshSees, CaughtUp, Threads

LEMMA FreshIs ==
    ASSUME FreshResource(FALSE)
    PROVE  refreshing' = {} /\ synced' = FALSE /\ reported' = {}
BY DEF FreshResource

LEMMA ConnectSettles ==
    ASSUME MirrorInv, SettleInv, NEW i \in Ids, Connect(i), Unseen
    PROVE  SettleInv'
<1> DEFINE c == Len(idOf) + 1
<1>0. /\ MirrorTypeOK /\ KnownIsLive /\ ResourceTypeOK /\ Hosted /\ RefreshSees /\ CaughtUp
      /\ live \in [Ids -> Conns \cup {Nobody}] /\ Len(idOf) \in Nat /\ MaxConns \in Nat
      /\ idOf \in Seq(Ids)
      BY Basics DEF MirrorInv, MirrorTypeOK, ReportsTypeOK, ResourceTypeOK, SettleInv, ResourceInv
<1>1. /\ server = "running" /\ live[i] = Nobody /\ c <= MaxConns /\ idOf' = Append(idOf, i)
      /\ live' = [live EXCEPT ![i] = c]
      /\ IF resource
         THEN /\ known' = [known EXCEPT ![i] = c]
              /\ found' = [found EXCEPT ![i] = TRUE]
              /\ Report({i}, known', FALSE)
         ELSE UNCHANGED <<known, found, reported, pipe>>
      /\ UNCHANGED <<server, resource, refreshing, toVisit, synced, failed>>
      BY DEF Connect
<1>2. /\ UNCHANGED <<playerlist, online, missed>>
      /\ clashed' = (resource' /\ (clashed \/ refreshing' = Threads))
      BY DEF Unseen, panelVars
<1>3. /\ c \in Conns /\ c # Nobody /\ c > Len(idOf) /\ Len(idOf') = c
      /\ live'[i] = c /\ \A j \in Ids \ {i} : live'[j] = live[j]
      BY <1>0, <1>1, ReportsAssumption DEF Conns
<1>4. /\ \A j \in Ids : live[j] # Nobody => live[j] # c
      /\ c \notin reported
      /\ \A d \in reported : d <= Len(idOf')
  <2>1. \A d \in reported : d \in Nat /\ d <= Len(idOf)
        BY <1>0, ConnsAreNumbers DEF Hosted, ResourceTypeOK
  <2> QED BY <1>0, <1>3, <2>1, LiveApart
<1> HIDE DEF c
<1>5. CASE resource
  <2> DEFINE refs == known'
  <2>1. /\ known' = [known EXCEPT ![i] = c] /\ found' = [found EXCEPT ![i] = TRUE]
        /\ Report({i}, known', FALSE) /\ (~clashed' => ~clashed)
        BY <1>1, <1>2, <1>5
  <2>2. /\ refs \in [Ids -> Conns \cup {Nobody}] /\ refs[i] = c
        /\ \A j \in Ids \ {i} : refs[j] = known[j]
        /\ found'[i] /\ \A j \in Ids \ {i} : found'[j] = found[j]
        BY <1>0, <1>3, <2>1 DEF ResourceTypeOK
  <2>3. /\ Extends
        /\ \A k \in New : \E j \in {i} :
               refs[j] # Nobody /\ live'[j] # Nobody /\ pipe'[k] = Joining(j, refs[j], FALSE)
        /\ \A j \in {i} : refs[j] # Nobody /\ live'[j] # Nobody => refs[j] \in reported'
        /\ \A d \in reported' \ reported : \E k \in New :
               Joins(k)' /\ pipe'[k].ref = d /\ refs[pipe'[k].id] = d
        /\ reported \subseteq reported'
    <3>1. {i} \in SUBSET Ids /\ FALSE \in BOOLEAN /\ Report({i}, refs, FALSE) BY <2>1
    <3> HIDE DEF refs
    <3> QED BY <1>0, <2>2, <3>1, ReportAll
  <2>4. \A k \in New : pipe'[k].ref = c /\ pipe'[k].id = i
        BY <2>2, <2>3 DEF Joining
  <2>5. c \in reported' /\ \A d \in reported' : d \in reported \/ d = c
        BY <1>3, <2>2, <2>3, <2>4
  <2>6. ResourceInv'
    <3>1. Hosted' BY <1>0, <1>1, <1>2, <1>3, <1>4, <2>1, <2>5 DEF Hosted
    <3>2. RefreshSees' BY <1>0, <1>1, <1>3, <2>1, <2>2 DEF RefreshSees
    <3>3. CaughtUp' BY <1>0, <1>1, <1>3, <2>1, <2>2, <2>3, <2>5 DEF CaughtUp
    <3> QED BY <3>1, <3>2, <3>3 DEF ResourceInv
  <2>7. QueueInv'
    <3>1. \A j \in Ids : live'[j] # Nobody /\ live'[j] \in reported' =>
              \/ live'[j] = live[j] /\ live[j] \in reported
              \/ \E k \in New : Joins(k)' /\ pipe'[k].id = j /\ pipe'[k].ref = live'[j]
          BY <1>3, <1>4, <2>3, <2>4, <2>5
    <3>2. \A k \in New : Joins(k)' => pipe'[k].ref = live'[pipe'[k].id]
          BY <1>3, <2>4
    <3> QED BY <1>1, <1>2, <1>3, <2>3, <3>1, <3>2, QueueExtends
  <2> QED BY <2>6, <2>7 DEF SettleInv
<1>6. CASE ~resource
  <2>1. /\ UNCHANGED <<known, found, reported, pipe>> /\ Extends /\ New = {}
        BY <1>0, <1>1, <1>6, Basics, NothingAdded DEF New
  <2>2. ~synced /\ refreshing = {} BY <1>0, <1>6 DEF Hosted, KnownIsLive
  <2>3. ResourceInv'
        BY <1>0, <1>1, <1>2, <1>3, <1>4, <1>6, <2>1, <2>2
           DEF ResourceInv, Hosted, RefreshSees, CaughtUp, Threads
  <2>4. QueueInv'
        BY <1>1, <1>2, <1>3, <1>4, <2>1, QueueExtends
  <2> QED BY <2>3, <2>4 DEF SettleInv
<1> QED BY <1>5, <1>6

LEMMA LeaveSettles ==
    ASSUME MirrorInv, SettleInv, NEW i \in Ids, PlayerLeaves(i)
    PROVE  SettleInv'
<1>0. /\ MirrorTypeOK /\ KnownIsLive /\ ResourceTypeOK /\ Hosted /\ RefreshSees /\ CaughtUp
      /\ live \in [Ids -> Conns \cup {Nobody}] /\ pipe \in Seq(Reports) /\ Len(pipe) \in Nat
      BY Basics DEF MirrorInv, MirrorTypeOK, ReportsTypeOK, ResourceTypeOK, SettleInv, ResourceInv
<1>1. /\ live[i] # Nobody /\ live' = [live EXCEPT ![i] = Nobody]
      /\ IF resource
         THEN /\ pipe' = Append(pipe, Dropped(i, known[i]))
              /\ reported' = reported \ {known[i]}
              /\ known' = [known EXCEPT ![i] = Nobody]
              /\ found' = [found EXCEPT ![i] = FALSE]
         ELSE UNCHANGED <<known, found, reported, pipe>>
      /\ UNCHANGED <<server, idOf, resource, refreshing, toVisit, synced, failed>>
      BY DEF PlayerLeaves, Disconnect
<1>2. /\ UNCHANGED <<playerlist, online, clashed>>
      /\ missed' = IF resource /\ synced /\ ~clashed THEN missed ELSE missed \cup {live[i]}
      BY DEF PlayerLeaves, panelVars
<1>3. live'[i] = Nobody /\ \A j \in Ids \ {i} : live'[j] = live[j]
      BY <1>0, <1>1
<1>4. CASE resource
  <2> DEFINE d == Dropped(i, known[i])
  <2>1. /\ pipe' = Append(pipe, d) /\ reported' = reported \ {known[i]}
        /\ known' = [known EXCEPT ![i] = Nobody] /\ found' = [found EXCEPT ![i] = FALSE]
        BY <1>1, <1>4
  <2>2. known[i] \in {live[i], Nobody} /\ known[i] \in Conns \cup {Nobody}
        BY <1>0 DEF KnownIsLive, ResourceTypeOK
  <2>3. d \in Reports /\ d.event = "playerDropped" /\ d.id = i /\ d.ref = known[i]
        BY <2>2 DEF Dropped, Reports
  <2> HIDE DEF d
  <2>4. /\ pipe' \in Seq(Reports) /\ Len(pipe') = Len(pipe) + 1
        /\ \A k \in 1 .. Len(pipe) : pipe'[k] = pipe[k]
        /\ pipe'[Len(pipe) + 1] = d
        BY <1>0, <2>1, <2>3, AppendProperties
  <2>5. Extends /\ Len(pipe) + 1 \in New /\ \A k \in New : pipe'[k] = d
        BY <1>0, <2>4 DEF Extends, New
  <2>6. /\ known'[i] = Nobody /\ \A j \in Ids \ {i} : known'[j] = known[j] /\ found'[j] = found[j]
        BY <1>0, <2>1 DEF ResourceTypeOK
  <2>7. \A j \in Ids \ {i} : live[j] # Nobody => live[j] # known[i]
        BY <2>2, LiveApart
  <2>8. ResourceInv'
    <3>1. Hosted' BY <1>0, <1>1, <1>2, <2>1 DEF Hosted
    <3>2. RefreshSees' BY <1>0, <1>1, <1>2, <1>3, <2>6 DEF RefreshSees
    <3>3. CaughtUp' BY <1>0, <1>1, <1>2, <1>3, <2>1, <2>6, <2>7 DEF CaughtUp
    <3> QED BY <3>1, <3>2, <3>3 DEF ResourceInv
  <2>9. QueueInv'
    <3>1. \/ live[i] \in missed'
          \/ \E k \in New : Drops(k)' /\ pipe'[k].id = i /\ pipe'[k].ref = live[i]
      <4>1. CASE synced /\ ~clashed
        <5>1. known[i] = live[i] BY <1>0, <4>1 DEF CaughtUp
        <5> QED BY <2>3, <2>5, <5>1 DEF Drops
      <4>2. CASE ~(synced /\ ~clashed) BY <1>2, <4>2
      <4> QED BY <4>1, <4>2
    <3>2. \A k \in New : ~Joins(k)' BY <2>3, <2>5 DEF Joins
    <3> QED BY <1>1, <1>2, <1>3, <2>1, <2>5, <3>1, <3>2, QueueExtends
  <2> QED BY <2>8, <2>9 DEF SettleInv
<1>5. CASE ~resource
  <2>1. /\ UNCHANGED <<known, found, reported, pipe>> /\ Extends /\ New = {}
        BY <1>0, <1>1, <1>5, Basics, NothingAdded DEF New
  <2>2. ~synced /\ refreshing = {} BY <1>0, <1>5 DEF Hosted, KnownIsLive
  <2>3. ResourceInv'
        BY <1>0, <1>1, <1>2, <2>1, <2>2 DEF ResourceInv, Hosted, RefreshSees, CaughtUp
  <2>4. live[i] \in missed' BY <1>2, <1>5
  <2>5. QueueInv'
        BY <1>1, <1>2, <1>3, <2>1, <2>4, QueueExtends
  <2> QED BY <2>3, <2>5 DEF SettleInv
<1> QED BY <1>4, <1>5

LEMMA RefreshBeginsSettles ==
    ASSUME MirrorInv, SettleInv, NEW t \in Threads, RefreshStarts(t)
    PROVE  SettleInv'
<1> DEFINE players == {i \in Ids : live[i] # Nobody}
<1>0. /\ MirrorTypeOK /\ KnownIsLive /\ ResourceTypeOK /\ Hosted /\ RefreshSees /\ CaughtUp
      BY DEF MirrorInv, MirrorTypeOK, ReportsTypeOK, ResourceTypeOK, SettleInv, ResourceInv
<1>1. /\ resource /\ t \notin refreshing
      /\ UNCHANGED <<server, idOf, live, resource, reported, synced, failed, pipe>>
      BY DEF RefreshStarts, RefreshBegins
<1>2. PICK now \in SUBSET players :
          /\ refreshing' = refreshing \cup {t}
          /\ toVisit' = [toVisit EXCEPT ![t] = players \ now]
          /\ known' = Visited(now)
          /\ found' = VisitedFound(now)
      BY DEF RefreshStarts, RefreshBegins
<1>3. /\ UNCHANGED <<playerlist, online, missed>>
      /\ clashed' = (resource' /\ (clashed \/ refreshing' = Threads))
      BY DEF RefreshStarts, Unseen, panelVars
<1>4. \A i \in Ids :
          /\ known'[i] = IF i \in now /\ known[i] = Nobody THEN live[i] ELSE known[i]
          /\ i \in now => known'[i] = live[i] /\ (live[i] # Nobody => found'[i])
      BY <1>0, <1>2 DEF Visited, VisitedFound, KnownIsLive
<1>5. \A i \in Ids : live[i] # Nobody => i \in now \/ i \in toVisit'[t]
      BY <1>0, <1>2 DEF ResourceTypeOK
<1> HIDE DEF players
\* Alone: another thread in the middle of a refresh makes them clash.
<1>6. ~clashed' => ~clashed /\ refreshing' = {t}
  <2>1. ASSUME NEW s \in refreshing, s # t PROVE refreshing' = Threads
        BY <1>0, <1>2, <2>1 DEF ResourceTypeOK, Threads
  <2>2. ~clashed' => ~clashed /\ refreshing' # Threads BY <1>1, <1>3
  <2> QED BY <1>2, <2>1, <2>2
<1>7. Hosted' BY <1>0, <1>1, <1>3, <1>6 DEF Hosted, Threads
<1>8. RefreshSees' BY <1>1, <1>4, <1>5, <1>6 DEF RefreshSees
<1>9. CaughtUp' BY <1>0, <1>1, <1>4, <1>6 DEF CaughtUp
<1>10. QueueInv'
  <2>1. Extends /\ New = {} BY <1>0, <1>1, Basics, NothingAdded DEF New
  <2> QED BY <1>1, <1>3, <2>1, QueueExtends
<1> QED BY <1>7, <1>8, <1>9, <1>10 DEF SettleInv, ResourceInv

LEMMA RefreshEndsSettles ==
    ASSUME MirrorInv, SettleInv, NEW t \in Threads, RefreshReports(t)
    PROVE  SettleInv'
<1>0. /\ MirrorTypeOK /\ KnownIsLive /\ ResourceTypeOK /\ Hosted /\ RefreshSees /\ CaughtUp
      /\ live \in [Ids -> Conns \cup {Nobody}]
      BY Basics DEF MirrorInv, MirrorTypeOK, ReportsTypeOK, ResourceTypeOK, SettleInv, ResourceInv
<1>1. /\ t \in refreshing
      /\ refreshing' = refreshing \ {t}
      /\ known' = [i \in Ids |-> IF VisitedFound(toVisit[t])[i]
                                 THEN Visited(toVisit[t])[i] ELSE Nobody]
      /\ UNCHANGED <<server, idOf, live, resource>>
      /\ \/ synced' = TRUE /\ Report(Ids, known', TRUE)
         \/ UNCHANGED <<reported, synced, pipe>>
      BY DEF RefreshReports, RefreshEnds
<1>2. /\ UNCHANGED <<playerlist, online, missed>>
      /\ clashed' = (resource' /\ (clashed \/ refreshing' = Threads))
      BY DEF RefreshReports, Unseen, panelVars
<1>3. resource BY <1>0, <1>1 DEF KnownIsLive
<1>4. ~clashed' => ~clashed /\ refreshing' = {}
  <2>1. ASSUME NEW s \in refreshing, s # t PROVE refreshing = Threads
        BY <1>0, <1>1, <2>1 DEF ResourceTypeOK, Threads
  <2>2. ~clashed' => ~clashed BY <1>1, <1>2, <1>3
  <2> QED BY <1>0, <1>1, <2>1, <2>2 DEF Hosted
<1>5. toVisit[t] \in SUBSET Ids BY <1>0 DEF ResourceTypeOK
<1>6. /\ known' \in [Ids -> Conns \cup {Nobody}]
      /\ \A i \in Ids : known'[i] # Nobody => known'[i] = live[i]
      BY <1>0, <1>1, <1>3, <1>5, VisitTypes
\* The list is complete: who is connected was found, or is visited now.
<1>7. ASSUME ~clashed, NEW i \in Ids PROVE known'[i] = live[i]
  <2>1. CASE live[i] = Nobody BY <1>6, <2>1
  <2>2. CASE live[i] # Nobody
    <3>1. i \in toVisit[t] \/ (found[i] /\ known[i] = live[i])
          BY <1>0, <1>1, <1>7, <2>2 DEF RefreshSees
    <3>2. Visited(toVisit[t])[i] = live[i]
          BY <1>0, <2>2, <3>1 DEF Visited, KnownIsLive
    <3>3. VisitedFound(toVisit[t])[i] BY <2>2, <3>1, <3>2 DEF VisitedFound
    <3> QED BY <1>1, <3>2, <3>3
  <2> QED BY <2>1, <2>2
<1>8. RefreshSees' BY <1>4 DEF RefreshSees
<1>9. CASE synced' = TRUE /\ Report(Ids, known', TRUE)
  <2> DEFINE refs == known'
  <2>1. /\ Extends
        /\ \A k \in New : \E i \in Ids :
               refs[i] # Nobody /\ live'[i] # Nobody /\ pipe'[k] = Joining(i, refs[i], TRUE)
        /\ \A i \in Ids : refs[i] # Nobody /\ live'[i] # Nobody => refs[i] \in reported'
        /\ \A c \in reported' \ reported : \E k \in New :
               Joins(k)' /\ pipe'[k].ref = c /\ refs[pipe'[k].id] = c
        /\ reported \subseteq reported'
    <3>1. refs \in [Ids -> Conns \cup {Nobody}] /\ Report(Ids, refs, TRUE) BY <1>6, <1>9
    <3> HIDE DEF refs
    <3> QED BY <1>0, <3>1, ReportAll
  <2>2. \A k \in New : /\ pipe'[k].id \in Ids /\ pipe'[k].ref # Nobody
                       /\ pipe'[k].ref = live[pipe'[k].id]
    <3> SUFFICES ASSUME NEW k \in New
                 PROVE  /\ pipe'[k].id \in Ids /\ pipe'[k].ref # Nobody
                        /\ pipe'[k].ref = live[pipe'[k].id]
        OBVIOUS
    <3>1. PICK i \in Ids : refs[i] # Nobody /\ pipe'[k] = Joining(i, refs[i], TRUE)
          BY <2>1
    <3>2. refs[i] = live[i] BY <1>6, <3>1
    <3> HIDE DEF refs
    <3> QED BY <3>1, <3>2 DEF Joining
  <2>3. \A c \in reported' : c <= Len(idOf)
        BY <1>0, <2>1, <2>2, LiveApart DEF Hosted
  <2>4. Hosted' BY <1>0, <1>1, <1>2, <1>3, <1>4, <2>3 DEF Hosted, Threads
  <2>5. CaughtUp' BY <1>1, <1>4, <1>7, <2>1 DEF CaughtUp
  <2>6. \A i \in Ids : live'[i] # Nobody /\ live'[i] \in reported' =>
            \/ live'[i] = live[i] /\ live[i] \in reported
            \/ \E k \in New : Joins(k)' /\ pipe'[k].id = i /\ pipe'[k].ref = live'[i]
    <3> SUFFICES ASSUME NEW i \in Ids, live[i] # Nobody, live[i] \in reported' \ reported
                 PROVE  \E k \in New : Joins(k)' /\ pipe'[k].id = i /\ pipe'[k].ref = live[i]
        BY <1>1
    <3>1. PICK k \in New : Joins(k)' /\ pipe'[k].ref = live[i] BY <2>1
    <3>2. pipe'[k].id = i BY <2>2, <3>1, LiveApart
    <3> QED BY <3>1, <3>2
  <2>7. QueueInv' BY <1>1, <1>2, <2>1, <2>2, <2>6, QueueExtends
  <2> QED BY <1>8, <2>4, <2>5, <2>7 DEF SettleInv, ResourceInv
<1>10. CASE UNCHANGED <<reported, synced, pipe>>
  <2>1. Extends /\ New = {} BY <1>0, <1>10, Basics, NothingAdded DEF New
  <2>2. Hosted' BY <1>0, <1>1, <1>2, <1>3, <1>4, <1>10 DEF Hosted, Threads
  <2>3. CaughtUp' BY <1>0, <1>1, <1>4, <1>7, <1>10 DEF CaughtUp
  <2>4. QueueInv' BY <1>1, <1>2, <1>10, <2>1, QueueExtends
  <2> QED BY <1>8, <2>2, <2>3, <2>4 DEF SettleInv, ResourceInv
<1> QED BY <1>1, <1>9, <1>10

\* A refresh that fails removes nobody.
LEMMA RefreshErrsSettles ==
    ASSUME MirrorInv, SettleInv, NEW t \in Threads, RefreshFails(t)
    PROVE  SettleInv'
<1>0. /\ MirrorTypeOK /\ KnownIsLive /\ ResourceTypeOK /\ Hosted /\ RefreshSees /\ CaughtUp
      BY DEF MirrorInv, MirrorTypeOK, ReportsTypeOK, ResourceTypeOK, SettleInv, ResourceInv
<1>1. /\ t \in refreshing
      /\ refreshing' = refreshing \ {t}
      /\ UNCHANGED <<server, idOf, live, resource, reported, synced, pipe>>
      BY DEF RefreshFails, RefreshErrs
<1>2. PICK now \in SUBSET toVisit[t] : known' = Visited(now)
      BY DEF RefreshFails, RefreshErrs
<1>3. /\ UNCHANGED <<playerlist, online, missed>>
      /\ clashed' = (resource' /\ (clashed \/ refreshing' = Threads))
      BY DEF RefreshFails, Unseen, panelVars
<1>4. resource BY <1>0, <1>1 DEF KnownIsLive
<1>5. ~clashed' => ~clashed /\ refreshing' = {}
  <2>1. ASSUME NEW s \in refreshing, s # t PROVE refreshing = Threads
        BY <1>0, <1>1, <2>1 DEF ResourceTypeOK, Threads
  <2>2. ~clashed' => ~clashed BY <1>1, <1>3, <1>4
  <2> QED BY <1>0, <1>1, <2>1, <2>2 DEF Hosted
<1>6. \A i \in Ids : known[i] = live[i] => known'[i] = live[i]
      BY <1>2 DEF Visited
<1>7. Hosted' BY <1>0, <1>1, <1>3, <1>5 DEF Hosted, Threads
<1>8. RefreshSees' BY <1>5 DEF RefreshSees
<1>9. CaughtUp' BY <1>0, <1>1, <1>5, <1>6 DEF CaughtUp
<1>10. QueueInv'
  <2>1. Extends /\ New = {} BY <1>0, <1>1, Basics, NothingAdded DEF New
  <2> QED BY <1>1, <1>3, <2>1, QueueExtends
<1> QED BY <1>7, <1>8, <1>9, <1>10 DEF SettleInv, ResourceInv

LEMMA ServerStepSettles ==
    ASSUME MirrorInv, SettleInv, ServerStep
    PROVE  SettleInv'
<1>0. /\ MirrorTypeOK /\ KnownIsLive /\ Hosted /\ RefreshSees /\ CaughtUp
      BY DEF MirrorInv, SettleInv, ResourceInv
<1>1. /\ Unseen /\ UNCHANGED <<playerlist, online, missed>>
      /\ clashed' = (resource' /\ (clashed \/ refreshing' = Threads))
      BY DEF ServerStep, Unseen, panelVars
<1>2. CASE \E i \in Ids : Connect(i) BY <1>1, <1>2, ConnectSettles
<1>3. CASE ServerDies \/ ResourceStops
  <2>1. /\ FreshResource(FALSE) /\ resource' = FALSE /\ pipe' = pipe
        /\ \/ live' = NoneLive /\ server' = "ended"
           \/ live' = live /\ server' = server
        BY <1>3 DEF ServerDies, ServerGone, ResourceStops
  <2>2. refreshing' = {} /\ synced' = FALSE /\ reported' = {} BY <2>1, FreshIs
  <2>3. ResourceInv' BY <1>0, <1>1, <2>1, <2>2, FreshSettles DEF Hosted
  <2>4. Extends /\ New = {} BY <1>0, <2>1, Basics, NothingAdded DEF New
  <2>5. \A i \in Ids : live'[i] = live[i] \/ (live'[i] = Nobody /\ server' = "ended")
        BY <2>1 DEF NoneLive
  <2>6. server' # "ended" => server # "ended" BY <2>1
  <2>7. QueueInv' BY <1>1, <2>2, <2>4, <2>5, <2>6, QueueExtends
  <2> QED BY <2>3, <2>7 DEF SettleInv
<1>4. CASE ResourceStarts
  <2>1. /\ server = "running" /\ ~resource /\ resource' = TRUE
        /\ UNCHANGED <<server, idOf, live, pipe, known, found, reported, refreshing, toVisit, synced, failed>>
        BY <1>4 DEF ResourceStarts, resourceVars
  <2>2. refreshing = {} /\ ~synced BY <1>0, <2>1 DEF KnownIsLive, Hosted
  <2>3. ResourceInv'
        BY <1>0, <1>1, <2>1, <2>2 DEF ResourceInv, Hosted, RefreshSees, CaughtUp, Threads
  <2>4. Extends /\ New = {} BY <1>0, <2>1, Basics, NothingAdded DEF New
  <2>5. QueueInv' BY <1>1, <2>1, <2>4, QueueExtends
  <2> QED BY <2>3, <2>5 DEF SettleInv
<1> QED BY <1>2, <1>3, <1>4 DEF ServerStep

LEMMA SpawnSettles ==
    ASSUME MirrorInv, SettleInv, SpawnServer
    PROVE  SettleInv'
<1>1. /\ server = "none" /\ server' = "running" /\ FreshResource(FALSE)
      /\ UNCHANGED <<live, pipe, playerlist, online, missed>>
      BY DEF SpawnServer, ServerStarts, historyVars
<1>2. refreshing' = {} /\ synced' = FALSE /\ reported' = {} BY <1>1, FreshIs
<1>3. ResourceInv'
      BY <1>1, <1>2, FreshSettles DEF SettleInv, ResourceInv, Hosted
<1>4. Extends /\ New = {} BY <1>1, Basics, NothingAdded DEF MirrorInv, New
<1>5. QueueInv' BY <1>1, <1>2, <1>4, QueueExtends
<1> QED BY <1>3, <1>5 DEF SettleInv

LEMMA KillSettles ==
    ASSUME MirrorInv, SettleInv, KillServer
    PROVE  SettleInv'
<1>1. /\ resource' = FALSE /\ FreshResource(FALSE) /\ pipe' = <<>> /\ live' = NoneLive
      /\ online' = [i \in Ids |-> FALSE]
      BY DEF KillServer, ServerGone, HandleServerClose
<1>2. refreshing' = {} /\ synced' = FALSE /\ reported' = {} BY <1>1, FreshIs
<1>3. \A i \in Ids : ~online'[i] BY <1>1
<1>4. ResourceInv' BY <1>1, <1>2, <1>3, FreshSettles
<1>5. DOMAIN pipe' = {}
  <2>1. DOMAIN <<>> = {} OBVIOUS
  <2> QED BY <1>1, <2>1
<1>6. QueueInv' BY <1>2, <1>3, <1>5 DEF QueueInv, ReportedTold, EndsTold
<1> QED BY <1>4, <1>6 DEF SettleInv

\* What the panel makes of a report.
LEMMA HandledOutcome ==
    ASSUME MirrorInv, NEW r \in Reports, Handled(r)
    PROVE  /\ \A i \in Ids \ {r.id} : online'[i] = online[i] /\ playerlist'[i] = playerlist[i]
           /\ r.event = "playerJoining" => online'[r.id] /\ playerlist'[r.id] = r.ref
           /\ r.event = "playerDropped" =>
                  /\ playerlist' = playerlist
                  /\ online'[r.id] => online[r.id]
                  /\ online'[r.id] /\ playerlist[r.id] # Nobody => playerlist[r.id] # r.ref
                  /\ online[r.id] /\ playerlist[r.id] # r.ref => online'[r.id]
<1>0. /\ playerlist \in [Ids -> Conns \cup {Nobody}] /\ online \in [Ids -> BOOLEAN] /\ r.id \in Ids
      BY ReportFields DEF MirrorInv, MirrorTypeOK
<1>1. CASE r.event = "playerJoining"
  <2>1. HandleJoining(r) BY <1>1 DEF Handled, HandleServerEvents
  <2>2. CASE SameConnection(r) BY <1>1, <2>1, <2>2 DEF HandleJoining, SameConnection
  <2>3. CASE ~SameConnection(r)
    <3>1. /\ playerlist' = [playerlist EXCEPT ![r.id] = r.ref]
          /\ online' = [online EXCEPT ![r.id] = TRUE]
          BY <2>1, <2>3 DEF HandleJoining
    <3> QED BY <1>0, <1>1, <3>1
  <2> QED BY <2>2, <2>3
<1>2. CASE r.event = "playerDropped"
  <2>1. HandleDropped(r) BY <1>2 DEF Handled, HandleServerEvents
  <2>2. CASE StaleDrop(r) BY <1>2, <2>1, <2>2 DEF HandleDropped, StaleDrop
  <2>3. CASE ~StaleDrop(r)
    <3>1. online' = [online EXCEPT ![r.id] = FALSE] /\ playerlist' = playerlist
          BY <2>1, <2>3 DEF HandleDropped
    <3> QED BY <1>0, <1>2, <2>3, <3>1 DEF StaleDrop
  <2> QED BY <2>2, <2>3
<1>3. r.event \in {"playerJoining", "playerDropped"} BY ReportFields
<1> QED BY <1>1, <1>2, <1>3

\* The steps of the panel leave the resource alone.
LEMMA ResourceStays ==
    ASSUME ResourceInv, UNCHANGED <<server, idOf, live, resource, resourceVars, clashed>>,
           \A i \in Ids : online'[i] => playerlist'[i] # Nobody
    PROVE  ResourceInv'
BY DEF ResourceInv, Hosted, RefreshSees, CaughtUp, resourceVars

LEMMA HandledNamed ==
    ASSUME MirrorInv, SettleInv, NEW r \in Reports, Genuine(r), Handled(r)
    PROVE  ResourceInv'
<1>1. \A i \in Ids : online[i] => playerlist[i] # Nobody
      BY DEF SettleInv, ResourceInv, Hosted
<1>2. r.event \in {"playerJoining", "playerDropped"} /\ r.id \in Ids BY ReportFields
<1>3. r.event = "playerJoining" => r.ref # Nobody BY DEF Genuine
<1>4. \A i \in Ids : online'[i] => playerlist'[i] # Nobody
      BY <1>1, <1>2, <1>3, HandledOutcome
<1> QED BY <1>4, ResourceStays DEF SettleInv, Handled

LEMMA TailWas ==
    ASSUME NEW q \in Seq(Reports), q # <<>>
    PROVE  \A k \in DOMAIN q : k = 1 \/ (k - 1 \in DOMAIN Tail(q) /\ Tail(q)[k - 1] = q[k])
<1>1. Len(q) \in Nat \ {0} /\ DOMAIN q = 1 .. Len(q)
      OBVIOUS
<1>2. Len(Tail(q)) = Len(q) - 1 /\ Tail(q) \in Seq(Reports)
      BY HeadTailProperties
<1>3. DOMAIN Tail(q) = 1 .. Len(q) - 1 BY <1>2
<1>4. \A k \in 1 .. Len(q) - 1 : Tail(q)[k] = q[k + 1] BY HeadTailProperties, <1>2
<1>5. ASSUME NEW k \in DOMAIN q, k # 1
      PROVE  k - 1 \in DOMAIN Tail(q) /\ Tail(q)[k - 1] = q[k]
  <2>1. k \in Int /\ k - 1 \in 1 .. Len(q) - 1 /\ k - 1 + 1 = k BY <1>1, <1>5
  <2>2. Tail(q)[k - 1] = q[k - 1 + 1] BY <1>4, <2>1
  <2> QED BY <1>3, <2>1, <2>2
<1> QED BY <1>5

LEMMA ReadSettles ==
    ASSUME MirrorInv, SettleInv, ReadReport
    PROVE  SettleInv'
<1> DEFINE r == Head(pipe)
<1>0. /\ pipe \in Seq(Reports) /\ pipe # <<>> /\ pipe' = Tail(pipe)
      /\ Handled(r) /\ missed' = missed /\ UNCHANGED <<server, live, reported>>
      /\ [Next]_vars
      BY Basics DEF MirrorInv, ReadReport, Handled, resourceVars, historyVars, Next
<1>1. /\ r = pipe[1] /\ r \in Reports /\ 1 \in DOMAIN pipe
      /\ \A k \in DOMAIN pipe' : k + 1 \in DOMAIN pipe /\ pipe'[k] = pipe[k + 1] /\ k \in Nat
      /\ \A k \in DOMAIN pipe : k = 1 \/ (k - 1 \in DOMAIN pipe' /\ pipe'[k - 1] = pipe[k])
      /\ \A k \in DOMAIN pipe : k \in Int /\ k >= 1 /\ pipe[k] \in Reports /\ pipe[k].id \in Ids
      BY <1>0, TailIs, TailWas, Basics, ReportFields DEF MirrorInv
<1>2. Genuine(r) BY <1>1 DEF MirrorInv, PipeGenuine
<1>3. r.id \in Ids /\ r.event \in {"playerJoining", "playerDropped"} BY <1>1, ReportFields
<1> HIDE DEF r
<1>4. /\ \A i \in Ids \ {r.id} : online'[i] = online[i] /\ playerlist'[i] = playerlist[i]
      /\ r.event = "playerJoining" => online'[r.id] /\ playerlist'[r.id] = r.ref
      /\ r.event = "playerDropped" =>
             /\ playerlist' = playerlist
             /\ online'[r.id] => online[r.id]
             /\ online'[r.id] /\ playerlist[r.id] # Nobody => playerlist[r.id] # r.ref
      BY <1>0, <1>1, HandledOutcome
<1>5. ResourceInv' BY <1>0, <1>1, <1>2, HandledNamed
<1>6. ReportedTold'
  <2> SUFFICES ASSUME NEW i \in Ids, live[i] # Nobody, live[i] \in reported
               PROVE  Told(i)'
      BY <1>0 DEF ReportedTold
  <2>1. Told(i) BY DEF SettleInv, QueueInv, ReportedTold
  <2>2. CASE online[i] /\ playerlist[i] = live[i]
    <3>1. online'[i] /\ playerlist'[i] = live[i] BY <1>0, <2>2, KeptStep
    <3> QED BY <1>0, <3>1 DEF Told
  <2>3. CASE \E k \in DOMAIN pipe : Joins(k) /\ pipe[k].id = i /\ pipe[k].ref = live[i]
    <3>1. PICK k \in DOMAIN pipe : Joins(k) /\ pipe[k].id = i /\ pipe[k].ref = live[i]
          BY <2>3
    <3>2. CASE k = 1 BY <1>0, <1>1, <1>4, <3>1, <3>2 DEF Told, Joins
    <3>3. CASE k # 1
      <4>1. k - 1 \in DOMAIN pipe' /\ pipe'[k - 1] = pipe[k] BY <1>1, <3>3
      <4> QED BY <1>0, <3>1, <4>1 DEF Told, Joins
    <3> QED BY <3>2, <3>3
  <2> QED BY <2>1, <2>2, <2>3 DEF Told
\* The rest of the queue moves up.
<1>7. ASSUME NEW i \in Ids, NEW c, NEW j \in Nat, EndTold(i, c, j + 1)
      PROVE  EndTold(i, c, j)'
  <2>1. CASE c \in missed BY <1>0, <2>1 DEF EndTold
  <2>2. CASE \E k \in DOMAIN pipe : k > j + 1 /\ Drops(k) /\ pipe[k].id = i /\ pipe[k].ref = c
    <3>1. PICK k \in DOMAIN pipe : k > j + 1 /\ Drops(k) /\ pipe[k].id = i /\ pipe[k].ref = c
          BY <2>2
    <3>2. k # 1 /\ k - 1 > j BY <1>1, <3>1
    <3>3. k - 1 \in DOMAIN pipe' /\ pipe'[k - 1] = pipe[k] BY <1>1, <3>2
    <3> QED BY <3>1, <3>2, <3>3 DEF EndTold, Drops
  <2> QED BY <1>7, <2>1, <2>2 DEF EndTold
<1>8. EndsTold'
  <2> SUFFICES ASSUME server # "ended"
               PROVE  /\ \A i \in Ids : online'[i] /\ playerlist'[i] # live[i] =>
                             EndTold(i, playerlist[i], 0)'
                      /\ \A k \in DOMAIN pipe' : Joins(k)' /\ pipe'[k].ref # live[pipe'[k].id] =>
                             EndTold(pipe[k].id, pipe[k].ref, k)'
      BY <1>0 DEF EndsTold
  <2>1. ASSUME NEW i \in Ids, online'[i], playerlist'[i] # live[i]
        PROVE  EndTold(i, playerlist[i], 0)'
    <3> SUFFICES ASSUME NEW c, c = playerlist'[i] PROVE EndTold(i, c, 0)'
        BY DEF EndTold
    <3>1. CASE r.event = "playerJoining" /\ r.id = i
      <4>1. c = r.ref /\ Joins(1) /\ r.ref # live[i]
            BY <1>1, <1>4, <2>1, <3>1 DEF Joins
      <4>2. EndTold(i, c, 1)
            BY <1>1, <3>1, <4>1 DEF SettleInv, QueueInv, EndsTold
      <4> QED BY <1>7, <4>2
    <3>2. CASE ~(r.event = "playerJoining" /\ r.id = i)
      <4>1. playerlist[i] = c /\ online[i] BY <1>3, <1>4, <2>1, <3>2
      <4>2. c # Nobody BY <4>1 DEF SettleInv, ResourceInv, Hosted
      <4>3. EndTold(i, c, 0) BY <2>1, <4>1 DEF SettleInv, QueueInv, EndsTold
      <4>4. ~(Drops(1) /\ pipe[1].id = i /\ pipe[1].ref = c)
            BY <1>1, <1>4, <2>1, <4>1, <4>2 DEF Drops
      <4>5. EndTold(i, c, 1)
        <5>1. \A k \in DOMAIN pipe : k # 1 => k > 1 BY <1>1
        <5> QED BY <4>3, <4>4, <5>1 DEF EndTold
      <4> QED BY <1>7, <4>5
    <3> QED BY <3>1, <3>2
  <2>2. ASSUME NEW k \in DOMAIN pipe', Joins(k)', pipe'[k].ref # live[pipe'[k].id]
        PROVE  EndTold(pipe[k].id, pipe[k].ref, k)'
    <3>1. /\ k + 1 \in DOMAIN pipe /\ pipe'[k] = pipe[k + 1] /\ k \in Nat /\ Joins(k + 1)
          /\ pipe'[k].id \in Ids
          BY <1>1, <2>2 DEF Joins
    <3> SUFFICES ASSUME NEW i \in Ids, NEW c, i = pipe'[k].id, c = pipe'[k].ref
                 PROVE  EndTold(i, c, k)'
        BY <3>1 DEF EndTold
    <3>2. EndTold(i, c, k + 1)
          BY <2>2, <3>1 DEF SettleInv, QueueInv, EndsTold
    <3> QED BY <1>7, <3>1, <3>2
  <2> QED BY <2>1, <2>2
<1> QED BY <1>5, <1>6, <1>8 DEF SettleInv, QueueInv

LEMMA SameSettles ==
    ASSUME SettleInv, UNCHANGED mirrorVars
    PROVE  SettleInv'
<1>1. /\ UNCHANGED <<server, idOf, live, resource, resourceVars, pipe>>
      /\ UNCHANGED <<playerlist, online, missed, clashed>>
      BY DEF mirrorVars, reportVars, historyVars
<1>2. ResourceInv' BY <1>1, ResourceStays DEF SettleInv, ResourceInv, Hosted
<1>3. QueueInv'
      BY <1>1 DEF SettleInv, QueueInv, ReportedTold, EndsTold, Told, EndTold, Joins, Drops,
                  resourceVars
<1> QED BY <1>2, <1>3 DEF SettleInv

LEMMA SettleInit == Init => SettleInv
<1> SUFFICES ASSUME Init PROVE SettleInv
    OBVIOUS
<1>1. /\ resource = FALSE /\ synced = FALSE /\ refreshing = {} /\ reported = {}
      /\ pipe = <<>> /\ online = [i \in Ids |-> FALSE]
      BY DEF Init, ReportsInit
<1>2. DOMAIN pipe = {} BY <1>1
<1> QED BY <1>1, <1>2 DEF SettleInv, ResourceInv, QueueInv, Hosted, RefreshSees, CaughtUp,
                          ReportedTold, EndsTold, Threads

LEMMA SettleStays == MirrorInv /\ SettleInv /\ [Next]_vars => SettleInv'
<1> SUFFICES ASSUME MirrorInv, SettleInv, [Next]_vars PROVE SettleInv'
    OBVIOUS
<1>1. CASE UNCHANGED vars
      BY <1>1, SameSettles DEF vars, mirrorVars, panelVars
<1>2. CASE FlushBuffers \/ ClientConnects \/ ClientLeaves
      BY <1>2, SameSettles DEF FlushBuffers, ClientConnects, ClientLeaves, mirrorVars
<1>3. CASE Next /\ ~(FlushBuffers \/ ClientConnects \/ ClientLeaves)
      BY <1>3, ServerStepSettles, RefreshBeginsSettles, RefreshEndsSettles, RefreshErrsSettles, LeaveSettles,
         SpawnSettles, KillSettles, ReadSettles DEF Next
<1> QED BY <1>1, <1>2, <1>3

LEMMA SettleSafe == Spec => [](MirrorInv /\ SettleInv)
BY MirrorInit, MirrorStays, SettleInit, SettleStays, PTL DEF Spec

-----------------------------------------------------------------------------
(* The lists of the pages.  ProcessAll is a recursive function: what it     *)
(* computes is shown for the first event that would break it.               *)

\* Process, with the ids of the connections as they were at some time.
ProcessIn(ids, list, event) ==
    CASE event.type = "fullPlayerlist" -> NoView
      [] event.type = "playerJoining" -> [list EXCEPT ![event.ref] = @ + 1]
      [] event.type = "playerDropped" ->
             [c \in Conns |-> IF list[c] > 0 /\ ids[c] = ids[event.ref]
                              THEN 0 ELSE list[c]]

\* The lists after none, one, ... and m of the events.
IsRun(f, ids, list, events, m) ==
    f = [n \in 0 .. m |-> IF n = 0 THEN list ELSE ProcessIn(ids, f[n - 1], events[n])]

AllIn(ids, list, events) == (CHOOSE f : IsRun(f, ids, list, events, Len(events)))[Len(events)]

LEMMA PageIs == ProcessAll(view, outBuffer) = AllIn(idOf, view, outBuffer)
BY DEF ProcessAll, AllIn, IsRun, Process, ProcessIn

LEMMA RunIs ==
    ASSUME NEW f, NEW ids, NEW list, NEW events, NEW m \in Nat,
           IsRun(f, ids, list, events, m)
    PROVE  /\ f[0] = list
           /\ \A n \in 1 .. m : n - 1 \in 0 .. m /\ f[n] = ProcessIn(ids, f[n - 1], events[n])
<1> DEFINE F == [n \in 0 .. m |-> IF n = 0 THEN list ELSE ProcessIn(ids, f[n - 1], events[n])]
<1>1. f = F BY DEF IsRun
<1>2. 0 \in 0 .. m OBVIOUS
<1>3. F[0] = list BY <1>2
<1>4. ASSUME NEW n \in 1 .. m
      PROVE  n - 1 \in 0 .. m /\ F[n] = ProcessIn(ids, f[n - 1], events[n])
  <2>1. n \in 0 .. m /\ n # 0 /\ n - 1 \in 0 .. m OBVIOUS
  <2> QED BY <2>1
<1> HIDE DEF F
<1> QED BY <1>1, <1>3, <1>4

LEMMA RunExists ==
    ASSUME NEW ids, NEW list, NEW events, NEW len \in Nat
    PROVE  \E f : IsRun(f, ids, list, events, len)
<1> DEFINE Bad == {m \in Nat : ~ \E f : IsRun(f, ids, list, events, m)}
<1> SUFFICES ASSUME Bad # {} PROVE FALSE
    OBVIOUS
<1>1. PICK m \in Bad : \A y \in Bad : ~(<<y, m>> \in OpToRel(<, Nat))
      BY NatLessThanWellFounded, WFMin
<1>2. m \in Nat /\ ~ \E f : IsRun(f, ids, list, events, m)
      BY <1>1
<1>3. m # 0
  <2> DEFINE f == [n \in 0 .. 0 |-> list]
  <2>1. [n \in 0 .. 0 |-> IF n = 0 THEN list ELSE ProcessIn(ids, f[n - 1], events[n])] = f
        OBVIOUS
  <2> HIDE DEF f
  <2>2. IsRun(f, ids, list, events, 0) BY <2>1 DEF IsRun
  <2> QED BY <1>2, <2>2
<1>4. m - 1 \in Nat /\ m - 1 < m BY <1>2, <1>3
<1>5. m - 1 \notin Bad BY <1>1, <1>2, <1>4 DEF OpToRel
<1>6. PICK f : IsRun(f, ids, list, events, m - 1) BY <1>4, <1>5
<1> HIDE DEF Bad
<1> DEFINE G(h) == [n \in 0 .. m |-> IF n = 0 THEN list ELSE ProcessIn(ids, h[n - 1], events[n])]
<1>7. /\ f[0] = list
      /\ \A n \in 1 .. m - 1 : f[n] = ProcessIn(ids, f[n - 1], events[n])
      BY <1>4, <1>6, RunIs
<1>8. \A n \in 0 .. m - 1 : G(f)[n] = f[n]
  <2> SUFFICES ASSUME NEW n \in 0 .. m - 1 PROVE G(f)[n] = f[n]
      OBVIOUS
  <2>1. n \in 0 .. m /\ (n = 0 \/ n \in 1 .. m - 1) BY <1>2, <1>4
  <2>2. G(f)[n] = IF n = 0 THEN list ELSE ProcessIn(ids, f[n - 1], events[n]) BY <2>1
  <2> HIDE DEF G
  <2> QED BY <1>7, <2>1, <2>2
<1>9. \A n \in 0 .. m : n # 0 => n - 1 \in 0 .. m - 1 BY <1>2
<1>10. G(G(f)) = G(f)
  <2> DEFINE g == G(f)
  <2>1. \A n \in 0 .. m : n # 0 => g[n - 1] = f[n - 1] BY <1>8, <1>9
  <2> HIDE DEF g
  <2>2. G(g) = G(f) BY <2>1
  <2> QED BY <2>2 DEF g
<1>11. IsRun(G(f), ids, list, events, m) BY <1>10 DEF IsRun
<1> QED BY <1>2, <1>11

\* An event, and a list, that speak of the first connections only.
KnownEvent(event, top) ==
    event \in Events /\ (event.type # "fullPlayerlist" => event.ref \in 1 .. top)

KnownList(list, top) ==
    list \in [Conns -> Nat] /\ \A c \in Conns : list[c] > 0 => c <= top

\* The ids of the first connections.
SameIds(ids, ids2, top) == \A c \in 1 .. top : ids[c] = ids2[c]

LEMMA NoViewKnown == \A top \in Nat : KnownList(NoView, top)
BY DEF KnownList, NoView

LEMMA ProcessKnown ==
    ASSUME NEW ids, NEW ids2, NEW top \in Nat, SameIds(ids, ids2, top),
           NEW list, KnownList(list, top), NEW event, KnownEvent(event, top)
    PROVE  /\ KnownList(ProcessIn(ids, list, event), top)
           /\ ProcessIn(ids2, list, event) = ProcessIn(ids, list, event)
<1>1. event.type \in {"fullPlayerlist", "playerJoining", "playerDropped"}
      BY DEF KnownEvent, Events
<1>2. list \in [Conns -> Nat] /\ \A c \in Conns : list[c] > 0 => c \in 1 .. top
      BY ConnsAreNumbers DEF KnownList
<1>3. CASE event.type = "fullPlayerlist"
      BY <1>3, NoViewKnown DEF ProcessIn
<1>4. CASE event.type = "playerJoining"
  <2>1. event.ref \in Conns /\ event.ref <= top /\ event.ref \in 1 .. top
        BY <1>4, ReportsAssumption DEF KnownEvent, Events
  <2>2. ProcessIn(ids, list, event) = [list EXCEPT ![event.ref] = @ + 1]
        /\ ProcessIn(ids2, list, event) = [list EXCEPT ![event.ref] = @ + 1]
        BY <1>4 DEF ProcessIn
  <2>3. KnownList([list EXCEPT ![event.ref] = @ + 1], top)
        BY <1>2, <2>1 DEF KnownList
  <2> QED BY <2>2, <2>3
<1>5. CASE event.type = "playerDropped"
  <2>1. event.ref \in 1 .. top BY <1>5 DEF KnownEvent
  <2>2. \A c \in Conns : list[c] > 0 => (ids[c] = ids[event.ref] <=> ids2[c] = ids2[event.ref])
        BY <1>2, <2>1 DEF SameIds
  <2> DEFINE P(s) == [c \in Conns |-> IF list[c] > 0 /\ s[c] = s[event.ref] THEN 0 ELSE list[c]]
  <2>3. ProcessIn(ids, list, event) = P(ids) /\ ProcessIn(ids2, list, event) = P(ids2)
        BY <1>5 DEF ProcessIn
  <2>4. P(ids) = P(ids2) BY <2>2
  <2>5. KnownList(P(ids), top) BY <1>2 DEF KnownList
  <2> QED BY <2>3, <2>4, <2>5
<1> QED BY <1>1, <1>3, <1>4, <1>5

LEMMA RunsAgree ==
    ASSUME NEW ids, NEW ids2, NEW top \in Nat, SameIds(ids, ids2, top),
           NEW list, KnownList(list, top), NEW ev, NEW ev2, NEW len \in Nat, NEW len2 \in Nat,
           NEW f, IsRun(f, ids, list, ev, len), NEW g, IsRun(g, ids2, list, ev2, len2),
           NEW m \in Nat, m <= len, m <= len2,
           \A n \in 1 .. m : ev2[n] = ev[n] /\ KnownEvent(ev[n], top)
    PROVE  KnownList(f[m], top) /\ g[m] = f[m]
<1> DEFINE Bad == {k \in 0 .. m : ~(KnownList(f[k], top) /\ g[k] = f[k])}
<1> SUFFICES ASSUME Bad # {} PROVE FALSE
  <2>1. m \in 0 .. m OBVIOUS
  <2> QED BY <2>1
<1>0. Bad \subseteq Nat OBVIOUS
<1>1. PICK n \in Bad : \A y \in Bad : ~(<<y, n>> \in OpToRel(<, Nat))
      BY <1>0, NatLessThanWellFounded, WFMin
<1>2. n \in 0 .. m /\ n \in Nat /\ ~(KnownList(f[n], top) /\ g[n] = f[n])
      OBVIOUS
<1>3. f[0] = list /\ \A k \in 1 .. len : f[k] = ProcessIn(ids, f[k - 1], ev[k])
      BY RunIs
<1>4. g[0] = list /\ \A k \in 1 .. len2 : g[k] = ProcessIn(ids2, g[k - 1], ev2[k])
      BY RunIs
<1>5. n # 0 BY <1>2, <1>3, <1>4
<1>6. n - 1 \in 0 .. m /\ n - 1 \in Nat /\ n - 1 < n /\ n \in 1 .. m /\ n \in 1 .. len /\ n \in 1 .. len2
      BY <1>2, <1>5
<1>7. n - 1 \notin Bad BY <1>1, <1>2, <1>6 DEF OpToRel
<1>8. KnownList(f[n - 1], top) /\ g[n - 1] = f[n - 1] BY <1>6, <1>7
<1> HIDE DEF Bad
<1>9. f[n] = ProcessIn(ids, f[n - 1], ev[n]) /\ g[n] = ProcessIn(ids2, f[n - 1], ev[n])
      BY <1>3, <1>4, <1>6, <1>8
<1>10. KnownEvent(ev[n], top) BY <1>6
<1> QED BY <1>2, <1>8, <1>9, <1>10, ProcessKnown

LEMMA AllIsRun ==
    ASSUME NEW ids, NEW list, NEW events, Len(events) \in Nat
    PROVE  \E f : IsRun(f, ids, list, events, Len(events)) /\ AllIn(ids, list, events) = f[Len(events)]
<1>1. \E f : IsRun(f, ids, list, events, Len(events)) BY RunExists
<1> QED BY <1>1 DEF AllIn

\* The ids of later connections do not matter to it.
LEMMA AllKnown ==
    ASSUME NEW ids, NEW ids2, NEW top \in Nat, SameIds(ids, ids2, top),
           NEW list, KnownList(list, top), NEW events \in Seq(Events),
           \A n \in DOMAIN events : KnownEvent(events[n], top)
    PROVE  /\ KnownList(AllIn(ids, list, events), top)
           /\ AllIn(ids2, list, events) = AllIn(ids, list, events)
<1>1. Len(events) \in Nat /\ DOMAIN events = 1 .. Len(events) OBVIOUS
<1>2. PICK f : /\ IsRun(f, ids, list, events, Len(events))
               /\ AllIn(ids, list, events) = f[Len(events)]
      BY <1>1, AllIsRun
<1>3. PICK g : /\ IsRun(g, ids2, list, events, Len(events))
               /\ AllIn(ids2, list, events) = g[Len(events)]
      BY <1>1, AllIsRun
<1>4. KnownList(f[Len(events)], top) /\ g[Len(events)] = f[Len(events)]
      BY <1>1, <1>2, <1>3, RunsAgree
<1> QED BY <1>2, <1>3, <1>4

LEMMA AllNone ==
    ASSUME NEW ids, NEW list
    PROVE  AllIn(ids, list, <<>>) = list
<1>1. PICK f : IsRun(f, ids, list, <<>>, Len(<<>>)) /\ AllIn(ids, list, <<>>) = f[Len(<<>>)]
      BY AllIsRun
<1>2. Len(<<>>) = 0 OBVIOUS
<1>3. f[0] = list BY <1>1, <1>2, RunIs
<1> QED BY <1>1, <1>2, <1>3

\* One more event is one more step.
LEMMA AllAppend ==
    ASSUME NEW ids, NEW top \in Nat, NEW list, KnownList(list, top),
           NEW events \in Seq(Events), NEW event \in Events,
           \A n \in DOMAIN events : KnownEvent(events[n], top)
    PROVE  AllIn(ids, list, Append(events, event)) = ProcessIn(ids, AllIn(ids, list, events), event)
<1> DEFINE more == Append(events, event)
           len == Len(events)
<1>1. len \in Nat /\ DOMAIN events = 1 .. len /\ Len(more) = len + 1 OBVIOUS
<1>2. \A n \in 1 .. len : more[n] = events[n] OBVIOUS
<1>3. more[len + 1] = event OBVIOUS
<1>4. SameIds(ids, ids, top) BY DEF SameIds
<1> HIDE DEF more, len
<1>5. PICK f : IsRun(f, ids, list, events, len) /\ AllIn(ids, list, events) = f[len]
      BY <1>1, AllIsRun DEF len
<1>6. PICK g : IsRun(g, ids, list, more, len + 1) /\ AllIn(ids, list, more) = g[len + 1]
  <2>1. Len(more) \in Nat BY <1>1
  <2> QED BY <1>1, <2>1, AllIsRun
<1>7. g[len] = f[len]
  <2>1. len + 1 \in Nat /\ len <= len /\ len <= len + 1 BY <1>1
  <2>2. \A n \in 1 .. len : more[n] = events[n] /\ KnownEvent(events[n], top)
        BY <1>1, <1>2
  <2> QED BY <1>1, <1>4, <1>5, <1>6, <2>1, <2>2, RunsAgree
<1>8. g[len + 1] = ProcessIn(ids, g[len], more[len + 1])
  <2>1. PICK k \in Nat : k = len + 1 /\ k \in 1 .. k /\ k - 1 = len BY <1>1
  <2>2. IsRun(g, ids, list, more, k) BY <1>6, <2>1
  <2>3. \A n \in 1 .. k : g[n] = ProcessIn(ids, g[n - 1], more[n])
        BY <2>2, RunIs
  <2>4. g[k] = ProcessIn(ids, g[k - 1], more[k]) BY <2>1, <2>3
  <2> QED BY <2>1, <2>4
<1> QED BY <1>3, <1>5, <1>6, <1>7, <1>8 DEF more

-----------------------------------------------------------------------------
(* What the queue says of connections that follow each other with an id.    *)

\* The end of a connection is between two places in the queue, or could not be
\* reported.
OverBetween(i, c, j, k) ==
    \/ c \in missed
    \/ \E m \in DOMAIN pipe : j < m /\ m < k /\ Drops(m) /\ pipe[m].id = i /\ pipe[m].ref = c

\* A connection is replaced on the list by the next one only after its end.
Replaced ==
    /\ \A k \in DOMAIN pipe :
           Joins(k) /\ online[pipe[k].id] /\ playerlist[pipe[k].id] # pipe[k].ref =>
               OverBetween(pipe[k].id, playerlist[pipe[k].id], 0, k)
    /\ \A j, k \in DOMAIN pipe :
           /\ j < k /\ Joins(j) /\ Joins(k)
           /\ pipe[j].id = pipe[k].id /\ pipe[j].ref # pipe[k].ref
           => OverBetween(pipe[k].id, pipe[j].ref, j, k)

\* Without a server there are no reports, and nobody is online.
Unhosted == server = "none" => pipe = <<>> /\ \A i \in Ids : ~online[i]

FollowInv == Replaced /\ Unhosted

\* What the server, the players and the resource do beside the panel.
Abreast ==
    /\ Evolves /\ Extends
    /\ UNCHANGED <<playerlist, online, outBuffer, client, view>>
    /\ missed \subseteq missed'
    /\ server' = "none" => server = "none" /\ pipe' = pipe
    /\ \/ \A k \in New : ~Joins(k)'
       \/ server' # "ended" /\ \A k \in New : Joins(k)' /\ pipe'[k].ref = live'[pipe'[k].id]

\* The reports of new players and of the resync.
LEMMA ReportAbreast ==
    ASSUME MirrorTypeOK, NEW ids \in SUBSET Ids, NEW refs \in [Ids -> Conns \cup {Nobody}],
           NEW resync \in BOOLEAN, Report(ids, refs, resync),
           \A i \in ids : refs[i] # Nobody => refs[i] = live'[i]
    PROVE  Extends /\ \A k \in New : Joins(k)' /\ pipe'[k].ref = live'[pipe'[k].id]
<1>1. /\ Extends
      /\ \A k \in New : \E i \in ids :
             refs[i] # Nobody /\ live'[i] # Nobody /\ pipe'[k] = Joining(i, refs[i], resync)
      BY ReportAdds
<1>2. ASSUME NEW k \in New PROVE Joins(k)' /\ pipe'[k].ref = live'[pipe'[k].id]
  <2>1. PICK i \in ids : refs[i] # Nobody /\ pipe'[k] = Joining(i, refs[i], resync)
        BY <1>1
  <2> QED BY <2>1 DEF Joins, Joining
<1> QED BY <1>1, <1>2

LEMMA UnseenBeside ==
    ASSUME Unseen
    PROVE  UNCHANGED <<playerlist, online, outBuffer, client, view, missed>>
BY DEF Unseen, panelVars

LEMMA SamePipe ==
    ASSUME MirrorTypeOK, pipe' = pipe
    PROVE  Extends /\ New = {}
BY Basics, NothingAdded DEF New

LEMMA ConnectAbreast ==
    ASSUME MirrorInv, SettleInv, NEW i \in Ids, Connect(i), Unseen
    PROVE  Abreast
<1> DEFINE c == Len(idOf) + 1
<1>0. /\ MirrorTypeOK /\ idOf \in Seq(Ids) /\ Len(idOf) \in Nat /\ MaxConns \in Nat
      /\ live \in [Ids -> Conns \cup {Nobody}] /\ known \in [Ids -> Conns \cup {Nobody}]
      BY Basics DEF MirrorInv, MirrorTypeOK, ReportsTypeOK
<1>1. /\ server = "running" /\ c <= MaxConns
      /\ idOf' = Append(idOf, i) /\ live' = [live EXCEPT ![i] = c]
      /\ \/ known' = [known EXCEPT ![i] = c] /\ Report({i}, known', FALSE)
         \/ pipe' = pipe
      /\ server' = server
      BY DEF Connect
<1>2. c \in Conns /\ c > Len(idOf) BY <1>0, <1>1, ReportsAssumption DEF Conns
<1>3. /\ live'[i] = c /\ \A j \in Ids \ {i} : live'[j] = live[j]
      /\ live' \in [Ids -> Conns \cup {Nobody}]
      BY <1>0, <1>1, <1>2
<1>4. /\ idOf' \in Seq(Ids) /\ Len(idOf') = c /\ idOf'[c] = i
      /\ \A k \in 1 .. Len(idOf) : idOf'[k] = idOf[k]
      BY <1>0, <1>1
<1>5. Evolves
  <2>1. \A j \in Ids : \/ live'[j] \in {live[j], Nobody}
                       \/ live'[j] > Len(idOf) /\ live'[j] <= Len(idOf') /\ idOf'[live'[j]] = j
        BY <1>2, <1>3, <1>4
  <2> QED BY <1>0, <1>1, <1>3, <1>4, <2>1 DEF Evolves
<1> HIDE DEF c
<1>6. CASE known' = [known EXCEPT ![i] = c] /\ Report({i}, known', FALSE)
  <2> DEFINE refs == known'
  <2>1. /\ refs \in [Ids -> Conns \cup {Nobody}] /\ refs[i] = c /\ Report({i}, refs, FALSE)
        /\ {i} \in SUBSET Ids /\ FALSE \in BOOLEAN
        BY <1>0, <1>2, <1>6
  <2> HIDE DEF refs
  <2>2. \A j \in {i} : refs[j] # Nobody => refs[j] = live'[j] BY <1>3, <2>1
  <2>3. Extends /\ \A k \in New : Joins(k)' /\ pipe'[k].ref = live'[pipe'[k].id]
        BY <1>0, <2>1, <2>2, ReportAbreast
  <2> QED BY <1>1, <1>5, <2>3, UnseenBeside DEF Abreast
<1>7. CASE pipe' = pipe
      BY <1>0, <1>1, <1>5, <1>7, SamePipe, UnseenBeside DEF Abreast
<1> QED BY <1>1, <1>6, <1>7

LEMMA LeaveAbreast ==
    ASSUME MirrorInv, SettleInv, NEW i \in Ids, PlayerLeaves(i)
    PROVE  Abreast
<1>0. /\ MirrorTypeOK /\ live \in [Ids -> Conns \cup {Nobody}]
      /\ known \in [Ids -> Conns \cup {Nobody}]
      /\ pipe \in Seq(Reports) /\ Len(pipe) \in Nat
      /\ idOf \in Seq(Ids) /\ Len(idOf) \in Nat /\ Len(idOf) <= MaxConns
      BY Basics DEF MirrorInv, MirrorTypeOK, ReportsTypeOK
<1>1. /\ live' = [live EXCEPT ![i] = Nobody]
      /\ IF resource THEN pipe' = Append(pipe, Dropped(i, known[i])) ELSE pipe' = pipe
      /\ UNCHANGED <<server, idOf>>
      /\ UNCHANGED <<playerlist, online, outBuffer, client, view>>
      /\ missed \subseteq missed'
      BY DEF PlayerLeaves, Disconnect, panelVars
<1>2. /\ live'[i] = Nobody /\ \A j \in Ids \ {i} : live'[j] = live[j]
      /\ live' \in [Ids -> Conns \cup {Nobody}]
      BY <1>0, <1>1
<1>3. Evolves BY <1>0, <1>1, <1>2 DEF Evolves
<1>4. CASE resource
  <2> DEFINE d == Dropped(i, known[i])
  <2>1. d \in Reports /\ d.event = "playerDropped" BY <1>0 DEF Dropped, Reports
  <2> HIDE DEF d
  <2>2. /\ pipe' \in Seq(Reports) /\ Len(pipe') = Len(pipe) + 1
        /\ \A k \in 1 .. Len(pipe) : pipe'[k] = pipe[k]
        /\ pipe'[Len(pipe) + 1] = d
    <3>1. pipe' = Append(pipe, d) BY <1>1, <1>4 DEF d
    <3> QED BY <1>0, <2>1, <3>1, AppendProperties
  <2>3. Extends BY <1>0, <2>2 DEF Extends
  <2>4. \A k \in New : ~Joins(k)' BY <1>0, <2>1, <2>2 DEF New, Joins
  <2>5. server' # "none" BY <1>1, <1>4 DEF SettleInv, ResourceInv, Hosted
  <2> QED BY <1>1, <1>3, <2>3, <2>4, <2>5 DEF Abreast
<1>5. CASE ~resource
      BY <1>0, <1>1, <1>3, <1>5, SamePipe DEF Abreast
<1> QED BY <1>4, <1>5

LEMMA RefreshAbreast ==
    ASSUME MirrorInv, SettleInv, NEW t \in Threads,
           RefreshStarts(t) \/ RefreshReports(t) \/ RefreshFails(t)
    PROVE  Abreast
<1>0. /\ MirrorTypeOK /\ toVisit \in [Threads -> SUBSET Ids]
      BY DEF MirrorInv, MirrorTypeOK, ReportsTypeOK
<1>1. /\ UNCHANGED <<server, idOf, live, resource>>
      /\ UNCHANGED <<playerlist, online, outBuffer, client, view, missed>>
      BY UnseenBeside DEF RefreshStarts, RefreshReports, RefreshFails, RefreshBegins, RefreshEnds,
                          RefreshErrs
<1>2. Evolves BY <1>0, <1>1, NobodyNew
<1>3. CASE pipe' = pipe BY <1>0, <1>1, <1>2, <1>3, SamePipe DEF Abreast
<1>4. CASE RefreshReports(t) /\ Report(Ids, known', TRUE)
  <2>1. /\ t \in refreshing
        /\ known' = [i \in Ids |-> IF VisitedFound(toVisit[t])[i]
                                   THEN Visited(toVisit[t])[i] ELSE Nobody]
        BY <1>4 DEF RefreshReports, RefreshEnds
  <2>2. resource /\ server = "running"
        BY <2>1 DEF MirrorInv, KnownIsLive, SettleInv, ResourceInv, Hosted
  <2> DEFINE refs == known'
  <2>3. /\ refs \in [Ids -> Conns \cup {Nobody}] /\ \A i \in Ids : refs[i] # Nobody => refs[i] = live[i]
        /\ Report(Ids, refs, TRUE)
    <3>1. /\ ResourceTypeOK /\ KnownIsLive /\ toVisit[t] \in SUBSET Ids
          BY <1>0 DEF MirrorInv, MirrorTypeOK, ReportsTypeOK, ResourceTypeOK
    <3> QED BY <1>0, <1>4, <2>1, <2>2, <3>1, VisitTypes
  <2> HIDE DEF refs
  <2>4. Extends /\ \A k \in New : Joins(k)' /\ pipe'[k].ref = live'[pipe'[k].id]
        BY <1>0, <1>1, <2>3, ReportAbreast
  <2> QED BY <1>1, <1>2, <2>2, <2>4 DEF Abreast
<1> QED BY <1>3, <1>4 DEF RefreshStarts, RefreshReports, RefreshFails, RefreshBegins, RefreshEnds,
                          RefreshErrs

LEMMA StepsAbreast ==
    ASSUME MirrorInv, SettleInv,
           \/ ServerStep
           \/ \E t \in Threads : RefreshStarts(t) \/ RefreshReports(t) \/ RefreshFails(t)
           \/ \E i \in Ids : PlayerLeaves(i)
    PROVE  Abreast
<1>1. CASE ServerStep
  <2>1. Unseen BY <1>1 DEF ServerStep
  <2>2. CASE \E i \in Ids : Connect(i) BY <2>1, <2>2, ConnectAbreast
  <2>3. CASE ServerDies \/ ResourceStops \/ ResourceStarts
    <3>1. /\ live' \in {live, NoneLive} /\ idOf' = idOf /\ pipe' = pipe
          /\ server' \in {server, "ended"}
          BY <2>3 DEF ServerDies, ServerGone, ResourceStops, ResourceStarts
    <3>2. MirrorTypeOK BY DEF MirrorInv
    <3>3. Evolves /\ Extends /\ New = {} BY <3>1, <3>2, NobodyNew, SamePipe
    <3> QED BY <2>1, <3>1, <3>3, UnseenBeside DEF Abreast
  <2> QED BY <1>1, <2>2, <2>3 DEF ServerStep
<1> QED BY <1>1, RefreshAbreast, LeaveAbreast

LEMMA AbreastFollows ==
    ASSUME MirrorInv, SettleInv', FollowInv, Abreast
    PROVE  FollowInv'
<1>0. MirrorTypeOK BY DEF MirrorInv
<1>1. /\ Len(pipe) \in Nat /\ Len(pipe') \in Nat /\ Len(pipe') >= Len(pipe)
      /\ DOMAIN pipe = 1 .. Len(pipe) /\ DOMAIN pipe' = 1 .. Len(pipe')
      /\ \A k \in DOMAIN pipe : k \in DOMAIN pipe' /\ pipe'[k] = pipe[k] /\ k \in Int
      /\ \A k \in DOMAIN pipe' : pipe'[k] \in Reports /\ pipe'[k].id \in Ids /\ k \in Int /\ k >= 1
      BY <1>0, Basics, ReportFields DEF Abreast, Extends
<1>2. /\ \A k \in DOMAIN pipe' : k \in DOMAIN pipe \/ k \in New
      /\ \A k \in New : k \in DOMAIN pipe' /\ \A j \in DOMAIN pipe : k > j
      BY <1>1 DEF New
<1>3. UNCHANGED <<playerlist, online>> /\ missed \subseteq missed'
      BY DEF Abreast
\* What was between two old reports still is.
<1>4. ASSUME NEW i, NEW c, NEW j, NEW k, OverBetween(i, c, j, k)
      PROVE  OverBetween(i, c, j, k)'
      BY <1>1, <1>3, <1>4 DEF OverBetween, Drops
\* The end of what a new join replaces is on its way before it.
<1>5. ASSUME NEW k \in New, Joins(k)', NEW i \in Ids, i = pipe'[k].id, NEW c, NEW j \in Nat,
             EndTold(i, c, j)'
      PROVE  OverBetween(i, c, j, k)'
  <2>1. CASE c \in missed' BY <2>1 DEF OverBetween
  <2>2. CASE c \notin missed'
    <3>1. PICK m \in DOMAIN pipe' : m > j /\ Drops(m)' /\ pipe'[m].id = i /\ pipe'[m].ref = c
          BY <1>5, <2>2 DEF EndTold
    <3>2. m \notin New BY <1>5, <3>1 DEF Abreast, Joins, Drops
    <3>3. m < k BY <1>1, <1>2, <3>1, <3>2
    <3> QED BY <1>1, <3>1, <3>3 DEF OverBetween
  <2> QED BY <2>1, <2>2
<1>6. ASSUME NEW k \in New, Joins(k)'
      PROVE  /\ server' # "ended" /\ pipe'[k].ref = live'[pipe'[k].id]
             /\ k \in DOMAIN pipe' /\ pipe'[k].id \in Ids
      BY <1>1, <1>2, <1>6 DEF Abreast
<1>7. Replaced'
  <2> SUFFICES /\ \A k \in DOMAIN pipe' :
                      Joins(k)' /\ online[pipe'[k].id] /\ playerlist[pipe'[k].id] # pipe'[k].ref =>
                          OverBetween(pipe[k].id, playerlist[pipe[k].id], 0, k)'
               /\ \A j, k \in DOMAIN pipe' :
                      /\ j < k /\ Joins(j)' /\ Joins(k)'
                      /\ pipe'[j].id = pipe'[k].id /\ pipe'[j].ref # pipe'[k].ref
                      => OverBetween(pipe[k].id, pipe[j].ref, j, k)'
      BY <1>3 DEF Replaced
  <2>1. ASSUME NEW k \in DOMAIN pipe', Joins(k)', NEW i \in Ids, i = pipe'[k].id, online[i],
               NEW c, c = playerlist[i], c # pipe'[k].ref
        PROVE  OverBetween(i, c, 0, k)'
    <3>1. CASE k \in DOMAIN pipe
      <4>1. pipe'[k] = pipe[k] /\ Joins(k) BY <1>1, <2>1, <3>1 DEF Joins
      <4>2. OverBetween(i, c, 0, k) BY <2>1, <3>1, <4>1 DEF FollowInv, Replaced
      <4> QED BY <1>4, <4>2
    <3>2. CASE k \in New
      <4>1. server' # "ended" /\ c # live'[i] BY <1>6, <2>1, <3>2
      <4>2. online'[i] /\ playerlist'[i] = c BY <1>3, <2>1
      <4>3. EndTold(i, playerlist[i], 0)' BY <2>1, <4>1, <4>2 DEF SettleInv, QueueInv, EndsTold
      <4>4. EndTold(i, c, 0)' BY <4>2, <4>3 DEF EndTold
      <4> QED BY <1>5, <2>1, <3>2, <4>4
    <3> QED BY <1>2, <3>1, <3>2
  <2>2. ASSUME NEW j \in DOMAIN pipe', NEW k \in DOMAIN pipe', j < k, Joins(j)', Joins(k)',
               NEW i \in Ids, i = pipe'[k].id, i = pipe'[j].id,
               NEW c, c = pipe'[j].ref, c # pipe'[k].ref
        PROVE  OverBetween(i, c, j, k)'
    <3>1. CASE k \in DOMAIN pipe
      <4>1. j \in DOMAIN pipe BY <1>1, <2>2, <3>1
      <4>2. pipe'[k] = pipe[k] /\ pipe'[j] = pipe[j] /\ Joins(k) /\ Joins(j)
            BY <1>1, <2>2, <3>1, <4>1 DEF Joins
      <4>3. OverBetween(i, c, j, k) BY <2>2, <3>1, <4>1, <4>2 DEF FollowInv, Replaced
      <4> QED BY <1>4, <4>3
    <3>2. CASE k \in New
      <4>1. server' # "ended" /\ c # live'[i] BY <1>6, <2>2, <3>2
      <4>2. EndTold(pipe[j].id, pipe[j].ref, j)'
            BY <2>2, <4>1 DEF SettleInv, QueueInv, EndsTold
      <4>3. EndTold(i, c, j)' BY <2>2, <4>2 DEF EndTold
      <4>4. j \in Nat BY <1>1
      <4> QED BY <1>5, <2>2, <3>2, <4>3, <4>4
    <3> QED BY <1>2, <3>1, <3>2
  <2>3. ASSUME NEW k \in DOMAIN pipe', Joins(k)', online[pipe'[k].id], playerlist[pipe'[k].id] # pipe'[k].ref
        PROVE  OverBetween(pipe[k].id, playerlist[pipe[k].id], 0, k)'
    <3>1. PICK i \in Ids : i = pipe'[k].id BY <1>1
    <3>2. PICK c : c = playerlist[i] OBVIOUS
    <3>3. OverBetween(i, c, 0, k)' BY <2>1, <2>3, <3>1, <3>2
    <3> QED BY <1>3, <3>1, <3>2, <3>3 DEF OverBetween
  <2>4. ASSUME NEW j \in DOMAIN pipe', NEW k \in DOMAIN pipe', j < k, Joins(j)', Joins(k)',
               pipe'[j].id = pipe'[k].id, pipe'[j].ref # pipe'[k].ref
        PROVE  OverBetween(pipe[k].id, pipe[j].ref, j, k)'
    <3>1. PICK i \in Ids : i = pipe'[k].id BY <1>1
    <3>2. PICK c : c = pipe'[j].ref OBVIOUS
    <3>3. OverBetween(i, c, j, k)' BY <2>2, <2>4, <3>1, <3>2
    <3> QED BY <3>1, <3>2, <3>3 DEF OverBetween
  <2> QED BY <2>3, <2>4
<1>8. Unhosted' BY <1>3 DEF FollowInv, Unhosted, Abreast
<1> QED BY <1>7, <1>8 DEF FollowInv

LEMMA ReadFollows ==
    ASSUME MirrorInv, SettleInv, FollowInv, ReadReport
    PROVE  FollowInv'
<1> DEFINE r == Head(pipe)
<1>0. /\ pipe \in Seq(Reports) /\ pipe # <<>> /\ pipe' = Tail(pipe)
      /\ Handled(r) /\ missed' = missed /\ server' = server
      BY Basics DEF MirrorInv, ReadReport, Handled, resourceVars, historyVars
<1>1. /\ r = pipe[1] /\ r \in Reports /\ 1 \in DOMAIN pipe
      /\ \A k \in DOMAIN pipe' : k + 1 \in DOMAIN pipe /\ pipe'[k] = pipe[k + 1] /\ k \in Nat /\ k >= 1
      /\ \A k \in DOMAIN pipe : k = 1 \/ (k - 1 \in DOMAIN pipe' /\ pipe'[k - 1] = pipe[k])
      /\ \A k \in DOMAIN pipe : k \in Int /\ k >= 1 /\ pipe[k] \in Reports /\ pipe[k].id \in Ids
  <2>1. DOMAIN pipe = 1 .. Len(pipe) /\ Len(pipe) \in Nat /\ DOMAIN pipe' = 1 .. Len(pipe) - 1
        BY <1>0
  <2> QED BY <1>0, <2>1, TailIs, TailWas, Basics, ReportFields DEF MirrorInv
<1>2. r.id \in Ids /\ r.event \in {"playerJoining", "playerDropped"} BY <1>1, ReportFields
<1> HIDE DEF r
<1>3. /\ \A i \in Ids \ {r.id} : online'[i] = online[i] /\ playerlist'[i] = playerlist[i]
      /\ r.event = "playerJoining" => online'[r.id] /\ playerlist'[r.id] = r.ref
      /\ r.event = "playerDropped" =>
             /\ playerlist' = playerlist
             /\ online'[r.id] => online[r.id]
             /\ online'[r.id] /\ playerlist[r.id] # Nobody => playerlist[r.id] # r.ref
      BY <1>0, <1>1, HandledOutcome
\* The rest of the queue moves up.
<1>4. ASSUME NEW i, NEW c, NEW j \in Nat, NEW k \in Nat, OverBetween(i, c, j + 1, k + 1)
      PROVE  OverBetween(i, c, j, k)'
  <2>1. CASE c \in missed BY <1>0, <2>1 DEF OverBetween
  <2>2. CASE c \notin missed
    <3>1. PICK m \in DOMAIN pipe :
              j + 1 < m /\ m < k + 1 /\ Drops(m) /\ pipe[m].id = i /\ pipe[m].ref = c
          BY <1>4, <2>2 DEF OverBetween
    <3>2. m # 1 /\ j < m - 1 /\ m - 1 < k BY <1>1, <3>1
    <3>3. m - 1 \in DOMAIN pipe' /\ pipe'[m - 1] = pipe[m] BY <1>1, <3>2
    <3> QED BY <3>1, <3>2, <3>3 DEF OverBetween, Drops
  <2> QED BY <2>1, <2>2
<1>5. Replaced'
  <2> SUFFICES /\ \A k \in DOMAIN pipe' :
                      Joins(k)' /\ online'[pipe'[k].id] /\ playerlist'[pipe'[k].id] # pipe'[k].ref =>
                          OverBetween(pipe[k].id, playerlist[pipe[k].id], 0, k)'
               /\ \A j, k \in DOMAIN pipe' :
                      /\ j < k /\ Joins(j)' /\ Joins(k)'
                      /\ pipe'[j].id = pipe'[k].id /\ pipe'[j].ref # pipe'[k].ref
                      => OverBetween(pipe[k].id, pipe[j].ref, j, k)'
      BY <1>0 DEF Replaced
  <2>1. ASSUME NEW k \in DOMAIN pipe', Joins(k)', NEW i \in Ids, i = pipe'[k].id, online'[i],
               NEW c, c = playerlist'[i], c # pipe'[k].ref
        PROVE  OverBetween(i, c, 0, k)'
    <3>0. k + 1 \in DOMAIN pipe /\ pipe'[k] = pipe[k + 1] /\ k \in Nat /\ k >= 1 /\ Joins(k + 1)
          /\ 1 < k + 1 /\ 0 + 1 = 1
          BY <1>1, <2>1 DEF Joins
    <3>1. CASE r.event = "playerJoining" /\ r.id = i
      <4>1. c = pipe[1].ref /\ Joins(1) /\ pipe[1].id = i BY <1>1, <1>3, <2>1, <3>1 DEF Joins
      <4>2. OverBetween(i, c, 1, k + 1)
            BY <1>1, <2>1, <3>0, <4>1 DEF FollowInv, Replaced
      <4> QED BY <1>4, <3>0, <4>2
    <3>2. CASE ~(r.event = "playerJoining" /\ r.id = i)
      <4>1. playerlist[i] = c /\ online[i] BY <1>2, <1>3, <2>1, <3>2
      <4>2. c # Nobody BY <4>1 DEF SettleInv, ResourceInv, Hosted
      <4>3. OverBetween(i, c, 0, k + 1)
            BY <2>1, <3>0, <4>1 DEF FollowInv, Replaced
      <4>4. ~(Drops(1) /\ pipe[1].id = i /\ pipe[1].ref = c)
            BY <1>1, <1>3, <2>1, <4>1, <4>2 DEF Drops
      <4>5. OverBetween(i, c, 1, k + 1)
        <5>1. \A m \in DOMAIN pipe : m # 1 => 1 < m BY <1>1
        <5> QED BY <4>3, <4>4, <5>1 DEF OverBetween
      <4> QED BY <1>4, <3>0, <4>5
    <3> QED BY <3>1, <3>2
  <2>2. ASSUME NEW j \in DOMAIN pipe', NEW k \in DOMAIN pipe', j < k, Joins(j)', Joins(k)',
               NEW i \in Ids, i = pipe'[k].id, i = pipe'[j].id,
               NEW c, c = pipe'[j].ref, c # pipe'[k].ref
        PROVE  OverBetween(i, c, j, k)'
    <3>1. /\ k + 1 \in DOMAIN pipe /\ pipe'[k] = pipe[k + 1] /\ k \in Nat /\ Joins(k + 1)
          /\ j + 1 \in DOMAIN pipe /\ pipe'[j] = pipe[j + 1] /\ j \in Nat /\ Joins(j + 1)
          /\ j + 1 < k + 1
          BY <1>1, <2>2 DEF Joins
    <3>2. OverBetween(i, c, j + 1, k + 1) BY <2>2, <3>1 DEF FollowInv, Replaced
    <3> QED BY <1>4, <3>1, <3>2
  <2>3. ASSUME NEW k \in DOMAIN pipe', Joins(k)', online'[pipe'[k].id], playerlist'[pipe'[k].id] # pipe'[k].ref
        PROVE  OverBetween(pipe[k].id, playerlist[pipe[k].id], 0, k)'
    <3>1. PICK i \in Ids : i = pipe'[k].id BY <1>1
    <3>2. PICK c : c = playerlist'[i] OBVIOUS
    <3>3. OverBetween(i, c, 0, k)' BY <2>1, <2>3, <3>1, <3>2
    <3> QED BY <3>1, <3>2, <3>3 DEF OverBetween
  <2>4. ASSUME NEW j \in DOMAIN pipe', NEW k \in DOMAIN pipe', j < k, Joins(j)', Joins(k)',
               pipe'[j].id = pipe'[k].id, pipe'[j].ref # pipe'[k].ref
        PROVE  OverBetween(pipe[k].id, pipe[j].ref, j, k)'
    <3>1. PICK i \in Ids : i = pipe'[k].id BY <1>1
    <3>2. PICK c : c = pipe'[j].ref OBVIOUS
    <3>3. OverBetween(i, c, j, k)' BY <2>2, <2>4, <3>1, <3>2
    <3> QED BY <3>1, <3>2, <3>3 DEF OverBetween
  <2> QED BY <2>3, <2>4
<1>6. Unhosted' BY <1>0 DEF FollowInv, Unhosted
<1> QED BY <1>5, <1>6 DEF FollowInv

LEMMA FollowInit == Init => FollowInv
<1> SUFFICES ASSUME Init PROVE FollowInv
    OBVIOUS
<1>1. pipe = <<>> /\ online = [i \in Ids |-> FALSE] BY DEF Init, ReportsInit
<1>2. DOMAIN pipe = {} BY <1>1
<1> QED BY <1>1, <1>2 DEF FollowInv, Replaced, Unhosted

LEMMA FollowStays ==
    ASSUME MirrorInv, SettleInv, SettleInv', FollowInv, [Next]_vars
    PROVE  FollowInv'
<1>1. CASE UNCHANGED <<server, pipe, playerlist, online, missed>>
      BY <1>1 DEF FollowInv, Replaced, Unhosted, OverBetween, Joins, Drops
<1>2. CASE FlushBuffers \/ ClientConnects \/ ClientLeaves \/ UNCHANGED vars
  <2>1. UNCHANGED <<server, pipe, playerlist, online, missed>>
        BY <1>2 DEF FlushBuffers, ClientConnects, ClientLeaves, vars, reportVars, panelVars,
                    historyVars
  <2> QED BY <1>1, <2>1
<1>3. CASE SpawnServer
  <2>1. server' = "running" /\ UNCHANGED <<pipe, playerlist, online, missed>>
        BY <1>3 DEF SpawnServer, ServerStarts, historyVars
  <2> QED BY <2>1 DEF FollowInv, Replaced, Unhosted, OverBetween, Joins, Drops
<1>4. CASE KillServer
  <2>1. pipe' = <<>> /\ online' = [i \in Ids |-> FALSE]
        BY <1>4 DEF KillServer, HandleServerClose
  <2>2. DOMAIN pipe' = {} BY <2>1
  <2> QED BY <2>1, <2>2 DEF FollowInv, Replaced, Unhosted
<1>5. CASE ReadReport BY <1>5, ReadFollows
<1>7. CASE \/ ServerStep
           \/ \E t \in Threads : RefreshStarts(t) \/ RefreshReports(t) \/ RefreshFails(t)
           \/ \E i \in Ids : PlayerLeaves(i)
      BY <1>7, StepsAbreast, AbreastFollows
<1> QED BY <1>2, <1>3, <1>4, <1>5, <1>7 DEF Next

-----------------------------------------------------------------------------
(* The pages.                                                               *)

\* A list shows who is online, by the present connection, and with it only
\* connections whose end was missed.
Lists(p) ==
    /\ \A c \in Conns : p[c] > 0 =>
           p[c] = 1 /\ c <= Len(idOf) /\ online[idOf[c]] /\ c <= playerlist[idOf[c]]
    /\ \A i \in Ids : online[i] => p[playerlist[i]] = 1
    /\ \A c, d \in Conns : p[c] > 0 /\ p[d] > 0 /\ idOf[c] = idOf[d] /\ c < d => c \in missed

\* The list that a page has when it has read the events that wait for it.
Pending == AllIn(idOf, view, outBuffer)

PagesKnown ==
    /\ outBuffer \in Seq(Events)
    /\ client \in BOOLEAN
    /\ \A k \in DOMAIN outBuffer : KnownEvent(outBuffer[k], Len(idOf))
    /\ KnownList(view, Len(idOf))
    /\ \A i \in Ids : playerlist[i] # Nobody => idOf[playerlist[i]] = i

PageInv == PagesKnown /\ (client => Lists(Pending))

LEMMA PendingKnown ==
    ASSUME MirrorTypeOK, PagesKnown
    PROVE  KnownList(Pending, Len(idOf))
<1>1. Len(idOf) \in Nat /\ SameIds(idOf, idOf, Len(idOf)) BY Basics DEF SameIds
<1> QED BY <1>1, AllKnown DEF PagesKnown, Pending

LEMMA OnlineNumbers ==
    ASSUME MirrorInv, NEW i \in Ids, playerlist[i] # Nobody
    PROVE  playerlist[i] \in Conns /\ playerlist[i] \in 1 .. Len(idOf) /\ Len(idOf) \in Nat
<1>1. playerlist[i] \in Conns /\ playerlist[i] <= Len(idOf) /\ Len(idOf) \in Nat
      BY Basics DEF MirrorInv, MirrorTypeOK, Numbered
<1>2. playerlist[i] \in Nat /\ playerlist[i] >= 1 BY <1>1, ConnsAreNumbers
<1> QED BY <1>1, <1>2

LEMMA NothingListed ==
    ASSUME \A i \in Ids : ~online'[i]
    PROVE  Lists(NoView)'
BY DEF Lists, NoView

LEMMA AbreastPages ==
    ASSUME MirrorInv, SettleInv, PageInv, Abreast
    PROVE  PageInv'
<1>0. MirrorTypeOK /\ PagesKnown /\ idOf \in Seq(Ids) /\ Len(idOf) \in Nat
      BY Basics DEF MirrorInv, PageInv
<1>1. /\ UNCHANGED <<playerlist, online, outBuffer, client, view>> /\ missed \subseteq missed'
      /\ Len(idOf') \in Nat /\ Len(idOf') >= Len(idOf)
      /\ \A c \in 1 .. Len(idOf) : idOf'[c] = idOf[c]
      BY DEF Abreast, Evolves
<1>2. SameIds(idOf, idOf', Len(idOf)) BY <1>1 DEF SameIds
<1>3. Pending' = Pending
  <2>1. AllIn(idOf', view, outBuffer) = AllIn(idOf, view, outBuffer)
        BY <1>0, <1>2, AllKnown DEF PagesKnown
  <2> QED BY <1>1, <2>1 DEF Pending
<1>4. PagesKnown'
  <2>1. \A e : KnownEvent(e, Len(idOf)) => KnownEvent(e, Len(idOf'))
        BY <1>0, <1>1 DEF KnownEvent
  <2>2. KnownList(view, Len(idOf'))
        BY <1>0, <1>1, ConnsAreNumbers DEF PagesKnown, KnownList
  <2>3. \A i \in Ids : playerlist[i] # Nobody => idOf'[playerlist[i]] = i
        BY <1>0, <1>1, OnlineNumbers DEF PagesKnown
  <2> QED BY <1>0, <1>1, <2>1, <2>2, <2>3 DEF PagesKnown
<1>5. ASSUME client, NEW p, p = Pending, Lists(p) PROVE Lists(p)'
  <2>1. \A c \in Conns : p[c] > 0 => c \in 1 .. Len(idOf) /\ idOf'[c] = idOf[c] /\ c <= Len(idOf')
        BY <1>0, <1>1, <1>5, ConnsAreNumbers DEF Lists
  <2> QED BY <1>1, <1>5, <2>1 DEF Lists
<1>6. client' => Lists(Pending)'
  <2> SUFFICES ASSUME client PROVE Lists(Pending)'
      BY <1>1
  <2>1. PICK p : p = Pending OBVIOUS
  <2>2. Lists(p) BY <2>1 DEF PageInv
  <2>3. Lists(p)' BY <1>5, <2>1, <2>2
  <2> QED BY <1>3, <2>1, <2>3 DEF Lists
<1> QED BY <1>4, <1>6 DEF PageInv

\* An event for the pages.
LEMMA Buffered ==
    ASSUME MirrorTypeOK, PagesKnown, NEW event, KnownEvent(event, Len(idOf)), Buffer(event),
           UNCHANGED <<idOf, client, view>>,
           \A i \in Ids : playerlist'[i] # Nobody => idOf[playerlist'[i]] = i
    PROVE  PagesKnown' /\ Pending' = ProcessIn(idOf, Pending, event)
<1>1. /\ outBuffer \in Seq(Events) /\ event \in Events /\ outBuffer' = Append(outBuffer, event)
      /\ Len(idOf) \in Nat
      BY Basics DEF PagesKnown, KnownEvent, Buffer
<1>2. Pending' = ProcessIn(idOf, Pending, event)
      BY <1>1, AllAppend DEF PagesKnown, Pending
<1>3. \A k \in DOMAIN outBuffer' : KnownEvent(outBuffer'[k], Len(idOf))
  <2>1. \A k \in DOMAIN outBuffer' :
            (k \in DOMAIN outBuffer /\ outBuffer'[k] = outBuffer[k]) \/ outBuffer'[k] = event
        BY <1>1, AppendProperties
  <2> QED BY <2>1 DEF PagesKnown
<1>4. outBuffer' \in Seq(Events) BY <1>1
<1> QED BY <1>2, <1>3, <1>4 DEF PagesKnown

\* A list is emptied when nobody is online.
LEMMA FullPages ==
    ASSUME MirrorTypeOK, PagesKnown, Buffer(Full), UNCHANGED <<idOf, client, view>>,
           \A i \in Ids : playerlist'[i] # Nobody => idOf[playerlist'[i]] = i,
           \A i \in Ids : ~online'[i]
    PROVE  PageInv'
<1>1. KnownEvent(Full, Len(idOf)) /\ Full.type = "fullPlayerlist"
      BY DEF Full, KnownEvent, Events
<1>2. PagesKnown' /\ Pending' = ProcessIn(idOf, Pending, Full) BY <1>1, Buffered
<1>3. ProcessIn(idOf, Pending, Full) = NoView BY <1>1 DEF ProcessIn
<1>4. Lists(Pending)'
  <2>1. Pending' = NoView BY <1>2, <1>3
  <2>2. Lists(NoView)' BY NothingListed
  <2> QED BY <2>1, <2>2 DEF Lists, NoView
<1> QED BY <1>2, <1>4 DEF PageInv

\* A join that the panel takes is of a connection that came after the one it
\* replaces.
LEMMA JoinPages ==
    ASSUME MirrorInv, SettleInv, PageInv, NEW r \in Reports, Genuine(r), Handled(r),
           UNCHANGED <<client, view>>,
           r.event = "playerJoining",
           online[r.id] /\ playerlist[r.id] # r.ref =>
               playerlist[r.id] < r.ref /\ playerlist[r.id] \in missed
    PROVE  PageInv'
<1>0. /\ MirrorTypeOK /\ PagesKnown /\ r.id \in Ids /\ Len(idOf) \in Nat
      /\ playerlist \in [Ids -> Conns \cup {Nobody}] /\ online \in [Ids -> BOOLEAN]
      BY Basics, ReportFields DEF MirrorInv, MirrorTypeOK, PageInv
<1>1. HandleJoining(r) /\ UNCHANGED <<idOf, missed>> BY DEF Handled, HandleServerEvents
<1>2. r.ref # Nobody BY DEF Genuine
<1>3. r.ref \in Conns /\ r.ref \in 1 .. Len(idOf) /\ idOf[r.ref] = r.id
      BY <1>0, <1>2, GenuineRef
<1>4. CASE SameConnection(r)
  <2>1. UNCHANGED <<playerlist, online, outBuffer>> BY <1>1, <1>4 DEF HandleJoining
  <2> QED BY <1>1, <2>1 DEF PageInv, PagesKnown, Pending, Lists
<1>5. CASE ~SameConnection(r)
  <2>1. /\ playerlist' = [playerlist EXCEPT ![r.id] = r.ref]
        /\ online' = [online EXCEPT ![r.id] = TRUE]
        /\ Buffer(Joined(r.ref))
        BY <1>1, <1>5 DEF HandleJoining
  <2>2. /\ playerlist'[r.id] = r.ref /\ online'[r.id]
        /\ \A i \in Ids \ {r.id} : playerlist'[i] = playerlist[i] /\ online'[i] = online[i]
        BY <1>0, <2>1
  <2>3. \A i \in Ids : playerlist'[i] # Nobody => idOf[playerlist'[i]] = i
        BY <1>0, <1>3, <2>2 DEF PagesKnown
  <2> DEFINE e == Joined(r.ref)
  <2>4. KnownEvent(e, Len(idOf)) /\ e.type = "playerJoining" /\ e.ref = r.ref
        BY <1>3 DEF Joined, KnownEvent, Events
  <2>5. Buffer(e) BY <2>1
  <2> HIDE DEF e
  <2>6. PagesKnown' /\ Pending' = ProcessIn(idOf, Pending, e)
        BY <1>0, <1>1, <2>3, <2>4, <2>5, Buffered
  <2>7. ProcessIn(idOf, Pending, e) = [Pending EXCEPT ![r.ref] = @ + 1]
        BY <2>4 DEF ProcessIn
  <2>8. ASSUME client, NEW p, p = Pending, NEW q, q = [p EXCEPT ![r.ref] = @ + 1]
        PROVE  Lists(q)'
    <3>1. Lists(p) BY <2>8 DEF PageInv
    <3>2. p \in [Conns -> Nat] BY <1>0, <2>8, PendingKnown DEF KnownList
    <3>3. online[r.id] => playerlist[r.id] \in Nat /\ playerlist[r.id] < r.ref /\ playerlist[r.id] \in missed
      <4>1. online[r.id] => playerlist[r.id] # Nobody BY <1>0 DEF SettleInv, ResourceInv, Hosted
      <4>2. online[r.id] => playerlist[r.id] # r.ref BY <1>5 DEF SameConnection
      <4> QED BY <1>0, <2>8, <4>1, <4>2, ConnsAreNumbers
    <3>4. \A c \in Conns : p[c] > 0 /\ idOf[c] = r.id =>
              online[r.id] /\ c <= playerlist[r.id] /\ c < r.ref /\ c \in missed
      <4> SUFFICES ASSUME NEW c \in Conns, p[c] > 0, idOf[c] = r.id
                   PROVE  online[r.id] /\ c <= playerlist[r.id] /\ c < r.ref /\ c \in missed
          OBVIOUS
      <4>1. online[r.id] /\ c <= playerlist[r.id] BY <3>1 DEF Lists
      <4>2. c < r.ref BY <1>3, <3>3, <4>1, ConnsAreNumbers
      <4>3. c \in missed
        <5>1. CASE c = playerlist[r.id] BY <3>3, <4>1, <5>1
        <5>2. CASE c # playerlist[r.id]
          <6>1. playerlist[r.id] \in Conns BY <1>0, <3>3, <4>1, ReportsAssumption
          <6>2. p[playerlist[r.id]] > 0 BY <1>0, <3>1, <4>1 DEF Lists
          <6>3. idOf[playerlist[r.id]] = r.id
                BY <1>0, <6>1, ConnsAreNumbers DEF PagesKnown
          <6>4. c < playerlist[r.id] BY <3>3, <4>1, <5>2, ConnsAreNumbers
          <6> QED BY <3>1, <6>1, <6>2, <6>3, <6>4 DEF Lists
        <5> QED BY <5>1, <5>2
      <4> QED BY <4>1, <4>2, <4>3
    <3>5. p[r.ref] = 0
      <4>1. ~(r.ref < r.ref) BY <1>3
      <4>2. ~(p[r.ref] > 0) BY <1>3, <3>4, <4>1
      <4> QED BY <1>3, <3>2, <4>2
    <3>6. q[r.ref] = 1 /\ \A c \in Conns \ {r.ref} : q[c] = p[c]
          BY <1>3, <2>8, <3>2, <3>5
    <3>7. ASSUME NEW c \in Conns, q[c] > 0
          PROVE  q[c] = 1 /\ c <= Len(idOf) /\ online'[idOf[c]] /\ c <= playerlist'[idOf[c]]
      <4>1. CASE c = r.ref BY <1>3, <2>2, <3>6, <4>1
      <4>2. CASE c # r.ref
        <5>1. p[c] > 0 /\ q[c] = 1 /\ c <= Len(idOf) /\ online[idOf[c]] /\ c <= playerlist[idOf[c]]
              BY <3>1, <3>6, <3>7, <4>2 DEF Lists
        <5>2. idOf[c] \in Ids
              BY <1>0, <5>1, Basics, ConnsAreNumbers
        <5>3. CASE idOf[c] = r.id
              BY <1>3, <2>2, <3>4, <5>1, <5>3, ConnsAreNumbers
        <5>4. CASE idOf[c] # r.id BY <2>2, <5>1, <5>2, <5>4
        <5> QED BY <5>3, <5>4
      <4> QED BY <4>1, <4>2
    <3>8. ASSUME NEW i \in Ids, online'[i] PROVE q[playerlist'[i]] = 1
      <4>1. CASE i = r.id BY <2>2, <3>6, <4>1
      <4>2. CASE i # r.id
        <5>1. online[i] /\ playerlist'[i] = playerlist[i] BY <2>2, <3>8, <4>2
        <5>2. p[playerlist[i]] = 1 BY <3>1, <5>1 DEF Lists
        <5>3. playerlist[i] # Nobody BY <5>1 DEF SettleInv, ResourceInv, Hosted
        <5>4. playerlist[i] \in Conns /\ playerlist[i] # r.ref
              BY <1>0, <1>3, <4>2, <5>3 DEF PagesKnown
        <5> QED BY <3>6, <5>1, <5>2, <5>4
      <4> QED BY <4>1, <4>2
    <3>9. ASSUME NEW c \in Conns, NEW d \in Conns, q[c] > 0, q[d] > 0, idOf[c] = idOf[d], c < d
          PROVE  c \in missed
      <4>1. CASE d = r.ref
        <5>1. c # r.ref /\ idOf[c] = r.id BY <1>3, <3>9, <4>1, ConnsAreNumbers
        <5> QED BY <3>4, <3>6, <3>9, <5>1
      <4>2. CASE c = r.ref
        <5>1. d # r.ref /\ idOf[d] = r.id BY <1>3, <3>9, <4>2, ConnsAreNumbers
        <5>2. d < c BY <3>4, <3>6, <3>9, <4>2, <5>1
        <5> QED BY <3>9, <5>2, ConnsAreNumbers
      <4>3. CASE c # r.ref /\ d # r.ref BY <3>1, <3>6, <3>9, <4>3 DEF Lists
      <4> QED BY <4>1, <4>2, <4>3
    <3> QED BY <1>1, <3>7, <3>8, <3>9 DEF Lists
  <2>9. client' => Lists(Pending)'
    <3> SUFFICES ASSUME client PROVE Lists(Pending)'
        OBVIOUS
    <3>1. PICK p : p = Pending OBVIOUS
    <3>2. PICK q : q = [p EXCEPT ![r.ref] = @ + 1] OBVIOUS
    <3>3. Lists(q)' BY <2>8, <3>1, <3>2
    <3>4. Pending' = q BY <2>6, <2>7, <3>1, <3>2
    <3> QED BY <3>3, <3>4 DEF Lists
  <2> QED BY <2>6, <2>9 DEF PageInv
<1> QED BY <1>4, <1>5

\* A drop that the panel takes removes all that a page lists of the id.
LEMMA DropPages ==
    ASSUME MirrorInv, SettleInv, PageInv, NEW r \in Reports, Genuine(r), Handled(r),
           UNCHANGED <<client, view>>, r.event = "playerDropped"
    PROVE  PageInv'
<1>0. /\ MirrorTypeOK /\ PagesKnown /\ r.id \in Ids /\ Len(idOf) \in Nat
      /\ playerlist \in [Ids -> Conns \cup {Nobody}] /\ online \in [Ids -> BOOLEAN]
      BY Basics, ReportFields DEF MirrorInv, MirrorTypeOK, PageInv
<1>1. HandleDropped(r) /\ UNCHANGED <<idOf, missed>> BY DEF Handled, HandleServerEvents
<1>2. CASE StaleDrop(r)
  <2>1. UNCHANGED <<playerlist, online, outBuffer>> BY <1>1, <1>2 DEF HandleDropped
  <2> QED BY <1>1, <2>1 DEF PageInv, PagesKnown, Pending, Lists
<1>3. CASE ~StaleDrop(r)
  <2>1. /\ playerlist' = playerlist /\ online' = [online EXCEPT ![r.id] = FALSE]
        /\ Buffer(Left(playerlist[r.id]))
        BY <1>1, <1>3 DEF HandleDropped
  <2>2. ~online'[r.id] /\ \A i \in Ids \ {r.id} : online'[i] = online[i]
        BY <1>0, <2>1
  <2>3. PICK d : d = playerlist[r.id] OBVIOUS
  <2>4. d \in Conns /\ d \in 1 .. Len(idOf) /\ idOf[d] = r.id
        BY <1>0, <1>3, <2>3, OnlineNumbers DEF StaleDrop, PagesKnown
  <2> DEFINE e == Left(d)
  <2>5. KnownEvent(e, Len(idOf)) /\ e.type = "playerDropped" /\ e.ref = d
        BY <2>4 DEF Left, KnownEvent, Events
  <2>6. Buffer(e) BY <2>1, <2>3
  <2> HIDE DEF e
  <2>7. PagesKnown' /\ Pending' = ProcessIn(idOf, Pending, e)
        BY <1>0, <1>1, <2>1, <2>5, <2>6, Buffered DEF PagesKnown
  <2>8. ASSUME client, NEW p, p = Pending, NEW q, q = ProcessIn(idOf, p, e)
        PROVE  Lists(q)'
    <3>1. Lists(p) BY <2>8 DEF PageInv
    <3>2. p \in [Conns -> Nat] BY <1>0, <2>8, PendingKnown DEF KnownList
    <3>3. q = [c \in Conns |-> IF p[c] > 0 /\ idOf[c] = idOf[d] THEN 0 ELSE p[c]]
          BY <2>5, <2>8 DEF ProcessIn
    <3>4. \A c \in Conns : q[c] > 0 => p[c] > 0 /\ q[c] = p[c] /\ idOf[c] # r.id
          BY <2>4, <3>2, <3>3
    <3>5. \A c \in Conns : idOf[c] # r.id => q[c] = p[c] BY <2>4, <3>3
    <3>6. \A c \in Conns : p[c] > 0 => idOf[c] \in Ids
          BY <1>0, <3>1, Basics, ConnsAreNumbers DEF Lists
    <3>7. \A c \in Conns : q[c] > 0 =>
              q[c] = 1 /\ c <= Len(idOf) /\ online'[idOf[c]] /\ c <= playerlist'[idOf[c]]
          BY <2>1, <2>2, <3>1, <3>4, <3>6 DEF Lists
    <3>8. ASSUME NEW i \in Ids, online'[i] PROVE q[playerlist'[i]] = 1
      <4>1. i # r.id /\ online[i] /\ playerlist'[i] = playerlist[i] BY <2>1, <2>2, <3>8
      <4>2. playerlist[i] # Nobody BY <4>1 DEF SettleInv, ResourceInv, Hosted
      <4>3. playerlist[i] \in Conns /\ idOf[playerlist[i]] # r.id
            BY <1>0, <4>1, <4>2 DEF PagesKnown
      <4>4. p[playerlist[i]] = 1 BY <3>1, <4>1 DEF Lists
      <4> QED BY <3>5, <4>1, <4>3, <4>4
    <3>9. \A c, b \in Conns : q[c] > 0 /\ q[b] > 0 /\ idOf[c] = idOf[b] /\ c < b => c \in missed
          BY <3>1, <3>4 DEF Lists
    <3> QED BY <1>1, <3>7, <3>8, <3>9 DEF Lists
  <2>9. client' => Lists(Pending)'
    <3> SUFFICES ASSUME client PROVE Lists(Pending)'
        OBVIOUS
    <3>1. PICK p : p = Pending OBVIOUS
    <3>2. PICK q : q = ProcessIn(idOf, p, e) OBVIOUS
    <3>3. Lists(q)' BY <2>8, <3>1, <3>2
    <3>4. Pending' = q BY <2>7, <3>1, <3>2
    <3> QED BY <3>3, <3>4 DEF Lists
  <2> QED BY <2>7, <2>9 DEF PageInv
<1> QED BY <1>2, <1>3

LEMMA ReadPages ==
    ASSUME MirrorInv, SettleInv, FollowInv, PageInv, ReadReport
    PROVE  PageInv'
<1> DEFINE r == Head(pipe)
<1>0. /\ pipe \in Seq(Reports) /\ pipe # <<>> /\ Handled(r)
      /\ UNCHANGED <<client, view>>
      BY Basics DEF MirrorInv, ReadReport, Handled, resourceVars, historyVars
<1>1. r = pipe[1] /\ r \in Reports /\ 1 \in DOMAIN pipe /\ \A k \in DOMAIN pipe : k >= 1 /\ k \in Int
      BY <1>0, TailIs
<1>2. Genuine(r) /\ r.event \in {"playerJoining", "playerDropped"} /\ r.id \in Ids
      BY <1>1, ReportFields DEF MirrorInv, PipeGenuine
<1> HIDE DEF r
<1>3. CASE r.event = "playerDropped" BY <1>0, <1>1, <1>2, <1>3, DropPages
<1>4. CASE r.event = "playerJoining"
  <2>1. ASSUME online[r.id], playerlist[r.id] # r.ref
        PROVE  playerlist[r.id] < r.ref /\ playerlist[r.id] \in missed
    <3>1. Joins(1) /\ pipe[1].id = r.id /\ pipe[1].ref = r.ref BY <1>1, <1>4 DEF Joins
    <3>2. OverBetween(r.id, playerlist[r.id], 0, 1)
          BY <1>1, <2>1, <3>1 DEF FollowInv, Replaced
    <3>3. \A m \in DOMAIN pipe : ~(m < 1) BY <1>1
    <3>4. playerlist[r.id] \in missed BY <3>2, <3>3 DEF OverBetween
    <3>5. playerlist[r.id] # Nobody BY <1>2, <2>1 DEF SettleInv, ResourceInv, Hosted
    <3>6. playerlist[r.id] <= r.ref BY <1>1, <1>2, <2>1, <3>1, <3>5 DEF MirrorInv, InOrder
    <3>7. playerlist[r.id] \in Nat BY <1>2, <3>5, OnlineNumbers
    <3>8. r.ref \in Nat BY <1>1, <1>2, <1>4, GenuineRef DEF MirrorInv, Genuine
    <3> QED BY <2>1, <3>4, <3>6, <3>7, <3>8
  <2> QED BY <1>0, <1>1, <1>2, <1>4, <2>1, JoinPages
<1> QED BY <1>2, <1>3, <1>4

\* The steps of the pages themselves.
LEMMA FlushPages ==
    ASSUME MirrorInv, PageInv, FlushBuffers
    PROVE  PageInv'
<1>1. /\ MirrorTypeOK /\ PagesKnown /\ Len(idOf) \in Nat
      BY Basics DEF MirrorInv, PageInv
<1>2. /\ outBuffer' = <<>> /\ view' = (IF client THEN Pending ELSE NoView)
      /\ UNCHANGED <<idOf, playerlist, online, client, missed>>
      BY PageIs DEF FlushBuffers, reportVars, historyVars, Pending
<1>3. KnownList(view', Len(idOf)) BY <1>1, <1>2, PendingKnown, NoViewKnown
<1>4. PagesKnown'
  <2>1. DOMAIN outBuffer' = {} /\ outBuffer' \in Seq(Events) BY <1>2
  <2> QED BY <1>1, <1>2, <1>3, <2>1 DEF PagesKnown
<1>5. Pending' = view' BY <1>2, AllNone DEF Pending
<1>6. client' => Lists(Pending)'
  <2> SUFFICES ASSUME client PROVE Lists(Pending)'
      BY <1>2
  <2>1. PICK p : p = Pending OBVIOUS
  <2>2. Lists(p) BY <2>1 DEF PageInv
  <2>3. Pending' = p BY <1>2, <1>5, <2>1
  <2> QED BY <1>2, <2>2, <2>3 DEF Lists
<1> QED BY <1>4, <1>6 DEF PageInv

LEMMA ConnectsPages ==
    ASSUME MirrorInv, SettleInv, PageInv, ClientConnects
    PROVE  PageInv'
<1>1. /\ MirrorTypeOK /\ PagesKnown /\ Len(idOf) \in Nat
      BY Basics DEF MirrorInv, PageInv
<1>2. /\ outBuffer' = <<>> /\ view' = [c \in Conns |-> IF c \in Online THEN 1 ELSE 0]
      /\ client' = TRUE
      /\ UNCHANGED <<idOf, playerlist, online, missed>>
      BY DEF ClientConnects, reportVars, historyVars
<1>3. \A i \in Ids : online[i] => /\ playerlist[i] \in Conns /\ playerlist[i] \in 1 .. Len(idOf)
                                  /\ idOf[playerlist[i]] = i
      BY <1>1, OnlineNumbers DEF SettleInv, ResourceInv, Hosted, PagesKnown
<1>4. \A c \in Conns : view'[c] > 0 =>
          view'[c] = 1 /\ \E i \in Ids : online[i] /\ playerlist[i] = c
      BY <1>2 DEF Online
<1>5. \A c \in Conns : view'[c] > 0 =>
          /\ view'[c] = 1 /\ c \in Nat /\ c <= Len(idOf)
          /\ online[idOf[c]] /\ c = playerlist[idOf[c]]
      BY <1>3, <1>4
<1>6. KnownList(view', Len(idOf))
  <2>1. view' \in [Conns -> Nat] BY <1>2
  <2> QED BY <1>5, <2>1 DEF KnownList
<1>7. PagesKnown'
  <2>1. DOMAIN outBuffer' = {} /\ outBuffer' \in Seq(Events) BY <1>2
  <2> QED BY <1>1, <1>2, <1>6, <2>1 DEF PagesKnown
<1>8. Lists(view)'
  <2>1. \A i \in Ids : online[i] => view'[playerlist[i]] = 1 BY <1>2, <1>3 DEF Online
  <2>2. \A c, d \in Conns : view'[c] > 0 /\ view'[d] > 0 /\ idOf[c] = idOf[d] => c = d
        BY <1>5
  <2>3. \A c \in Conns : c <= c /\ ~(c < c) BY ConnsAreNumbers
  <2> QED BY <1>2, <1>5, <2>1, <2>2, <2>3 DEF Lists
<1>9. Pending' = view' BY <1>2, AllNone DEF Pending
<1>10. Lists(Pending)' BY <1>8, <1>9 DEF Lists
<1> QED BY <1>7, <1>10 DEF PageInv

LEMMA LeavesPages ==
    ASSUME MirrorInv, PageInv, ClientLeaves
    PROVE  PageInv'
<1>1. /\ view' = NoView /\ client' = FALSE /\ UNCHANGED <<idOf, playerlist, outBuffer>>
      BY DEF ClientLeaves, reportVars
<1>2. Len(idOf) \in Nat BY Basics DEF MirrorInv
<1>3. KnownList(view', Len(idOf)) BY <1>1, <1>2, NoViewKnown
<1> QED BY <1>1, <1>3 DEF PageInv, PagesKnown

LEMMA PageInit == Init => PageInv
<1> SUFFICES ASSUME Init PROVE PageInv
    OBVIOUS
<1>1. /\ idOf = <<>> /\ playerlist = NoneLive /\ outBuffer = <<>> /\ client = FALSE /\ view = NoView
      BY DEF Init, ReportsInit
<1>2. KnownList(view, Len(idOf)) BY <1>1, NoViewKnown
<1>3. outBuffer \in Seq(Events) /\ DOMAIN outBuffer = {} BY <1>1
<1> QED BY <1>1, <1>2, <1>3 DEF PageInv, PagesKnown, NoneLive

LEMMA PageStays ==
    ASSUME MirrorInv, SettleInv, FollowInv, PageInv, [Next]_vars
    PROVE  PageInv'
<1>0. MirrorTypeOK /\ PagesKnown BY DEF MirrorInv, PageInv
<1>1. CASE UNCHANGED vars
      BY <1>1 DEF vars, reportVars, panelVars, historyVars, PageInv, PagesKnown, Pending, Lists
<1>2. CASE SpawnServer
  <2>1. /\ server = "none" /\ Buffer(Full)
        /\ UNCHANGED <<idOf, playerlist, online, client, view>>
        BY <1>2 DEF SpawnServer, ServerStarts, historyVars
  <2>2. \A i \in Ids : ~online'[i] BY <2>1 DEF FollowInv, Unhosted
  <2>3. \A i \in Ids : playerlist'[i] # Nobody => idOf[playerlist'[i]] = i
        BY <1>0, <2>1 DEF PagesKnown
  <2> QED BY <1>0, <2>1, <2>2, <2>3, FullPages
<1>3. CASE KillServer
  <2>1. /\ Buffer(Full) /\ UNCHANGED <<idOf, client, view>>
        /\ playerlist' = NoneLive /\ online' = [i \in Ids |-> FALSE]
        BY <1>3 DEF KillServer, ServerGone, HandleServerClose
  <2>2. \A i \in Ids : playerlist'[i] = Nobody /\ ~online'[i] BY <2>1 DEF NoneLive
  <2> QED BY <1>0, <2>1, <2>2, FullPages
<1>4. CASE ReadReport BY <1>4, ReadPages
<1>6. CASE FlushBuffers BY <1>6, FlushPages
<1>7. CASE ClientConnects BY <1>7, ConnectsPages
<1>8. CASE ClientLeaves BY <1>8, LeavesPages
<1>9. CASE \/ ServerStep
           \/ \E t \in Threads : RefreshStarts(t) \/ RefreshReports(t) \/ RefreshFails(t)
           \/ \E i \in Ids : PlayerLeaves(i)
      BY <1>9, StepsAbreast, AbreastPages
<1> QED BY <1>1, <1>2, <1>3, <1>4, <1>6, <1>7, <1>8, <1>9 DEF Next

LEMMA PageSafe == Spec => [](MirrorInv /\ SettleInv /\ FollowInv /\ PageInv)
<1>1. Init => MirrorInv /\ SettleInv /\ FollowInv /\ PageInv
      BY MirrorInit, SettleInit, FollowInit, PageInit
<1>2. MirrorInv /\ SettleInv /\ FollowInv /\ PageInv /\ [Next]_vars
          => (MirrorInv /\ SettleInv /\ FollowInv /\ PageInv)'
      BY MirrorStays, SettleStays, FollowStays, PageStays
<1> QED BY <1>1, <1>2, PTL DEF Spec

-----------------------------------------------------------------------------
(* The theorems.                                                            *)

\* What the resource, the reports, the panel's mirror, the events for the pages
\* and the pages hold is what it should be, whatever server is killed with
\* reports on their way.
THEOREM TypeCorrect == Spec => []TypeOK
<1>1. MirrorInv /\ PageInv => TypeOK
      BY DEF MirrorInv, PageInv, PagesKnown, KnownList, TypeOK
<1> QED BY <1>1, PageSafe, PTL

\* No connection joins or leaves twice in the statistics of the panel.
THEOREM JoinedOnceSafe == Spec => []JoinedOnce
<1>1. MirrorInv => JoinedOnce BY DEF MirrorInv, LogOfPast, JoinedOnce
<1> QED BY <1>1, MirrorSafe, PTL

\* When everything is settled the panel lists every connected player, and
\* nobody else but those whose end the resource could not report.
THEOREM MirrorSettledSafe == Spec => []MirrorSettled
<1>1. MirrorInv /\ SettleInv => MirrorSettled
  <2> SUFFICES ASSUME MirrorInv, SettleInv, Settled, NEW i \in Ids
               PROVE  IF live[i] # Nobody THEN online[i] /\ playerlist[i] = live[i]
                                          ELSE online[i] => playerlist[i] \in missed
      BY DEF MirrorSettled
  <2>1. pipe = <<>> /\ resource /\ synced /\ ~clashed /\ server = "running"
        BY DEF Settled, SettleInv, ResourceInv, Hosted
  <2>2. DOMAIN pipe = {} BY <2>1
  <2>3. CASE live[i] # Nobody
    <3>1. Told(i)
          BY <2>1, <2>3 DEF SettleInv, ResourceInv, CaughtUp, QueueInv, ReportedTold
    <3> QED BY <2>2, <2>3, <3>1 DEF Told
  <2>4. CASE live[i] = Nobody
    <3>1. online[i] => playerlist[i] # Nobody BY DEF SettleInv, ResourceInv, Hosted
    <3>2. online[i] => EndTold(i, playerlist[i], 0)
          BY <2>1, <2>4, <3>1 DEF SettleInv, QueueInv, EndsTold
    <3> QED BY <2>2, <2>4, <3>2 DEF EndTold
  <2> QED BY <2>3, <2>4
<1> QED BY <1>1, SettleSafe, PTL

\* A page that has read its events shows who is online, and an id twice only
\* when the end of the first connection was missed, whatever the order of
\* flushes, pages and reports.
THEOREM ViewFollowsSafe == Spec => []ViewFollows
<1>1. MirrorInv /\ SettleInv /\ PageInv => ViewFollows
  <2> SUFFICES ASSUME MirrorInv, SettleInv, PageInv, client, outBuffer = <<>>
               PROVE  /\ {idOf[c] : c \in Shown} = {i \in Ids : online[i]}
                      /\ \A c \in Shown : view[c] = 1
                      /\ \A c, d \in Shown : idOf[c] = idOf[d] /\ c < d => c \in missed
      BY DEF ViewFollows
  <2>1. Pending = view BY AllNone DEF Pending
  <2>2. Lists(view) /\ PagesKnown BY <2>1 DEF PageInv
  <2>3. \A c \in Shown : c \in Conns /\ view[c] > 0 BY DEF Shown
  <2>4. \A c \in Shown : idOf[c] \in Ids /\ online[idOf[c]]
    <3>1. Len(idOf) \in Nat /\ \A c \in 1 .. Len(idOf) : idOf[c] \in Ids
          BY Basics DEF MirrorInv
    <3>2. \A c \in Shown : c \in Nat /\ c >= 1 BY <2>3, ConnsAreNumbers
    <3>3. \A c \in Shown : c <= Len(idOf) /\ online[idOf[c]] BY <2>2, <2>3 DEF Lists
    <3> QED BY <3>1, <3>2, <3>3
  <2>5. ASSUME NEW i \in Ids, online[i] PROVE \E c \in Shown : idOf[c] = i
    <3>1. playerlist[i] # Nobody BY <2>5 DEF SettleInv, ResourceInv, Hosted
    <3>2. playerlist[i] \in Conns /\ idOf[playerlist[i]] = i
          BY <2>2, <3>1, OnlineNumbers DEF PagesKnown
    <3>3. view[playerlist[i]] = 1 BY <2>2, <2>5 DEF Lists
    <3> QED BY <3>2, <3>3 DEF Shown
  <2> QED BY <2>2, <2>3, <2>4, <2>5 DEF Lists
<1> QED BY <1>1, PageSafe, PTL

=============================================================================
