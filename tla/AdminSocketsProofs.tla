-------------------------- MODULE AdminSocketsProofs --------------------------
(***************************************************************************)
(* Proofs about AdminStore and AdminSockets, for any sets of names,         *)
(* permissions, accounts and sessions, any number of writes in flight, and  *)
(* any number of sockets.                                                   *)
(***************************************************************************)
EXTENDS AdminSockets, SequenceTheorems, WellFoundedInduction, TLAPS

-----------------------------------------------------------------------------
(* The store.  Of the file, what holds is about a panel that is on: in any  *)
(* other state nothing is in memory or in flight.                           *)

OffIsEmpty ==
    panel # "on" =>
        admins = NoAdmins /\ checking = None /\ \A s \in Slots : writes[s] = None

\* The hash that the file is compared with.
HashIsOfMemory == panel = "on" => hash = admins

\* As long as nothing went wrong there is at most one write, it is of what is
\* in memory, and until it lands the file is the old one or empty.
InOrder ==
    panel = "on" /\ ~doubt =>
        /\ \A s \in Slots : writes[s] # None =>
               /\ writes[s].content = admins
               /\ writes[s].stage = "open" => file = Empty
               /\ Others(s) = {}
        /\ (\A s \in Slots : writes[s] = None) => file = admins

StoreInv == StoreTypeOK /\ OffIsEmpty /\ HashIsOfMemory /\ InOrder

LEMMA NoneIsNone ==
    /\ \A x \in Admin : x # None
    /\ \A x \in Contents : x # None /\ x # Absent /\ x # Empty /\ x # Broken
    /\ \A x \in Write : x # None
    /\ \A x \in Sessions : x # None
    /\ \A x \in Links : x # None
    /\ None \notin {Absent, Empty, Broken}
BY AdminAssumption, SMT DEF Files

LEMMA NoAdminsType == NoAdmins \in Contents
BY DEF NoAdmins, Contents

\* What every change of the administrators does.
LEMMA WriteTypes ==
    ASSUME StoreTypeOK, NEW new \in Contents, NEW by \in Sessions \cup {None},
           NEW restore \in BOOLEAN, WriteAdminsFile(new, by, restore),
           checking' \in Files \cup {None}
    PROVE  StoreTypeOK'
<1>1. PICK s \in Slots :
          writes' = [writes EXCEPT ![s] =
              [content |-> new, by |-> by, restore |-> restore, stage |-> "queued"]]
      BY DEF WriteAdminsFile
<1>2. [content |-> new, by |-> by, restore |-> restore, stage |-> "queued"] \in Write
      BY DEF Write
<1>3. writes' \in [Slots -> Write \cup {None}]
      BY <1>1, <1>2 DEF StoreTypeOK
<1>4. /\ admins' = new /\ hash' = new /\ doubt' \in BOOLEAN
      /\ panel' = panel /\ checks' = checks /\ file' = file
      BY DEF WriteAdminsFile, StoreTypeOK
<1> QED BY <1>3, <1>4 DEF StoreTypeOK

LEMMA WriteOrders ==
    ASSUME StoreTypeOK, NEW new \in Contents, NEW by \in Sessions \cup {None},
           NEW restore \in BOOLEAN, WriteAdminsFile(new, by, restore)
    PROVE  InOrder'
<1> DEFINE w == [content |-> new, by |-> by, restore |-> restore, stage |-> "queued"]
<1>1. PICK s \in Slots : writes[s] = None /\ writes' = [writes EXCEPT ![s] = w]
      BY DEF WriteAdminsFile
<1>2. /\ admins' = new
      /\ doubt' = (doubt \/ \E o \in Slots : writes[o] # None)
      BY DEF WriteAdminsFile
<1>3. w \in Write /\ w # None /\ w.content = new /\ w.stage = "queued"
      BY NoneIsNone DEF Write
<1> HIDE DEF w
<1> SUFFICES ASSUME ~doubt' PROVE InOrder'
    BY DEF InOrder
<1>4. \A o \in Slots : writes[o] = None
      BY <1>2
<1>5. writes'[s] = w /\ \A o \in Slots \ {s} : writes'[o] = None
      BY <1>1, <1>4 DEF StoreTypeOK
<1>6. \A o \in Slots : writes'[o] # None => o = s
      BY <1>5
<1>7. Others(s)' = {}
      BY <1>6 DEF Others
<1> QED BY <1>2, <1>3, <1>5, <1>6, <1>7 DEF InOrder

LEMMA WriteKeeps ==
    ASSUME StoreInv, panel = "on", NEW new \in Contents, NEW by \in Sessions \cup {None},
           NEW restore \in BOOLEAN, WriteAdminsFile(new, by, restore),
           checking' \in Files \cup {None}
    PROVE  StoreInv'
<1>1. StoreTypeOK' BY WriteTypes DEF StoreInv
<1>2. InOrder' BY WriteOrders DEF StoreInv
<1>3. panel' = "on" /\ hash' = new /\ admins' = new BY DEF WriteAdminsFile
<1> QED BY <1>1, <1>2, <1>3 DEF StoreInv, OffIsEmpty, HashIsOfMemory

LEMMA ChangeKeeps ==
    ASSUME StoreInv, NEW new \in Contents, NEW by \in Sessions \cup {None},
           Change(new, by)
    PROVE  StoreInv'
<1>1. checking' \in Files \cup {None} BY DEF StoreInv, StoreTypeOK, Change
<1> QED BY <1>1, WriteKeeps DEF Change

\* Each edit writes administrators again.
LEMMA AdminsAfter ==
    ASSUME StoreTypeOK
    PROVE  /\ \A n \in Names, link \in Links \cup {None}, perms \in SUBSET Perms :
                  [admins EXCEPT ![n] = [perms |-> perms, link |-> link, password |-> 0]]
                      \in Contents
           /\ \A n \in Names : Named(n) => admins[n] \in Admin
           /\ \A n \in Names, link \in Links \cup {None}, perms \in SUBSET Perms :
                  Named(n) => [admins EXCEPT ![n].link = link, ![n].perms = perms] \in Contents
           /\ \A n \in Names, link \in Links \cup {None} :
                  Named(n) => [admins EXCEPT ![n].link = link] \in Contents
           /\ \A n \in Names : [admins EXCEPT ![n] = None] \in Contents
           /\ \A n \in Names : Named(n) /\ admins[n].password < MaxPassword
                  => [admins EXCEPT ![n].password = @ + 1] \in Contents
           /\ admins \in Contents
<1>0. admins \in Contents /\ admins \in [Names -> Admin \cup {None}] /\ MaxPassword \in Nat
      BY AdminAssumption DEF StoreTypeOK, Contents
<1>1. ASSUME NEW n \in Names, NEW link \in Links \cup {None}, NEW perms \in SUBSET Perms
      PROVE  [admins EXCEPT ![n] = [perms |-> perms, link |-> link, password |-> 0]] \in Contents
  <2>1. [perms |-> perms, link |-> link, password |-> 0] \in Admin
        BY <1>0 DEF Admin
  <2> QED BY <2>1, <1>0 DEF Contents
<1>2. ASSUME NEW n \in Names, Named(n) PROVE admins[n] \in Admin
      BY <1>0, <1>2 DEF Named
<1>3. ASSUME NEW n \in Names, NEW link \in Links \cup {None}, NEW perms \in SUBSET Perms, Named(n)
      PROVE  [admins EXCEPT ![n].link = link, ![n].perms = perms] \in Contents
  <2>1. [[admins[n] EXCEPT !.link = link] EXCEPT !.perms = perms] \in Admin
        BY <1>2, <1>3 DEF Admin
  <2>2. [admins EXCEPT ![n].link = link, ![n].perms = perms]
            = [admins EXCEPT ![n] = [[admins[n] EXCEPT !.link = link] EXCEPT !.perms = perms]]
        BY <1>0
  <2> QED BY <2>1, <2>2, <1>0 DEF Contents
<1>4. ASSUME NEW n \in Names, NEW link \in Links \cup {None}, Named(n)
      PROVE  [admins EXCEPT ![n].link = link] \in Contents
  <2>1. [admins[n] EXCEPT !.link = link] \in Admin
        BY <1>2, <1>4 DEF Admin
  <2> QED BY <2>1, <1>0 DEF Contents
<1>5. ASSUME NEW n \in Names PROVE [admins EXCEPT ![n] = None] \in Contents
      BY <1>0 DEF Contents
<1>6. ASSUME NEW n \in Names, Named(n), admins[n].password < MaxPassword
      PROVE  [admins EXCEPT ![n].password = @ + 1] \in Contents
  <2>1. [admins[n] EXCEPT !.password = @ + 1] \in Admin
        BY <1>0, <1>2, <1>6 DEF Admin
  <2> QED BY <2>1, <1>0 DEF Contents
<1> QED BY <1>0, <1>1, <1>2, <1>3, <1>4, <1>5, <1>6

LEMMA StoreInitInv == StoreInit => StoreInv
BY NoAdminsType DEF StoreInit, StoreInv, StoreTypeOK, OffIsEmpty, HashIsOfMemory, InOrder, Files

LEMMA RequestKeeps ==
    ASSUME StoreInv,
           Request \/ \E n \in Names, by \in Sessions : SetAdminPassword(n, by)
    PROVE  StoreInv'
<1>0. StoreTypeOK /\ None \in Sessions \cup {None} BY DEF StoreInv
<1>1. CASE CreateAdminsFile
  <2> DEFINE new == [NoAdmins EXCEPT ![Master] = [perms |-> {}, link |-> None, password |-> 0]]
  <2>1. new \in Contents
    <3>1. [perms |-> {}, link |-> None, password |-> 0] \in Admin
          BY AdminAssumption DEF Admin
    <3> QED BY <3>1, NoAdminsType DEF Contents
  <2>2. /\ panel = "setup" /\ panel' = "on" /\ admins' = new /\ hash' = new
        /\ checking' = checking /\ writes' = writes
        /\ \/ file' = new /\ checks' = TRUE /\ doubt' = FALSE
           \/ /\ checks' = FALSE /\ doubt' = TRUE
              /\ file' \in {file} \cup (IF file = Absent THEN {Empty} ELSE {})
        BY <1>1 DEF CreateAdminsFile
  <2> HIDE DEF new
  <2>3. file' \in Files /\ checks' \in BOOLEAN /\ doubt' \in BOOLEAN
        BY <2>1, <2>2, <1>0 DEF StoreTypeOK, Files
  <2>4. StoreTypeOK' BY <2>1, <2>2, <2>3, <1>0 DEF StoreTypeOK
  <2>5. \A s \in Slots : writes'[s] = None BY <2>2 DEF StoreInv, OffIsEmpty
  <2> QED BY <2>2, <2>4, <2>5 DEF StoreInv, OffIsEmpty, HashIsOfMemory, InOrder
<1>2. CASE \E n \in Names, link \in Links \cup {None}, perms \in SUBSET Perms : AddAdmin(n, link, perms)
      BY <1>0, <1>2, AdminsAfter, ChangeKeeps DEF AddAdmin
<1>3. CASE \E n \in Names, link \in Links \cup {None}, perms \in SUBSET Perms : EditAdmin(n, link, perms)
      BY <1>0, <1>3, AdminsAfter, ChangeKeeps DEF EditAdmin
<1>4. CASE \E n \in Names, link \in Links \cup {None} : SelfIdentifiers(n, link)
      BY <1>0, <1>4, AdminsAfter, ChangeKeeps DEF SelfIdentifiers
<1>5. CASE \E n \in Names : DeleteAdmin(n)
      BY <1>0, <1>5, AdminsAfter, ChangeKeeps DEF DeleteAdmin
<1>6. CASE SetAdminPreferences
      BY <1>0, <1>6, AdminsAfter, ChangeKeeps DEF SetAdminPreferences
<1>7. CASE \E n \in Names, by \in Sessions : SetAdminPassword(n, by)
      BY <1>0, <1>7, AdminsAfter, ChangeKeeps DEF SetAdminPassword
<1> QED BY <1>1, <1>2, <1>3, <1>4, <1>5, <1>6, <1>7 DEF Request

LEMMA FileKeeps ==
    ASSUME StoreInv, FileStep
    PROVE  StoreInv'
<1>0. /\ StoreTypeOK /\ OffIsEmpty /\ HashIsOfMemory /\ InOrder
      /\ writes \in [Slots -> Write \cup {None}]
      BY DEF StoreInv, StoreTypeOK
<1>1. ASSUME NEW s \in Slots, WriteOpens(s) PROVE StoreInv'
  <2>1. /\ writes[s] # None /\ writes[s] \in Write /\ file' = Empty
        /\ writes' = [writes EXCEPT ![s].stage = "open"]
        /\ UNCHANGED <<panel, admins, hash, checks, checking, doubt>>
        BY <1>0, <1>1 DEF WriteOpens
  <2> DEFINE w == [writes[s] EXCEPT !.stage = "open"]
  <2>2. w \in Write /\ w.content = writes[s].content /\ w # None
        BY <2>1, NoneIsNone DEF Write
  <2>3. writes' = [writes EXCEPT ![s] = w]
        BY <2>1
  <2> HIDE DEF w
  <2>4. /\ writes'[s] = w
        /\ \A o \in Slots \ {s} : writes'[o] = writes[o]
        /\ writes' \in [Slots -> Write \cup {None}]
        BY <1>0, <2>2, <2>3
  <2>5. StoreTypeOK' BY <1>0, <2>1, <2>4 DEF StoreTypeOK, Files
  <2>6. \A o \in Slots : (writes'[o] # None <=> writes[o] # None)
                         /\ (writes[o] # None => writes'[o].content = writes[o].content)
        BY <2>1, <2>2, <2>4
  <2>7. \A o \in Slots : Others(o)' = Others(o)
        BY <2>6 DEF Others
  <2>8. InOrder' BY <1>0, <2>1, <2>6, <2>7 DEF InOrder
  <2> QED BY <1>0, <2>1, <2>5, <2>6, <2>8 DEF StoreInv, OffIsEmpty, HashIsOfMemory
<1>2. ASSUME NEW s \in Slots, WriteLands(s) PROVE StoreInv'
  <2>1. /\ writes[s] # None /\ writes[s] \in Write /\ writes[s].stage = "open"
        /\ file' \in {writes[s].content} \cup (IF file = Empty THEN {} ELSE {Broken})
        /\ writes' = [writes EXCEPT ![s] = None]
        /\ doubt' = (doubt /\ ~(Others(s) = {} /\ file' = hash))
        /\ UNCHANGED <<panel, admins, hash, checks, checking>>
        BY <1>0, <1>2 DEF WriteLands
  <2>2. writes[s].content \in Contents BY <2>1 DEF Write
  <2>3. /\ file' \in Files /\ doubt' \in BOOLEAN
        /\ writes' \in [Slots -> Write \cup {None}]
        BY <1>0, <2>1, <2>2 DEF Files, StoreTypeOK
  <2>4. StoreTypeOK' BY <1>0, <2>1, <2>3 DEF StoreTypeOK
  <2>5. writes'[s] = None /\ \A o \in Slots \ {s} : writes'[o] = writes[o]
        BY <1>0, <2>1
  <2>6. panel = "on" BY <1>0, <2>1 DEF OffIsEmpty
  <2>7. ASSUME ~doubt' PROVE Others(s) = {} /\ file' = admins
        BY <1>0, <2>1, <2>6, <2>7 DEF InOrder, HashIsOfMemory
  <2>8. ASSUME ~doubt' PROVE \A o \in Slots : writes'[o] = None
        BY <2>5, <2>7, <2>8 DEF Others
  <2>9. InOrder' BY <2>1, <2>7, <2>8 DEF InOrder
  <2> QED BY <1>0, <2>1, <2>4, <2>6, <2>9 DEF StoreInv, OffIsEmpty, HashIsOfMemory
<1>3. ASSUME NEW s \in Slots, WriteFails(s) PROVE StoreInv'
  <2>1. /\ writes' = [writes EXCEPT ![s] = None] /\ doubt' = TRUE
        /\ UNCHANGED <<panel, admins, hash, checks, checking, file>>
        BY <1>3 DEF WriteFails
  <2>2. writes' \in [Slots -> Write \cup {None}] /\ \A o \in Slots : writes[o] = None => writes'[o] = None
        BY <1>0, <2>1
  <2>3. StoreTypeOK' BY <1>0, <2>1, <2>2 DEF StoreTypeOK
  <2> QED BY <1>0, <2>1, <2>2, <2>3 DEF StoreInv, OffIsEmpty, HashIsOfMemory, InOrder
<1>4. CASE CheckBegins
  <2>1. /\ panel = "on" /\ checking' = file
        /\ UNCHANGED <<panel, admins, hash, checks, file, writes, doubt>>
        BY <1>4 DEF CheckBegins, fileVars
  <2>2. \A s \in Slots : Others(s)' = Others(s) BY <2>1 DEF Others
  <2> QED BY <1>0, <2>1, <2>2 DEF StoreInv, StoreTypeOK, OffIsEmpty, HashIsOfMemory, InOrder
<1>5. CASE CheckEnds
  <2>1. checking # None /\ checking' = None /\ panel = "on"
        BY <1>0, <1>5 DEF CheckEnds, OffIsEmpty
  <2>2. CASE checking # hash
    <3>1. WriteAdminsFile(admins, None, TRUE) BY <1>5, <2>2 DEF CheckEnds
    <3>2. admins \in Contents BY <1>0 DEF StoreTypeOK
    <3> QED BY <2>1, <3>1, <3>2, WriteKeeps
  <2>3. CASE checking = hash
    <3>1. UNCHANGED <<panel, admins, hash, checks, file, writes, doubt>>
          BY <1>5, <2>3 DEF CheckEnds, fileVars
    <3>2. \A s \in Slots : Others(s)' = Others(s) BY <3>1 DEF Others
    <3> QED BY <1>0, <2>1, <3>1, <3>2 DEF StoreInv, StoreTypeOK, OffIsEmpty, HashIsOfMemory, InOrder
  <2> QED BY <2>2, <2>3
<1> QED BY <1>1, <1>2, <1>3, <1>4, <1>5 DEF FileStep

LEMMA OutsideKeeps ==
    ASSUME StoreInv, Tamper \/ PanelRestarts \/ LoadAdminsFile
    PROVE  StoreInv'
<1>0. /\ StoreTypeOK /\ OffIsEmpty /\ HashIsOfMemory /\ InOrder
      BY DEF StoreInv
<1>1. CASE Tamper
  <2>1. /\ file' \in {Absent, Broken} /\ doubt' = TRUE
        /\ UNCHANGED <<panel, admins, hash, checks, checking, writes>>
        BY <1>1 DEF Tamper
  <2> QED BY <1>0, <2>1 DEF StoreInv, StoreTypeOK, Files, OffIsEmpty, HashIsOfMemory, InOrder
<1>2. CASE PanelRestarts
  <2>1. /\ panel' \in {"setup", "loading"} /\ admins' = NoAdmins /\ hash' = None
        /\ checks' = FALSE /\ checking' = None /\ doubt' = FALSE /\ file' = file
        /\ writes' = [s \in Slots |-> None]
        BY <1>2 DEF PanelRestarts
  <2>2. StoreTypeOK' BY <1>0, <2>1, NoAdminsType DEF StoreTypeOK
  <2> QED BY <2>1, <2>2 DEF StoreInv, OffIsEmpty, HashIsOfMemory, InOrder
<1>3. CASE LoadAdminsFile
  <2>1. /\ panel = "loading" /\ UNCHANGED <<checking, file, writes>> /\ doubt' = FALSE
        /\ \/ panel' = "down" /\ UNCHANGED <<admins, hash, checks>>
           \/ /\ file \notin {Absent, Empty, Broken}
              /\ panel' = "on" /\ admins' = file /\ hash' = file /\ checks' = TRUE
        BY <1>3 DEF LoadAdminsFile
  <2>2. StoreTypeOK' BY <1>0, <2>1 DEF StoreTypeOK, Files
  <2>3. \A s \in Slots : writes'[s] = None BY <1>0, <2>1 DEF OffIsEmpty
  <2> QED BY <1>0, <2>1, <2>2, <2>3 DEF StoreInv, OffIsEmpty, HashIsOfMemory, InOrder
<1> QED BY <1>1, <1>2, <1>3

LEMMA StoreStep == StoreInv /\ [StoreNext]_storeVars => StoreInv'
<1> SUFFICES ASSUME StoreInv, [StoreNext]_storeVars PROVE StoreInv'
    OBVIOUS
<1>1. CASE UNCHANGED storeVars
  <2>1. UNCHANGED <<panel, admins, hash, checks, checking, file, writes, doubt>>
        BY <1>1 DEF storeVars, fileVars
  <2>2. \A s \in Slots : Others(s)' = Others(s) BY <2>1 DEF Others
  <2> QED BY <2>1, <2>2 DEF StoreInv, StoreTypeOK, OffIsEmpty, HashIsOfMemory, InOrder
<1>2. CASE StoreNext
      BY <1>2, RequestKeeps, FileKeeps, OutsideKeeps DEF StoreNext
<1> QED BY <1>1, <1>2

LEMMA StoreSafe == StoreSpec => []StoreInv
BY StoreInitInv, StoreStep, PTL DEF StoreSpec

-----------------------------------------------------------------------------
(* The accounts.  Of what a step makes of the administrators, it matters    *)
(* which links are there afterwards: those that were, or one more.          *)

\* Who is left has the link that he had.
LinksStay ==
    \A n \in Names : admins'[n] # None => Named(n) /\ admins'[n].link = admins[n].link

OthersStay(k) == \A n \in Names \ {k} : admins'[n] = admins[n]

Added(k, link) ==
    /\ ~Named(k)
    /\ link # None => HolderOfUid(link) = {}
    /\ admins'[k].link = link
    /\ OthersStay(k)

Edited(k, link) ==
    /\ Named(k)
    /\ UidAvailable(k, link)
    /\ admins'[k].link = link
    /\ OthersStay(k)

LEMMA LinksStep ==
    ASSUME StoreTypeOK, [StoreNext]_storeVars
    PROVE  \/ LinksStay
           \/ \E k \in Names, link \in Links \cup {None} : Added(k, link) \/ Edited(k, link)
           \/ CreateAdminsFile
           \/ LoadAdminsFile
<1>0. admins \in [Names -> Admin \cup {None}]
      BY DEF StoreTypeOK, Contents
<1>1. CASE UNCHANGED admins
      BY <1>1 DEF LinksStay, Named
<1>2. ASSUME NEW k \in Names, NEW link \in Links \cup {None}, NEW perms \in SUBSET Perms,
             AddAdmin(k, link, perms)
      PROVE  Added(k, link)
  <2>1. /\ ~Named(k) /\ (link # None => HolderOfUid(link) = {})
        /\ admins' = [admins EXCEPT ![k] = [perms |-> perms, link |-> link, password |-> 0]]
        BY <1>2 DEF AddAdmin, Change, WriteAdminsFile
  <2> QED BY <1>0, <2>1 DEF Added, OthersStay
<1>3. ASSUME NEW k \in Names, NEW link \in Links \cup {None}, NEW perms \in SUBSET Perms,
             EditAdmin(k, link, perms)
      PROVE  Edited(k, link)
  <2>1. /\ Named(k) /\ UidAvailable(k, link)
        /\ admins' = [admins EXCEPT ![k].link = link, ![k].perms = perms]
        BY <1>3 DEF EditAdmin, Change, WriteAdminsFile
  <2>2. admins[k] \in Admin BY <1>0, <2>1 DEF Named
  <2>3. admins'[k].link = link /\ OthersStay(k)
        BY <1>0, <2>1, <2>2 DEF Admin, OthersStay
  <2> QED BY <2>1, <2>3 DEF Edited
<1>4. ASSUME NEW k \in Names, NEW link \in Links \cup {None}, SelfIdentifiers(k, link)
      PROVE  Edited(k, link)
  <2>1. /\ Named(k) /\ UidAvailable(k, link)
        /\ admins' = [admins EXCEPT ![k].link = link]
        BY <1>4 DEF SelfIdentifiers, Change, WriteAdminsFile
  <2>2. admins[k] \in Admin BY <1>0, <2>1 DEF Named
  <2>3. admins'[k].link = link /\ OthersStay(k)
        BY <1>0, <2>1, <2>2 DEF Admin, OthersStay
  <2> QED BY <2>1, <2>3 DEF Edited
<1>5. ASSUME NEW k \in Names, DeleteAdmin(k) PROVE LinksStay
  <2>1. admins' = [admins EXCEPT ![k] = None]
        BY <1>5 DEF DeleteAdmin, Change, WriteAdminsFile
  <2> QED BY <1>0, <2>1 DEF LinksStay, Named
<1>6. ASSUME NEW k \in Names, NEW by \in Sessions, SetAdminPassword(k, by)
      PROVE  LinksStay
  <2>1. Named(k) /\ admins' = [admins EXCEPT ![k].password = @ + 1]
        BY <1>6 DEF SetAdminPassword, Change, WriteAdminsFile
  <2>2. admins[k] \in Admin BY <1>0, <2>1 DEF Named
  <2>3. admins'[k].link = admins[k].link /\ OthersStay(k)
        BY <1>0, <2>1, <2>2 DEF Admin, OthersStay
  <2> QED BY <2>1, <2>3 DEF LinksStay, OthersStay, Named
<1>7. CASE SetAdminPreferences
      BY <1>1, <1>7 DEF SetAdminPreferences, Change, WriteAdminsFile
<1>8. CASE PanelRestarts
      BY <1>8 DEF PanelRestarts, NoAdmins, LinksStay
<1>9. CASE FileStep \/ Tamper
      BY <1>1, <1>9 DEF FileStep, Tamper, WriteOpens, WriteLands, WriteFails, CheckBegins,
                        CheckEnds, WriteAdminsFile
<1>10. CASE UNCHANGED storeVars
      BY <1>1, <1>10 DEF storeVars
<1> QED BY <1>2, <1>3, <1>4, <1>5, <1>6, <1>7, <1>8, <1>9, <1>10 DEF StoreNext, Request

\* An edit under an id that nobody has is refused when somebody else has the
\* identifier; under an id that is known it is the edited one who has it.
LEMMA TakenStep ==
    ASSUME StoreInv, [StoreNext]_storeVars,
           NEW m \in Names, NEW n \in Names, m # n, Named(m), Named(n), panel = "on",
           SameAccount(admins', m, n), ~SameAccount(admins, m, n)
    PROVE  \E e \in {m, n} : /\ Linked(admins, e) /\ admins'[e].link # admins[e].link
                             /\ admins'[e].link.id = admins[e].link.id
<1>1. ~LinksStay
      BY DEF LinksStay, SameAccount, Linked, Named
<1>2. ~CreateAdminsFile /\ ~LoadAdminsFile
      BY DEF CreateAdminsFile, LoadAdminsFile
<1>3. PICK k \in Names, link \in Links \cup {None} : Added(k, link) \/ Edited(k, link)
      BY <1>1, <1>2, LinksStep DEF StoreInv
<1>4. k \in {m, n}
      BY <1>3 DEF Added, Edited, OthersStay, SameAccount, Linked
<1>5. Edited(k, link)
      BY <1>3, <1>4 DEF Added
<1>6. PICK o \in {m, n} : o # k
      OBVIOUS
<1>7. /\ admins'[o] = admins[o] /\ admins'[k].link = link
      /\ Linked(admins', o) /\ Linked(admins', k)
      /\ admins'[o].link.identifier = link.identifier
      BY <1>4, <1>5, <1>6 DEF Edited, OthersStay, SameAccount
<1>8. link # None /\ o \in HolderOfIdentifier(link)
      BY <1>7 DEF Linked, HolderOfIdentifier, Named
<1>9. k \notin HolderOfIdentifier(link)
      BY <1>4, <1>6, <1>7 DEF HolderOfIdentifier, SameAccount, Linked, Named
<1>10. k \in HolderOfUid(link)
      BY <1>5, <1>8, <1>9 DEF Edited, UidAvailable
<1>11. Linked(admins, k) /\ admins[k].link.id = link.id
      BY <1>10 DEF HolderOfUid, Linked, Named
<1>12. admins[k].link # link
      BY <1>9, <1>11 DEF HolderOfIdentifier, Linked, Named
<1> QED BY <1>4, <1>7, <1>11, <1>12

\* Ids are told apart in memory, in what is being written, and in the file
\* that may be loaded.
Unique(a) == \A m, n \in Names : m # n => ~SameId(a, m, n)

UniqueInv ==
    /\ Unique(admins)
    /\ \A s \in Slots : writes[s] # None => Unique(writes[s].content)
    /\ file \in Contents => Unique(file)

\* What a step leaves to be written and in the file was there, or is what is
\* now in memory.
LEMMA ContentStep ==
    ASSUME StoreTypeOK, [StoreNext]_storeVars
    PROVE  /\ \A s \in Slots : writes'[s] # None =>
                  \/ writes'[s].content = admins'
                  \/ writes[s] # None /\ writes'[s].content = writes[s].content
           /\ file' \in Contents =>
                  \/ file' \in {file, admins'}
                  \/ \E s \in Slots : writes[s] # None /\ file' = writes[s].content
<1> DEFINE Goal == /\ \A s \in Slots : writes'[s] # None =>
                          \/ writes'[s].content = admins'
                          \/ writes[s] # None /\ writes'[s].content = writes[s].content
                   /\ file' \in Contents =>
                          \/ file' \in {file, admins'}
                          \/ \E s \in Slots : writes[s] # None /\ file' = writes[s].content
<1>0. writes \in [Slots -> Write \cup {None}] /\ {Absent, Empty, Broken} \cap Contents = {}
      BY AdminAssumption DEF StoreTypeOK
<1>1. ASSUME NEW new, NEW by, NEW restore, WriteAdminsFile(new, by, restore) PROVE Goal
  <2>1. PICK s \in Slots :
            writes' = [writes EXCEPT ![s] =
                [content |-> new, by |-> by, restore |-> restore, stage |-> "queued"]]
        BY <1>1 DEF WriteAdminsFile
  <2>2. writes'[s].content = new /\ \A o \in Slots \ {s} : writes'[o] = writes[o]
        BY <1>0, <2>1
  <2> QED BY <1>1, <2>2 DEF WriteAdminsFile
<1>2. CASE Request \/ \E n \in Names, by \in Sessions : SetAdminPassword(n, by)
  <2>1. CASE CreateAdminsFile
        BY <1>0, <2>1 DEF CreateAdminsFile
  <2> QED BY <1>1, <1>2, <2>1 DEF Request, AddAdmin, EditAdmin, SelfIdentifiers, DeleteAdmin,
                                 SetAdminPreferences, SetAdminPassword, Change
<1>3. ASSUME NEW s \in Slots, WriteOpens(s) PROVE Goal
  <2>1. /\ writes[s] \in Write /\ writes[s] # None /\ file' = Empty
        /\ writes' = [writes EXCEPT ![s].stage = "open"]
        BY <1>0, <1>3 DEF WriteOpens
  <2>2. writes'[s].content = writes[s].content /\ \A o \in Slots \ {s} : writes'[o] = writes[o]
        BY <1>0, <2>1 DEF Write
  <2> QED BY <1>0, <2>1, <2>2
<1>4. ASSUME NEW s \in Slots, WriteLands(s) PROVE Goal
      BY <1>0, <1>4 DEF WriteLands
<1>5. ASSUME NEW s \in Slots, WriteFails(s) PROVE Goal
      BY <1>0, <1>5 DEF WriteFails
<1>6. CASE CheckBegins
      BY <1>6 DEF CheckBegins, fileVars
<1>7. CASE CheckEnds
      BY <1>1, <1>7 DEF CheckEnds, fileVars
<1>8. CASE Tamper \/ PanelRestarts \/ LoadAdminsFile
      BY <1>0, <1>8 DEF Tamper, PanelRestarts, LoadAdminsFile
<1>9. CASE UNCHANGED storeVars
      BY <1>9 DEF storeVars, fileVars
<1> QED BY <1>2, <1>3, <1>4, <1>5, <1>6, <1>7, <1>8, <1>9 DEF StoreNext, FileStep

LEMMA UniqueInit == StoreInit => UniqueInv
BY AdminAssumption DEF StoreInit, UniqueInv, Unique, SameId, Linked, NoAdmins

LEMMA UniqueStep == StoreInv /\ UniqueInv /\ [StoreNext]_storeVars => UniqueInv'
<1> SUFFICES ASSUME StoreInv, UniqueInv, [StoreNext]_storeVars PROVE UniqueInv'
    OBVIOUS
<1>0. StoreTypeOK /\ Unique(admins) BY DEF StoreInv, UniqueInv
<1>1. Unique(admins')
  <2>1. CASE LinksStay
        BY <1>0, <2>1 DEF LinksStay, Unique, SameId, Linked, Named
  <2>2. ASSUME NEW k \in Names, NEW link \in Links \cup {None}, Added(k, link) \/ Edited(k, link)
        PROVE  Unique(admins')
    <3>1. admins'[k].link = link /\ OthersStay(k)
          BY <2>2 DEF Added, Edited
    <3>2. \A n \in Names \ {k} : link # None => n \notin HolderOfUid(link)
      <4>1. CASE Added(k, link) BY <4>1 DEF Added
      <4>2. CASE Edited(k, link) /\ link # None
        <5>1. HolderOfUid(link) = {} \/ k \in HolderOfUid(link)
              BY <4>2 DEF Edited, UidAvailable
        <5> QED BY <1>0, <5>1 DEF HolderOfUid, Unique, SameId, Linked, Named
      <4> QED BY <2>2, <4>1, <4>2
    <3> QED BY <1>0, <3>1, <3>2 DEF OthersStay, HolderOfUid, Unique, SameId, Linked, Named
  <2>3. CASE CreateAdminsFile
    <3>1. admins' = [NoAdmins EXCEPT ![Master] = [perms |-> {}, link |-> None, password |-> 0]]
          BY <2>3 DEF CreateAdminsFile
    <3>2. \A n \in Names \ {Master} : admins'[n] = None
          BY <3>1 DEF NoAdmins
    <3> QED BY <3>2 DEF Unique, SameId, Linked
  <2>4. CASE LoadAdminsFile
    <3>1. UNCHANGED admins \/ (file \in Contents /\ admins' = file)
          BY <1>0, <2>4 DEF LoadAdminsFile, StoreTypeOK, Files
    <3> QED BY <1>0, <3>1 DEF UniqueInv
  <2> QED BY <1>0, <2>1, <2>2, <2>3, <2>4, LinksStep
<1>2. \A s \in Slots : writes'[s] # None => Unique(writes'[s].content)
      BY <1>0, <1>1, ContentStep DEF UniqueInv
<1>3. file' \in Contents => Unique(file')
      BY <1>0, <1>1, ContentStep DEF UniqueInv
<1> QED BY <1>1, <1>2, <1>3 DEF UniqueInv

LEMMA UniqueSafe == StoreSpec => []UniqueInv
BY UniqueInit, UniqueStep, StoreSafe, PTL DEF StoreSpec

-----------------------------------------------------------------------------
(* The store with the sessions and sockets is the store.                    *)

LEMMA SocketsStep == TypeOK /\ [Next]_vars => [StoreNext]_storeVars
<1> SUFFICES ASSUME TypeOK, [Next]_vars PROVE [StoreNext]_storeVars
    OBVIOUS
<1>1. CASE UNCHANGED vars
      BY <1>1 DEF vars
<1>2. ASSUME NEW s \in Sessions,
             \/ \E n \in Names : SignIn(s, n)
             \/ SignOut(s)
             \/ HandleConnection(s)
      PROVE  UNCHANGED storeVars
      BY <1>2 DEF SignIn, SignOut, HandleConnection
<1>3. ASSUME NEW s \in Sessions, BootstrapMaster(s) PROVE StoreNext
      BY <1>3 DEF BootstrapMaster, StoreNext, Request
<1>4. ASSUME NEW s \in Sessions, ChangePassword(s) PROVE StoreNext
  <2>1. sessions[s] \in Auth /\ SetAdminPassword(sessions[s].name, s)
        BY <1>4 DEF ChangePassword, Valid, TypeOK
  <2> QED BY <2>1 DEF Auth, StoreNext
<1>5. CASE RefreshOnlineAdmins \/ \E k \in DOMAIN sockets : Disconnect(k)
      BY <1>5 DEF RefreshOnlineAdmins, Disconnect
<1>6. CASE EditOthers \/ EditSelf \/ Prefer
      BY <1>6 DEF EditOthers, EditSelf, Prefer, StoreNext, Request
<1>7. CASE AddOrDelete
      BY <1>7 DEF AddOrDelete, StoreNext, Request
<1>8. CASE FileWork \/ \E slot \in Slots : WriteEnds(slot)
      BY <1>8 DEF FileWork, WriteEnds, StoreNext, FileStep
<1>9. CASE Restart
      BY <1>9 DEF Restart, StoreNext
<1> QED BY <1>1, <1>2, <1>3, <1>4, <1>5, <1>6, <1>7, <1>8, <1>9 DEF Next

-----------------------------------------------------------------------------
(* The sessions: what whoever changed a password waits for, or has got, is  *)
(* the present password.                                                    *)

OffIsDisconnected ==
    panel # "on" =>
        sockets = <<>> /\ (\A s \in Sessions : changing[s] = None)
                       /\ (\A n \in Names : changer[n] = None)

OwnPassword ==
    \A n \in Names : changer[n] # None =>
        LET s == changer[n] IN
        /\ Named(n)
        /\ IF changing[s] # None /\ changing[s].name = n
           THEN changing[s].password = admins[n].password
           ELSE sessions[s] # None /\ sessions[s].name = n
                    => sessions[s].password = admins[n].password

SocketsInv == TypeOK /\ StoreInv /\ OffIsDisconnected /\ OwnPassword /\ RoomsFollow

\* The edits that leave the passwords, or the permissions, as they are.
SamePasswords ==
    \A n \in Names : Named(n) => Named(n)' /\ admins'[n].password = admins[n].password

SamePerms ==
    \A n \in Names : Named(n) => Named(n)' /\ admins'[n].perms = admins[n].perms

LEMMA EditTypes ==
    ASSUME StoreTypeOK
    PROVE  /\ \A n \in Names, link \in Links \cup {None}, perms \in SUBSET Perms :
                  EditAdmin(n, link, perms) => SamePasswords
           /\ \A n \in Names, link \in Links \cup {None} :
                  SelfIdentifiers(n, link) => SamePasswords
           /\ \A n \in Names, by \in Sessions :
                  SetAdminPassword(n, by) => SamePerms /\ admins'[n].password = admins[n].password + 1
                      /\ \A m \in Names \ {n} : admins'[m] = admins[m]
<1>0. admins \in [Names -> Admin \cup {None}] BY DEF StoreTypeOK, Contents
<1>1. ASSUME NEW n \in Names, NEW link \in Links \cup {None}, NEW perms \in SUBSET Perms,
             EditAdmin(n, link, perms)
      PROVE  SamePasswords
  <2>1. Named(n) /\ admins' = [admins EXCEPT ![n].link = link, ![n].perms = perms]
        BY <1>1 DEF EditAdmin, Change, WriteAdminsFile
  <2>2. admins[n] \in Admin BY <1>0, <2>1 DEF Named
  <2> DEFINE a == [[admins[n] EXCEPT !.link = link] EXCEPT !.perms = perms]
  <2>3. a \in Admin /\ a.password = admins[n].password BY <2>2 DEF Admin
  <2>4. admins' = [admins EXCEPT ![n] = a] BY <1>0, <2>1
  <2> HIDE DEF a
  <2> QED BY <1>0, <2>3, <2>4, NoneIsNone DEF SamePasswords, Named
<1>2. ASSUME NEW n \in Names, NEW link \in Links \cup {None}, SelfIdentifiers(n, link)
      PROVE  SamePasswords
  <2>1. Named(n) /\ admins' = [admins EXCEPT ![n].link = link]
        BY <1>2 DEF SelfIdentifiers, Change, WriteAdminsFile
  <2>2. admins[n] \in Admin BY <1>0, <2>1 DEF Named
  <2> DEFINE a == [admins[n] EXCEPT !.link = link]
  <2>3. a \in Admin /\ a.password = admins[n].password BY <2>2 DEF Admin
  <2>4. admins' = [admins EXCEPT ![n] = a] BY <1>0, <2>1
  <2> HIDE DEF a
  <2> QED BY <1>0, <2>3, <2>4, NoneIsNone DEF SamePasswords, Named
<1>3. ASSUME NEW n \in Names, NEW by \in Sessions, SetAdminPassword(n, by)
      PROVE  SamePerms /\ admins'[n].password = admins[n].password + 1
                 /\ \A m \in Names \ {n} : admins'[m] = admins[m]
  <2>1. Named(n) /\ admins[n].password < MaxPassword
        /\ admins' = [admins EXCEPT ![n].password = @ + 1]
        BY <1>3 DEF SetAdminPassword, Change, WriteAdminsFile
  <2>2. admins[n] \in Admin BY <1>0, <2>1 DEF Named
  <2> DEFINE a == [admins[n] EXCEPT !.password = @ + 1]
  <2>3. a \in Admin /\ a.password = admins[n].password + 1 /\ a.perms = admins[n].perms
        BY <2>1, <2>2, AdminAssumption DEF Admin
  <2>4. admins' = [admins EXCEPT ![n] = a] BY <1>0, <2>1
  <2> HIDE DEF a
  <2>5. admins'[n] = a /\ \A m \in Names \ {n} : admins'[m] = admins[m] BY <1>0, <2>4
  <2>6. Named(n)' BY <2>3, <2>5, NoneIsNone DEF Named
  <2> QED BY <2>3, <2>5, <2>6 DEF SamePerms, Named
<1> QED BY <1>1, <1>2, <1>3

\* A step that leaves alone what the two invariants speak of keeps them.
LEMMA OwnUnchanged ==
    ASSUME OwnPassword, SamePasswords, UNCHANGED sessionVars
    PROVE  OwnPassword'
<1>1. UNCHANGED <<sessions, changing, changer>> BY DEF sessionVars
<1> QED BY <1>1 DEF OwnPassword, SamePasswords

LEMMA SocketTypes ==
    ASSUME TypeOK
    PROVE  /\ \A k \in DOMAIN sockets : sockets[k] \in Socket
           /\ Len(sockets) \in Nat /\ DOMAIN sockets = 1 .. Len(sockets)
<1>1. sockets \in Seq(Socket) BY DEF TypeOK
<1> QED BY <1>1

LEMMA RoomsUnchanged ==
    ASSUME RoomsFollow, SamePerms, UNCHANGED socketVars, TypeOK
    PROVE  RoomsFollow'
<1>1. UNCHANGED <<sockets, refreshes, cut>> BY DEF socketVars
<1>2. \A k \in DOMAIN sockets : sockets[k].name \in Names
      BY SocketTypes DEF Socket
<1> QED BY <1>1, <1>2 DEF RoomsFollow, SamePerms, HasPermission

-----------------------------------------------------------------------------
(* The steps of the sessions.                                               *)

LEMMA AuthIsSome == \A a \in Auth : a # None
BY SocketsAssumption

LEMMA SignInKeeps ==
    ASSUME SocketsInv, NEW s \in Sessions, NEW n \in Names, SignIn(s, n)
    PROVE  TypeOK' /\ OffIsDisconnected' /\ OwnPassword' /\ RoomsFollow'
<1>1. /\ TypeOK /\ OffIsDisconnected /\ OwnPassword /\ RoomsFollow
      /\ UNCHANGED <<storeVars, socketVars, changing, changer>>
      /\ Named(n)
      /\ sessions' = [sessions EXCEPT ![s] = [name |-> n, password |-> admins[n].password]]
      BY DEF SocketsInv, SignIn
<1>2. /\ sessions \in [Sessions -> Auth \cup {None}]
      /\ UNCHANGED <<panel, admins, hash, checks, checking, file, writes, doubt>>
      /\ UNCHANGED <<sockets, refreshes, cut, changing, changer>>
      BY <1>1 DEF TypeOK, storeVars, fileVars, socketVars
<1>3. admins[n] \in Admin BY <1>1, AdminsAfter DEF TypeOK
<1>4. [name |-> n, password |-> admins[n].password] \in Auth
      BY <1>3 DEF Admin, Auth
<1>5. sessions' \in [Sessions -> Auth \cup {None}] BY <1>1, <1>2, <1>4
<1>6. TypeOK' BY <1>1, <1>2, <1>5 DEF TypeOK, StoreTypeOK
<1>7. \A o \in Sessions : sessions'[o] = IF o = s THEN [name |-> n, password |-> admins[n].password]
                                                  ELSE sessions[o]
      BY <1>1, <1>2
<1>8. changer \in [Names -> Sessions \cup {None}] BY <1>1 DEF TypeOK
<1>9. OwnPassword'
  <2> SUFFICES ASSUME NEW m \in Names, changer[m] # None
               PROVE  /\ Named(m)
                      /\ IF changing[changer[m]] # None /\ changing[changer[m]].name = m
                         THEN changing[changer[m]].password = admins[m].password
                         ELSE sessions'[changer[m]] # None /\ sessions'[changer[m]].name = m
                                  => sessions'[changer[m]].password = admins[m].password
      BY <1>2 DEF OwnPassword, Named
  <2>1. changer[m] \in Sessions BY <1>8
  <2> QED BY <1>1, <1>7, <2>1 DEF OwnPassword
<1>10. SamePerms BY <1>2 DEF SamePerms, Named
<1> QED BY <1>1, <1>2, <1>6, <1>9, <1>10, RoomsUnchanged DEF OffIsDisconnected

LEMMA SignOutKeeps ==
    ASSUME SocketsInv, NEW s \in Sessions, SignOut(s)
    PROVE  TypeOK' /\ OffIsDisconnected' /\ OwnPassword' /\ RoomsFollow'
<1>1. /\ TypeOK /\ OffIsDisconnected /\ OwnPassword /\ RoomsFollow
      /\ UNCHANGED <<storeVars, socketVars, changing, changer>>
      /\ sessions' = [sessions EXCEPT ![s] = None]
      BY DEF SocketsInv, SignOut
<1>2. /\ sessions \in [Sessions -> Auth \cup {None}]
      /\ UNCHANGED <<panel, admins, hash, checks, checking, file, writes, doubt>>
      /\ UNCHANGED <<sockets, refreshes, cut, changing, changer>>
      BY <1>1 DEF TypeOK, storeVars, fileVars, socketVars
<1>3. sessions' \in [Sessions -> Auth \cup {None}] BY <1>1, <1>2
<1>4. TypeOK' BY <1>1, <1>2, <1>3 DEF TypeOK, StoreTypeOK
<1>5. changer \in [Names -> Sessions \cup {None}] BY <1>1 DEF TypeOK
<1>6. \A o \in Sessions : sessions'[o] # None => sessions'[o] = sessions[o]
      BY <1>1, <1>2
<1>7. OwnPassword'
  <2> SUFFICES ASSUME NEW m \in Names, changer[m] # None
               PROVE  /\ Named(m)
                      /\ IF changing[changer[m]] # None /\ changing[changer[m]].name = m
                         THEN changing[changer[m]].password = admins[m].password
                         ELSE sessions'[changer[m]] # None /\ sessions'[changer[m]].name = m
                                  => sessions'[changer[m]].password = admins[m].password
      BY <1>2 DEF OwnPassword, Named
  <2>1. changer[m] \in Sessions BY <1>5
  <2> QED BY <1>1, <1>6, <2>1 DEF OwnPassword
<1>8. SamePerms BY <1>2 DEF SamePerms, Named
<1> QED BY <1>1, <1>2, <1>4, <1>7, <1>8, RoomsUnchanged DEF OffIsDisconnected

LEMMA BootstrapKeeps ==
    ASSUME SocketsInv, StoreTypeOK', NEW s \in Sessions, BootstrapMaster(s)
    PROVE  TypeOK' /\ OffIsDisconnected' /\ OwnPassword' /\ RoomsFollow'
<1>1. /\ TypeOK /\ OffIsDisconnected
      /\ panel = "setup" /\ panel' = "on"
      /\ UNCHANGED <<sockets, refreshes, cut, changing, changer>>
      /\ sessions' \in {sessions, [sessions EXCEPT ![s] = [name |-> Master, password |-> 0]]}
      BY DEF SocketsInv, BootstrapMaster, CreateAdminsFile, socketVars
<1>2. [name |-> Master, password |-> 0] \in Auth BY AdminAssumption DEF Auth
<1>3. sessions \in [Sessions -> Auth \cup {None}] BY <1>1 DEF TypeOK
<1>4. sessions' \in [Sessions -> Auth \cup {None}] BY <1>1, <1>2, <1>3
<1>5. TypeOK' BY <1>1, <1>4 DEF TypeOK
<1>6. sockets = <<>> /\ \A n \in Names : changer'[n] = None
      BY <1>1 DEF OffIsDisconnected
<1> QED BY <1>1, <1>5, <1>6 DEF OffIsDisconnected, OwnPassword, RoomsFollow

LEMMA ChangePasswordKeeps ==
    ASSUME SocketsInv, StoreTypeOK', NEW s \in Sessions, ChangePassword(s)
    PROVE  TypeOK' /\ OffIsDisconnected' /\ OwnPassword' /\ RoomsFollow'
<1> DEFINE n == sessions[s].name
           auth == [name |-> n, password |-> admins[n].password + 1]
<1>1. /\ TypeOK /\ OffIsDisconnected /\ OwnPassword /\ RoomsFollow
      /\ sessions[s] # None /\ changing[s] = None
      /\ SetAdminPassword(n, s)
      /\ changing' = [changing EXCEPT ![s] = auth]
      /\ changer' = [changer EXCEPT ![n] = s]
      /\ UNCHANGED <<sessions, socketVars>>
      BY DEF SocketsInv, ChangePassword, Valid
<1>2. /\ sessions \in [Sessions -> Auth \cup {None}]
      /\ changing \in [Sessions -> Auth \cup {None}]
      /\ changer \in [Names -> Sessions \cup {None}]
      /\ StoreTypeOK
      BY <1>1 DEF TypeOK
<1>3. sessions[s] \in Auth /\ n \in Names BY <1>1, <1>2 DEF Auth
<1>4. /\ SamePerms /\ admins'[n].password = admins[n].password + 1
      /\ \A m \in Names \ {n} : admins'[m] = admins[m]
      BY <1>1, <1>2, <1>3, EditTypes
<1>5. Named(n) /\ admins[n].password < MaxPassword /\ panel' = "on"
      BY <1>1 DEF SetAdminPassword, Change, WriteAdminsFile
<1>6. auth \in Auth
  <2>1. admins[n] \in Admin BY <1>2, <1>3, <1>5, AdminsAfter
  <2>2. admins[n].password + 1 \in 0 .. MaxPassword
        BY <1>5, <2>1, AdminAssumption DEF Admin
  <2> QED BY <1>3, <2>2 DEF Auth
<1>7. auth # None /\ auth.name = n /\ auth.password = admins'[n].password
      BY <1>4, AuthIsSome, <1>6
<1> HIDE DEF auth
<1>8. changing' \in [Sessions -> Auth \cup {None}] /\ changer' \in [Names -> Sessions \cup {None}]
      BY <1>1, <1>2, <1>3, <1>6
<1>9. UNCHANGED <<sockets, refreshes, cut, sessions>> BY <1>1 DEF socketVars
<1>10. TypeOK' BY <1>1, <1>8, <1>9 DEF TypeOK
<1>11. /\ changing'[s] = auth /\ \A o \in Sessions \ {s} : changing'[o] = changing[o]
       /\ changer'[n] = s /\ \A m \in Names \ {n} : changer'[m] = changer[m]
       BY <1>1, <1>2, <1>3
<1> HIDE DEF n
<1>12. OwnPassword'
  <2> SUFFICES ASSUME NEW m \in Names, changer'[m] # None
               PROVE  /\ Named(m)'
                      /\ IF changing'[changer'[m]] # None /\ changing'[changer'[m]].name = m
                         THEN changing'[changer'[m]].password = admins'[m].password
                         ELSE sessions[changer'[m]] # None /\ sessions[changer'[m]].name = m
                                  => sessions[changer'[m]].password = admins'[m].password
      BY <1>9 DEF OwnPassword
  <2>1. CASE m = n
        BY <1>3, <1>4, <1>5, <1>7, <1>11, <2>1 DEF SamePerms
  <2>2. CASE m # n
    <3>1. changer'[m] = changer[m] /\ admins'[m] = admins[m] /\ changer[m] \in Sessions
          BY <1>2, <1>4, <1>11, <2>2
    <3>2. CASE changer[m] = s
      <4>1. sessions[s].name # m BY <2>2 DEF n
      <4> QED BY <1>1, <1>7, <1>11, <2>2, <3>1, <3>2, <4>1 DEF OwnPassword, Named
    <3>3. CASE changer[m] # s
          BY <1>1, <1>11, <3>1, <3>3 DEF OwnPassword, Named
    <3> QED BY <3>2, <3>3
  <2> QED BY <2>1, <2>2
<1>13. RoomsFollow' BY <1>1, <1>4, RoomsUnchanged
<1> QED BY <1>5, <1>10, <1>12, <1>13 DEF OffIsDisconnected

\* What follows the write of a change of password.
LEMMA WriteEndsKeeps ==
    ASSUME SocketsInv, StoreTypeOK', NEW slot \in Slots, WriteEnds(slot)
    PROVE  TypeOK' /\ OffIsDisconnected' /\ OwnPassword' /\ RoomsFollow'
<1> DEFINE by == writes[slot].by
<1>1. /\ TypeOK /\ OffIsDisconnected /\ OwnPassword /\ RoomsFollow
      /\ sessions \in [Sessions -> Auth \cup {None}]
      /\ changing \in [Sessions -> Auth \cup {None}]
      /\ changer \in [Names -> Sessions \cup {None}]
      /\ writes \in [Slots -> Write \cup {None}]
      BY DEF SocketsInv, TypeOK, StoreTypeOK
<1>2. /\ writes[slot] # None /\ panel' = panel /\ admins' = admins
      BY DEF WriteEnds, WriteLands, WriteFails
<1>3. by \in Sessions \cup {None} /\ panel = "on"
  <2>1. writes[slot] \in Write BY <1>1, <1>2
  <2>2. panel = "on" BY <1>2 DEF SocketsInv, StoreInv, OffIsEmpty
  <2> QED BY <2>1, <2>2 DEF Write
<1>4. SamePasswords /\ SamePerms
      BY <1>2 DEF SamePasswords, SamePerms, Named
<1>5. OffIsDisconnected' BY <1>2, <1>3 DEF OffIsDisconnected
<1>6. CASE UNCHANGED <<socketVars, sessionVars>>
  <2>1. OwnPassword' /\ RoomsFollow'
        BY <1>1, <1>4, <1>6, OwnUnchanged, RoomsUnchanged
  <2>2. TypeOK' BY <1>1, <1>6 DEF TypeOK, socketVars, sessionVars
  <2> QED BY <1>5, <2>1, <2>2
<1>7. CASE by # None /\ PasswordSet(by)
  <2>1. /\ sessions' = [sessions EXCEPT ![by] = changing[by]]
        /\ changing' = [changing EXCEPT ![by] = None]
        /\ refreshes' = refreshes + 1 /\ refreshes < MaxRefreshes
        /\ UNCHANGED <<sockets, cut, changer>>
        BY <1>7 DEF PasswordSet, RefreshDue
  <2>2. refreshes \in 0 .. MaxRefreshes /\ MaxRefreshes \in Nat
        BY <1>1, SocketsAssumption DEF TypeOK
  <2>3. refreshes' \in 0 .. MaxRefreshes /\ refreshes' # 0 BY <2>1, <2>2
  <2>4. by \in Sessions BY <1>3, <1>7
  <2>5. sessions' \in [Sessions -> Auth \cup {None}] /\ changing' \in [Sessions -> Auth \cup {None}]
        BY <1>1, <2>1, <2>4
  <2>6. TypeOK' BY <1>1, <2>1, <2>3, <2>5 DEF TypeOK
  <2>7. RoomsFollow' BY <2>3 DEF RoomsFollow
  <2>8. /\ sessions'[by] = changing[by] /\ changing'[by] = None
        /\ \A o \in Sessions \ {by} : sessions'[o] = sessions[o] /\ changing'[o] = changing[o]
        BY <1>1, <2>1, <2>4
  <2>9. OwnPassword'
    <3> SUFFICES ASSUME NEW m \in Names, changer[m] # None
                 PROVE  /\ Named(m)
                        /\ IF changing'[changer[m]] # None /\ changing'[changer[m]].name = m
                           THEN changing'[changer[m]].password = admins[m].password
                           ELSE sessions'[changer[m]] # None /\ sessions'[changer[m]].name = m
                                    => sessions'[changer[m]].password = admins[m].password
        BY <1>2, <2>1 DEF OwnPassword, Named
    <3>1. changer[m] \in Sessions BY <1>1
    <3> HIDE DEF by
    <3>2. CASE changer[m] = by BY <1>1, <2>8, <3>2 DEF OwnPassword
    <3>3. CASE changer[m] # by BY <1>1, <2>8, <3>1, <3>3 DEF OwnPassword
    <3> QED BY <3>2, <3>3
  <2> QED BY <1>5, <2>6, <2>7, <2>9
<1>8. CASE /\ by # None
           /\ changing' = [changing EXCEPT ![by] = None]
           /\ changer' = Forget(by)
           /\ UNCHANGED <<sessions, socketVars>>
  <2>1. by \in Sessions BY <1>3, <1>8
  <2>2. /\ changing'[by] = None /\ \A o \in Sessions \ {by} : changing'[o] = changing[o]
        /\ \A m \in Names : changer'[m] = IF changer[m] = by THEN None ELSE changer[m]
        BY <1>1, <1>8, <2>1 DEF Forget
  <2>3. changing' \in [Sessions -> Auth \cup {None}] /\ changer' \in [Names -> Sessions \cup {None}]
        BY <1>1, <1>8, <2>1 DEF Forget
  <2>4. TypeOK' BY <1>1, <1>8, <2>3 DEF TypeOK, socketVars
  <2>5. RoomsFollow' BY <1>1, <1>4, <1>8, RoomsUnchanged
  <2>6. OwnPassword'
    <3> SUFFICES ASSUME NEW m \in Names, changer'[m] # None
                 PROVE  /\ Named(m)
                        /\ IF changing'[changer'[m]] # None /\ changing'[changer'[m]].name = m
                           THEN changing'[changer'[m]].password = admins[m].password
                           ELSE sessions[changer'[m]] # None /\ sessions[changer'[m]].name = m
                                    => sessions[changer'[m]].password = admins[m].password
        BY <1>2, <1>8 DEF OwnPassword, Named
    <3> HIDE DEF by
    <3>1. changer'[m] = changer[m] /\ changer[m] # by BY <2>2
    <3>2. changer[m] \in Sessions BY <1>1, <3>1
    <3> QED BY <1>1, <2>2, <3>1, <3>2 DEF OwnPassword
  <2> QED BY <1>5, <2>4, <2>5, <2>6
<1> QED BY <1>6, <1>7, <1>8 DEF WriteEnds, sessionVars, socketVars

-----------------------------------------------------------------------------
(* The steps of the sockets.                                                *)

\* A socket in a list made of rechecked or kept ones.
Followed(socket) ==
    /\ Named(socket.name)
    /\ socket.shown = admins[socket.name].perms
    /\ socket.room => HasPermission(socket.name, RoomPerm)

LEMMA SocketsKeep ==
    ASSUME SocketsInv, UNCHANGED <<storeVars, sessionVars>>,
           sockets' \in Seq(Socket), refreshes' \in 0 .. MaxRefreshes, cut' \in BOOLEAN,
           sockets = <<>> => sockets' = <<>> \/ panel = "on",
           refreshes' = 0 /\ ~cut' => \A k \in DOMAIN sockets' : Followed(sockets'[k])
    PROVE  TypeOK' /\ OffIsDisconnected' /\ OwnPassword' /\ RoomsFollow'
<1>1. /\ TypeOK /\ OffIsDisconnected /\ OwnPassword
      /\ UNCHANGED <<panel, admins, hash, checks, checking, file, writes, doubt>>
      /\ UNCHANGED <<sessions, changing, changer>>
      BY DEF SocketsInv, storeVars, fileVars, sessionVars
<1>2. TypeOK' BY <1>1 DEF TypeOK, StoreTypeOK
<1>3. SamePasswords BY <1>1 DEF SamePasswords, Named
<1>4. OwnPassword' BY <1>1, <1>3, OwnUnchanged
<1>5. OffIsDisconnected' BY <1>1 DEF OffIsDisconnected
<1>6. RoomsFollow' BY <1>1 DEF RoomsFollow, Followed, Named, HasPermission
<1> QED BY <1>2, <1>4, <1>5, <1>6

LEMMA FollowedNow ==
    SocketsInv /\ refreshes = 0 /\ ~cut => \A k \in DOMAIN sockets : Followed(sockets[k])
BY DEF SocketsInv, RoomsFollow, Followed

LEMMA ConnectionKeeps ==
    ASSUME SocketsInv, NEW s \in Sessions, HandleConnection(s)
    PROVE  TypeOK' /\ OffIsDisconnected' /\ OwnPassword' /\ RoomsFollow'
<1> DEFINE n == sessions[s].name
           new == [session |-> s, name |-> n, room |-> HasPermission(n, RoomPerm),
                   shown |-> admins[n].perms]
<1>1. /\ TypeOK /\ panel = "on" /\ Valid(s)
      /\ sockets' = Append(sockets, new)
      /\ UNCHANGED <<storeVars, sessionVars, refreshes, cut>>
      BY DEF SocketsInv, HandleConnection
<1>2. n \in Names /\ admins[n] \in Admin /\ Named(n)
  <2>1. sessions[s] \in Auth BY <1>1 DEF TypeOK, Valid
  <2>2. n \in Names /\ Named(n) BY <1>1, <2>1 DEF Auth, Valid
  <2> QED BY <1>1, <2>2, AdminsAfter DEF TypeOK
<1>3. new \in Socket
  <2>1. HasPermission(n, RoomPerm) \in BOOLEAN BY DEF HasPermission
  <2>2. admins[n].perms \in SUBSET Perms BY <1>2 DEF Admin
  <2> QED BY <1>2, <2>1, <2>2 DEF Socket
<1>4. new.name = n /\ new.shown = admins[n].perms /\ (new.room => HasPermission(n, RoomPerm))
      OBVIOUS
<1>5. Followed(new) BY <1>2, <1>4 DEF Followed
<1> HIDE DEF new, n
<1>6. sockets \in Seq(Socket) /\ refreshes \in 0 .. MaxRefreshes /\ cut \in BOOLEAN
      BY <1>1 DEF TypeOK
<1>7. sockets' \in Seq(Socket) BY <1>1, <1>3, <1>6
<1>8. \A k \in DOMAIN sockets' : sockets'[k] = new \/ (k \in DOMAIN sockets /\ sockets'[k] = sockets[k])
      BY <1>1, <1>6
<1>9. refreshes' = 0 /\ ~cut' => \A k \in DOMAIN sockets' : Followed(sockets'[k])
  <2> SUFFICES ASSUME refreshes = 0, ~cut, NEW k \in DOMAIN sockets' PROVE Followed(sockets'[k])
      BY <1>1
  <2> QED BY <1>5, <1>8, FollowedNow
<1> QED BY <1>1, <1>6, <1>7, <1>9, SocketsKeep

\* One socket fewer.
LEMMA OneFewer ==
    ASSUME TypeOK, NEW k \in DOMAIN sockets, NEW f, 
           \A i \in 1 .. Len(sockets) - 1 : f[i] \in Socket,
           f = [i \in 1 .. Len(sockets) - 1 |-> f[i]]
    PROVE  f \in Seq(Socket)
<1>1. Len(sockets) \in Nat /\ k \in 1 .. Len(sockets) BY SocketTypes
<1>2. Len(sockets) - 1 \in Nat BY <1>1
<1>3. f \in [1 .. Len(sockets) - 1 -> Socket] OBVIOUS
<1> QED BY <1>2, <1>3, SeqDef

LEMMA DisconnectKeeps ==
    ASSUME SocketsInv, NEW k \in DOMAIN sockets, Disconnect(k)
    PROVE  TypeOK' /\ OffIsDisconnected' /\ OwnPassword' /\ RoomsFollow'
<1>1. /\ TypeOK
      /\ sockets' = [i \in 1 .. Len(sockets) - 1 |-> sockets[IF i < k THEN i ELSE i + 1]]
      /\ UNCHANGED <<storeVars, sessionVars, refreshes, cut>>
      BY DEF SocketsInv, Disconnect, Without
<1>2. /\ Len(sockets) \in Nat /\ DOMAIN sockets = 1 .. Len(sockets)
      /\ \A i \in DOMAIN sockets : sockets[i] \in Socket
      BY <1>1, SocketTypes
<1>3. \A i \in 1 .. Len(sockets) - 1 : (IF i < k THEN i ELSE i + 1) \in DOMAIN sockets
      BY <1>2
<1>4. sockets' \in Seq(Socket)
      BY <1>1, <1>2, <1>3, OneFewer
<1>5. refreshes \in 0 .. MaxRefreshes /\ cut \in BOOLEAN BY <1>1 DEF TypeOK
<1>6. refreshes' = 0 /\ ~cut' => \A i \in DOMAIN sockets' : Followed(sockets'[i])
  <2> SUFFICES ASSUME refreshes = 0, ~cut, NEW i \in DOMAIN sockets' PROVE Followed(sockets'[i])
      BY <1>1
  <2> QED BY <1>1, <1>3, FollowedNow
<1>7. sockets # <<>> BY <1>2
<1> QED BY <1>1, <1>4, <1>5, <1>6, <1>7, SocketsKeep

\* A socket that has been looked at, of a session that is valid.
LEMMA RecheckedFollows ==
    ASSUME TypeOK, NEW socket \in Socket, Valid(socket.session)
    PROVE  Rechecked(socket) \in Socket /\ Followed(Rechecked(socket))
<1> DEFINE n == sessions[socket.session].name
<1>1. socket.session \in Sessions /\ socket.room \in BOOLEAN BY DEF Socket
<1>2. sessions[socket.session] \in Auth BY <1>1 DEF Valid, TypeOK
<1>3. n \in Names /\ Named(n) BY <1>2 DEF Auth, Valid
<1>4. admins[n] \in Admin BY <1>3, AdminsAfter DEF TypeOK
<1>5. admins[n].perms \in SUBSET Perms BY <1>4 DEF Admin
<1>6. Rechecked(socket) = [socket EXCEPT !.name = n,
                               !.room = socket.room /\ HasPermission(n, RoomPerm),
                               !.shown = admins[n].perms]
      BY DEF Rechecked
<1> DEFINE r == Rechecked(socket)
<1>7. /\ r \in Socket /\ r.name = n /\ r.shown = admins[n].perms
      /\ r.room => HasPermission(n, RoomPerm)
  <2>1. (socket.room /\ HasPermission(n, RoomPerm)) \in BOOLEAN OBVIOUS
  <2> HIDE DEF n
  <2> QED BY <1>3, <1>5, <1>6, <2>1 DEF Socket
<1> HIDE DEF r
<1>8. Followed(r) BY <1>3, <1>7 DEF Followed
<1> QED BY <1>7, <1>8 DEF r

LEMMA SmallestNumber ==
    ASSUME NEW S, S \subseteq Nat, S # {}
    PROVE  \E k \in S : \A j \in S : k <= j
<1>1. PICK k \in S : \A j \in S : ~ (<<j, k>> \in OpToRel(<, Nat))
      BY NatLessThanWellFounded, WFMin
<1>2. \A j \in S : ~ (j < k) BY <1>1 DEF OpToRel
<1> QED BY <1>2

LEMMA RefreshKeeps ==
    ASSUME SocketsInv, RefreshOnlineAdmins
    PROVE  TypeOK' /\ OffIsDisconnected' /\ OwnPassword' /\ RoomsFollow'
<1>1. /\ TypeOK /\ refreshes > 0 /\ refreshes' = refreshes - 1 /\ Recheck
      /\ UNCHANGED <<storeVars, sessionVars>>
      BY DEF SocketsInv, RefreshOnlineAdmins
<1>2. /\ Len(sockets) \in Nat /\ DOMAIN sockets = 1 .. Len(sockets)
      /\ \A i \in DOMAIN sockets : sockets[i] \in Socket
      /\ sockets \in Seq(Socket)
      BY <1>1, SocketTypes DEF TypeOK
<1>3. refreshes' \in 0 .. MaxRefreshes BY <1>1, SocketsAssumption DEF TypeOK
<1>4. \A i \in DOMAIN sockets \ Invalid :
          Rechecked(sockets[i]) \in Socket /\ Followed(Rechecked(sockets[i]))
      BY <1>1, <1>2, RecheckedFollows DEF Invalid
<1>5. CASE Invalid = {}
  <2>1. sockets' = [k \in DOMAIN sockets |-> Rechecked(sockets[k])] /\ cut' = FALSE
        BY <1>1, <1>5 DEF Recheck
  <2>2. \A i \in DOMAIN sockets : Rechecked(sockets[i]) \in Socket /\ Followed(Rechecked(sockets[i]))
        BY <1>4, <1>5
  <2>3. sockets' \in Seq(Socket)
    <3>1. sockets' \in [1 .. Len(sockets) -> Socket] BY <1>2, <2>1, <2>2
    <3> QED BY <1>2, <3>1, SeqDef
  <2>4. \A i \in DOMAIN sockets' : Followed(sockets'[i]) BY <2>1, <2>2
  <2>5. sockets = <<>> => sockets' = <<>> BY <1>2, <2>1
  <2> QED BY <1>1, <1>3, <2>1, <2>3, <2>4, <2>5, SocketsKeep
<1>6. CASE Invalid # {}
  <2> DEFINE first == CHOOSE k \in Invalid : \A j \in Invalid : k <= j
  <2>1. /\ sockets' = [i \in 1 .. Len(sockets) - 1 |->
                          IF i < first THEN Rechecked(sockets[i]) ELSE sockets[i + 1]]
        /\ cut' = (first < Len(sockets))
        BY <1>1, <1>6 DEF Recheck
  <2>2. first \in Invalid /\ \A j \in Invalid : first <= j
    <3>1. Invalid \subseteq Nat BY <1>2 DEF Invalid
    <3>2. \E k \in Invalid : \A j \in Invalid : k <= j
          BY <1>6, <3>1, SmallestNumber
    <3> QED BY <3>2
  <2> HIDE DEF first
  <2>3. first \in 1 .. Len(sockets) BY <1>2, <2>2 DEF Invalid
  <2>4. \A i \in 1 .. Len(sockets) - 1 :
            /\ i < first => i \in DOMAIN sockets \ Invalid
            /\ i + 1 \in DOMAIN sockets
        BY <1>2, <2>2, <2>3
  <2>5. sockets' \in Seq(Socket)
    <3>1. \A i \in 1 .. Len(sockets) - 1 :
              (IF i < first THEN Rechecked(sockets[i]) ELSE sockets[i + 1]) \in Socket
          BY <1>2, <1>4, <2>4
    <3> QED BY <1>1, <1>2, <2>1, <2>3, <3>1, OneFewer
  <2>6. ~cut' => \A i \in DOMAIN sockets' : Followed(sockets'[i])
    <3> SUFFICES ASSUME ~cut', NEW i \in 1 .. Len(sockets) - 1 PROVE Followed(sockets'[i])
        BY <2>1
    <3>0. ~(first < Len(sockets)) BY <2>1
    <3>1. i < first BY <1>2, <2>3, <3>0
    <3> QED BY <1>4, <2>1, <2>4, <3>1
  <2>7. sockets # <<>> /\ cut' \in BOOLEAN BY <1>2, <2>1, <2>3
  <2> QED BY <1>1, <1>3, <2>5, <2>6, <2>7, SocketsKeep
<1> QED BY <1>5, <1>6

-----------------------------------------------------------------------------
(* The steps of the store.                                                  *)

\* After the edits a refresh is due.
LEMMA EditKeeps ==
    ASSUME SocketsInv, StoreTypeOK', panel' = "on", RefreshDue,
           UNCHANGED <<sessions, changing>>, OwnPassword',
           changer' \in [Names -> Sessions \cup {None}]
    PROVE  TypeOK' /\ OffIsDisconnected' /\ OwnPassword' /\ RoomsFollow'
<1>1. /\ TypeOK /\ refreshes < MaxRefreshes /\ refreshes' = refreshes + 1
      /\ UNCHANGED <<sockets, cut>>
      BY DEF SocketsInv, RefreshDue
<1>2. refreshes' \in 0 .. MaxRefreshes /\ refreshes' # 0
      BY <1>1, SocketsAssumption DEF TypeOK
<1>3. TypeOK' BY <1>1, <1>2 DEF TypeOK
<1> QED BY <1>2, <1>3 DEF OffIsDisconnected, RoomsFollow

LEMMA EditsKeep ==
    ASSUME SocketsInv, StoreTypeOK', EditOthers \/ EditSelf
    PROVE  TypeOK' /\ OffIsDisconnected' /\ OwnPassword' /\ RoomsFollow'
<1>1. StoreTypeOK /\ OwnPassword /\ changer \in [Names -> Sessions \cup {None}]
      BY DEF SocketsInv, TypeOK
<1>2. SamePasswords /\ panel' = "on"
  <2>1. CASE EditOthers
    <3>1. PICK n \in Names, link \in Links \cup {None}, perms \in SUBSET Perms :
              EditAdmin(n, link, perms)
          BY <2>1 DEF EditOthers
    <3>2. panel' = "on" BY <3>1 DEF EditAdmin, Change, WriteAdminsFile
    <3> QED BY <1>1, <3>1, <3>2, EditTypes
  <2>2. CASE EditSelf
    <3>1. PICK n \in Names, link \in Links \cup {None} : SelfIdentifiers(n, link)
          BY <2>2 DEF EditSelf
    <3>2. panel' = "on" BY <3>1 DEF SelfIdentifiers, Change, WriteAdminsFile
    <3> QED BY <1>1, <3>1, <3>2, EditTypes
  <2> QED BY <2>1, <2>2
<1>3. RefreshDue /\ UNCHANGED sessionVars BY DEF EditOthers, EditSelf
<1>4. OwnPassword' BY <1>1, <1>2, <1>3, OwnUnchanged
<1> QED BY <1>1, <1>2, <1>3, <1>4, EditKeeps DEF sessionVars

LEMMA AddOrDeleteKeeps ==
    ASSUME SocketsInv, StoreTypeOK', AddOrDelete
    PROVE  TypeOK' /\ OffIsDisconnected' /\ OwnPassword' /\ RoomsFollow'
<1>1. /\ StoreTypeOK /\ OwnPassword /\ changer \in [Names -> Sessions \cup {None}]
      /\ admins \in [Names -> Admin \cup {None}]
      /\ RefreshDue /\ UNCHANGED <<sessions, changing>>
      BY DEF SocketsInv, TypeOK, StoreTypeOK, Contents, AddOrDelete
<1>2. PICK n \in Names :
          /\ \/ \E link \in Links \cup {None}, perms \in SUBSET Perms : AddAdmin(n, link, perms)
             \/ DeleteAdmin(n)
          /\ changer' = [changer EXCEPT ![n] = None]
      BY DEF AddOrDelete
<1>3. panel' = "on" /\ \A m \in Names \ {n} : admins'[m] = admins[m]
  <2>1. CASE DeleteAdmin(n)
        BY <1>1, <2>1 DEF DeleteAdmin, Change, WriteAdminsFile
  <2>2. ASSUME NEW link \in Links \cup {None}, NEW perms \in SUBSET Perms, AddAdmin(n, link, perms)
        PROVE  panel' = "on" /\ \A m \in Names \ {n} : admins'[m] = admins[m]
        BY <1>1, <2>2 DEF AddAdmin, Change, WriteAdminsFile
  <2> QED BY <1>2, <2>1, <2>2
<1>4. /\ changer' \in [Names -> Sessions \cup {None}]
      /\ changer'[n] = None /\ \A m \in Names \ {n} : changer'[m] = changer[m]
      BY <1>1, <1>2
<1>5. OwnPassword' BY <1>1, <1>3, <1>4 DEF OwnPassword, Named
<1> QED BY <1>1, <1>3, <1>4, <1>5, EditKeeps

LEMMA QuietKeeps ==
    ASSUME SocketsInv, StoreTypeOK', Prefer \/ FileWork
    PROVE  TypeOK' /\ OffIsDisconnected' /\ OwnPassword' /\ RoomsFollow'
<1>1. /\ TypeOK /\ OffIsDisconnected /\ OwnPassword /\ RoomsFollow
      /\ UNCHANGED <<socketVars, sessionVars>>
      BY DEF SocketsInv, Prefer, FileWork
<1>2. UNCHANGED <<sockets, refreshes, cut, sessions, changing, changer>>
      BY <1>1 DEF socketVars, sessionVars
<1>3. TypeOK' BY <1>1, <1>2 DEF TypeOK
<1>4. CASE UNCHANGED <<panel, admins>>
  <2>1. SamePasswords /\ SamePerms BY <1>4 DEF SamePasswords, SamePerms, Named
  <2> QED BY <1>1, <1>2, <1>3, <1>4, <2>1, OwnUnchanged, RoomsUnchanged DEF OffIsDisconnected
<1>5. CASE LoadAdminsFile
  <2>1. sockets = <<>> /\ (\A s \in Sessions : changing[s] = None) /\ (\A n \in Names : changer[n] = None)
        BY <1>1, <1>5 DEF LoadAdminsFile, OffIsDisconnected
  <2> QED BY <1>2, <1>3, <2>1 DEF OffIsDisconnected, OwnPassword, RoomsFollow
<1>6. UNCHANGED <<panel, admins>> \/ LoadAdminsFile
      BY DEF Prefer, SetAdminPreferences, Change, WriteAdminsFile, FileWork, CheckBegins,
             CheckEnds, Tamper, WriteOpens
<1> QED BY <1>4, <1>5, <1>6

LEMMA RestartKeeps ==
    ASSUME SocketsInv, StoreTypeOK', Restart
    PROVE  TypeOK' /\ OffIsDisconnected' /\ OwnPassword' /\ RoomsFollow'
<1>1. /\ TypeOK
      /\ \E lost \in SUBSET Sessions :
             sessions' = [s \in Sessions |-> IF s \in lost THEN None ELSE sessions[s]]
      /\ changing' = [s \in Sessions |-> None]
      /\ sockets' = <<>> /\ refreshes' = 0 /\ cut' = FALSE
      /\ changer' = [n \in Names |-> None]
      BY DEF SocketsInv, Restart
<1>2. sessions' \in [Sessions -> Auth \cup {None}] BY <1>1 DEF TypeOK
<1>3. sockets' \in Seq(Socket) BY <1>1
<1>4. refreshes' \in 0 .. MaxRefreshes BY <1>1, SocketsAssumption
<1>5. TypeOK' BY <1>1, <1>2, <1>3, <1>4 DEF TypeOK
<1> QED BY <1>1, <1>5 DEF OffIsDisconnected, OwnPassword, RoomsFollow

LEMMA SocketsInit == Init => SocketsInv
<1> SUFFICES ASSUME Init PROVE SocketsInv
    OBVIOUS
<1>1. StoreInv BY StoreInitInv DEF Init
<1>2. refreshes \in 0 .. MaxRefreshes BY SocketsAssumption DEF Init
<1>3. /\ sessions \in [Sessions -> Auth \cup {None}]
      /\ changing \in [Sessions -> Auth \cup {None}]
      /\ changer \in [Names -> Sessions \cup {None}]
      BY DEF Init
<1>4. sockets \in Seq(Socket) /\ cut \in BOOLEAN
  <2>1. sockets = <<>> /\ cut = FALSE BY DEF Init
  <2>2. <<>> \in Seq(Socket) OBVIOUS
  <2> QED BY <2>1, <2>2
<1>5. TypeOK BY <1>1, <1>2, <1>3, <1>4 DEF StoreInv, TypeOK
<1> QED BY <1>1, <1>5 DEF Init, SocketsInv, OffIsDisconnected, OwnPassword, RoomsFollow

LEMMA SocketsStays == SocketsInv /\ [Next]_vars => SocketsInv'
<1> SUFFICES ASSUME SocketsInv, [Next]_vars PROVE SocketsInv'
    OBVIOUS
<1>1. StoreInv' BY SocketsStep, StoreStep DEF SocketsInv
<1>2. StoreTypeOK' BY <1>1 DEF StoreInv
<1>3. CASE UNCHANGED vars
  <2>1. UNCHANGED <<panel, admins>> /\ UNCHANGED <<sockets, refreshes, cut>>
        /\ UNCHANGED <<sessions, changing, changer>>
        BY <1>3 DEF vars, storeVars, socketVars, sessionVars
  <2>2. SamePasswords /\ SamePerms BY <2>1 DEF SamePasswords, SamePerms, Named
  <2>3. TypeOK' BY <1>2, <2>1 DEF SocketsInv, TypeOK
  <2>4. OwnPassword' /\ RoomsFollow'
        BY <2>1, <2>2, OwnUnchanged, RoomsUnchanged DEF SocketsInv, socketVars, sessionVars
  <2> QED BY <1>1, <2>1, <2>3, <2>4 DEF SocketsInv, OffIsDisconnected
<1>4. CASE Next
  <2>1. TypeOK' /\ OffIsDisconnected' /\ OwnPassword' /\ RoomsFollow'
        BY <1>2, <1>4, SignInKeeps, SignOutKeeps, BootstrapKeeps, ChangePasswordKeeps,
           ConnectionKeeps, DisconnectKeeps, RefreshKeeps, EditsKeep, AddOrDeleteKeeps,
           QuietKeeps, WriteEndsKeeps, RestartKeeps DEF Next
  <2> QED BY <1>1, <2>1 DEF SocketsInv
<1> QED BY <1>3, <1>4

LEMMA SocketsSafe == Spec => []SocketsInv
BY SocketsInit, SocketsStays, PTL DEF Spec

-----------------------------------------------------------------------------
(* The theorems.                                                            *)

\* The administrators, the file, and what is written and read of it are what
\* they should be, whatever overlaps, fails or ends the panel.
THEOREM StoreTypeCorrect == StoreSpec => []StoreTypeOK
<1>1. StoreInv => StoreTypeOK BY DEF StoreInv
<1> QED BY <1>1, StoreSafe, PTL

\* Without a write in flight, the file holds what is in memory, unless
\* something went wrong since it last did.
THEOREM SavedWhenQuietSafe == StoreSpec => []SavedWhenQuiet
<1>1. StoreInv => SavedWhenQuiet BY DEF StoreInv, InOrder, SavedWhenQuiet
<1> QED BY <1>1, StoreSafe, PTL

\* An id names one administrator, over any edits, and any older file that a
\* restart comes back with.
THEOREM IdUniqueSafe == StoreSpec => []IdUnique
<1>1. UniqueInv => IdUnique BY DEF UniqueInv, Unique, IdUnique
<1> QED BY <1>1, UniqueSafe, PTL

\* An edit links an account to a second administrator only under an id that
\* the edited one had.
THEOREM IdentifierTakenSafe == StoreSpec => IdentifierTaken
<1> DEFINE Taken ==
        \A m, n \in Names :
            /\ m # n /\ Named(m) /\ Named(n) /\ panel = "on"
            /\ SameAccount(admins', m, n) /\ ~SameAccount(admins, m, n)
            => \E e \in {m, n} : /\ Linked(admins, e) /\ admins'[e].link # admins[e].link
                                 /\ admins'[e].link.id = admins[e].link.id
<1>1. StoreInv /\ [StoreNext]_storeVars => [Taken]_storeVars
      BY TakenStep
<1>2. StoreSpec => [][Taken]_storeVars
      BY <1>1, StoreSafe, PTL DEF StoreSpec
<1> QED BY <1>2 DEF IdentifierTaken

\* The store with the sessions and the sockets is the store, so that all that
\* is shown of AdminStore holds of AdminSockets too.
THEOREM SocketsKeepStore == Spec => StoreSpec
<1>1. Init => StoreInit BY DEF Init
<1>2. SocketsInv => TypeOK BY DEF SocketsInv
<1> QED BY <1>1, <1>2, SocketsStep, SocketsSafe, PTL DEF Spec, StoreSpec

\* The sockets follow the permissions once a refresh has gone to its end.
THEOREM RoomsFollowSafe == Spec => []RoomsFollow
<1>1. SocketsInv => RoomsFollow BY DEF SocketsInv
<1> QED BY <1>1, SocketsSafe, PTL

\* Whoever changed a password stays signed in with it.
THEOREM OwnSessionKeptSafe == Spec => []OwnSessionKept
<1>1. SocketsInv => OwnSessionKept
  <2> SUFFICES ASSUME SocketsInv, NEW n \in Names, changer[n] # None,
                      changing[changer[n]] = None, sessions[changer[n]] # None,
                      sessions[changer[n]].name = n
               PROVE  Valid(changer[n])
      BY DEF OwnSessionKept
  <2> QED BY DEF SocketsInv, OwnPassword, Valid
<1> QED BY <1>1, SocketsSafe, PTL

===============================================================================
