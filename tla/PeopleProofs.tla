------------------------------ MODULE PeopleProofs ------------------------------
(***************************************************************************)
(* The people of a station.  First the team: that custodians are on their  *)
(* shift's team, that nobody removed keeps a default nozzle and that a     *)
(* manager keeps one pump, for any people, pumps, nozzles, shifts and      *)
(* requests.  Then the staff page: however old it is, every step behind it *)
(* is a step of Team, so what is proved of Team holds behind the page.     *)
(* Last the owner: that an event is told by WhatsApp once and that a       *)
(* telephone rings again only in doubt, for any calls, telephones, faults  *)
(* and crashes.                                                            *)
(***************************************************************************)
EXTENDS StaffDesk, OwnerAlerts, FiniteSetTheorems, SequenceTheorems, TLAPS

Request == SaveRequest \cup TransferRequest \cup RemovalRequest

\* Whoever a pending save hands a nozzle of a shift is on its team, or among
\* those the save adds.
SavesKnowTheTeam ==
    \A r \in requests : IsSave(r) /\ r.shift # 0 =>
        /\ r.shift \in DOMAIN shifts
        /\ HandedTo(r.assign) \subseteq TeamOf(r.shift) \cup r.missing

\* Whoever a pending save makes a default attendant is active still, and
\* whoever is about to be removed has no nozzle by default, unless the two
\* overlapped.
SavesKnowTheActive ==
    \A r \in requests :
        /\ r.kind = "defaults" => \A p \in HandedTo(r.assign) : p \in Active \cup overlapped
        /\ r.kind = "removal" => r.who \notin HandedTo(defaults) \/ r.who \in overlapped

\* Whoever is about to be removed has been added.
RemovalsKnown == \A r \in requests : r.kind = "removal" => status[r.who] # "absent"

\* A pending transfer gives a manager one pump.
TransfersFit == \A r \in requests : r.kind = "transfer" => PumpsFit(r.who, r.to)

IInv == /\ TypeOK
        /\ SavesKnowTheTeam /\ CustodianOnTeam
        /\ SavesKnowTheActive /\ RemovedIsNoDefault
        /\ TransfersFit /\ RemovalsKnown /\ ManagerHasOnePump

-----------------------------------------------------------------------------
\* Pending requests of each kind are told apart by their kind.
LEMMA Kinds ==
  ASSUME TypeOK, NEW r \in requests
  PROVE  /\ IsSave(r) => r \in SaveRequest
         /\ r.kind = "transfer" => r \in TransferRequest
         /\ r.kind = "removal" => r \in RemovalRequest
         /\ r \in Request
BY DEF TypeOK, IsSave, SaveRequest, TransferRequest, RemovalRequest, Request

\* Marking some requests as raced leaves all else of them as it is.
LEMMA Marked ==
  ASSUME TypeOK, NEW others, others \subseteq requests,
         \A q \in others : IsSave(q) \/ q.kind = "transfer",
         NEW r,
         requests' = ((requests \ {r}) \ others) \cup {[q EXCEPT !.raced = TRUE] : q \in others}
  PROVE  /\ requests' \subseteq Request
         /\ \A w \in requests' : \E q \in requests :
               /\ w.kind = q.kind
               /\ IsSave(w) => /\ w.assign = q.assign /\ w.shift = q.shift
                               /\ w.missing = q.missing
               /\ w.kind = "transfer" => w.who = q.who /\ w.to = q.to
               /\ w.kind = "removal" => w.who = q.who
<1>1. ASSUME NEW q \in others, NEW w, w = [q EXCEPT !.raced = TRUE]
      PROVE  /\ w \in Request /\ w.kind = q.kind
             /\ IsSave(w) => /\ w.assign = q.assign /\ w.shift = q.shift
                             /\ w.missing = q.missing
             /\ w.kind = "transfer" => w.who = q.who /\ w.to = q.to
             /\ w.kind # "removal"
  <2>1. CASE IsSave(q)
    <3>1. q \in SaveRequest
      BY <2>1, Kinds
    <3> QED
      BY <1>1, <3>1 DEF SaveRequest, Request, IsSave
  <2>2. CASE q.kind = "transfer"
    <3>1. q \in TransferRequest
      BY <2>2, Kinds
    <3> QED
      BY <1>1, <3>1 DEF TransferRequest, Request, IsSave
  <2> QED BY <2>1, <2>2
<1>2. ASSUME NEW w \in requests'
      PROVE  w \in requests \/ \E q \in others : w = [q EXCEPT !.raced = TRUE]
  OBVIOUS
<1>3. \A w \in requests : w \in Request
  BY Kinds
<1> QED BY <1>1, <1>2, <1>3

\* The strengthening holds at the start.
LEMMA InitHolds ==
  ASSUME TeamAssumption, Init
  PROVE  IInv
<1>1. Nobody \in Handed /\ HandedTo(Nobody) = {}
  BY DEF Nobody, Handed, HandedTo, Range
<1>2. TypeOK
  BY <1>1 DEF Init, TypeOK, TeamAssumption, Page
<1>3. SavesKnowTheTeam /\ CustodianOnTeam /\ SavesKnowTheActive /\ TransfersFit /\ RemovalsKnown
  BY DEF Init, SavesKnowTheTeam, CustodianOnTeam, SavesKnowTheActive, TransfersFit, RemovalsKnown
<1>4. RemovedIsNoDefault
  BY <1>1 DEF Init, RemovedIsNoDefault
<1>5. ManagerHasOnePump
  <2>1. Cardinality({Home}) = 1
    BY FS_Singleton
  <2> QED BY <2>1 DEF Init, ManagerHasOnePump, TeamAssumption
<1> QED BY <1>2, <1>3, <1>4, <1>5 DEF IInv

\* A new request that knows the team and the active people leaves the rest as
\* it was.
LEMMA ReadStep ==
  ASSUME IInv, NEW r \in Request,
         requests' = requests \cup {r},
         UNCHANGED <<status, stationsOf, defaults, shifts, page, overlapped>>,
         IsSave(r) /\ r.shift # 0 =>
             /\ r.shift \in DOMAIN shifts
             /\ HandedTo(r.assign) \subseteq TeamOf(r.shift) \cup r.missing,
         r.kind = "defaults" => HandedTo(r.assign) \subseteq Active,
         r.kind = "removal" => r.who \notin HandedTo(defaults) /\ status[r.who] # "absent",
         r.kind = "transfer" => PumpsFit(r.who, r.to)
  PROVE  IInv'
<1>1. TypeOK'
  BY DEF IInv, TypeOK, Request
<1>2. SavesKnowTheTeam'
  BY DEF IInv, SavesKnowTheTeam, IsSave, TeamOf
<1>3. SavesKnowTheActive'
  BY DEF IInv, SavesKnowTheActive, Active
<1>4. TransfersFit' /\ RemovalsKnown'
  BY DEF IInv, TransfersFit, RemovalsKnown, PumpsFit
<1>5. CustodianOnTeam' /\ RemovedIsNoDefault' /\ ManagerHasOnePump'
  BY DEF IInv, CustodianOnTeam, RemovedIsNoDefault, ManagerHasOnePump, TeamOf
<1> QED BY <1>1, <1>2, <1>3, <1>4, <1>5 DEF IInv

\* assign, deactivateStaff, saveNozzleAssignments and updateNozzleCustody read.
LEMMA ReadTransferStep ==
  ASSUME TeamAssumption, IInv, NEW p \in Person, NEW S \in Postings \cup {{Home}}, ReadTransfer(p, S)
  PROVE  IInv'
<1> DEFINE r == [kind |-> "transfer", who |-> p, to |-> S, raced |-> FALSE]
<1>1. r \in Request /\ ~IsSave(r)
  BY DEF Request, TransferRequest, TeamAssumption, IsSave
<1>2. /\ requests' = requests \cup {r}
      /\ UNCHANGED <<status, stationsOf, defaults, shifts, page, overlapped>>
      /\ PumpsFit(r.who, r.to)
  BY DEF ReadTransfer
<1>3. r.kind = "transfer"
  OBVIOUS
<1> HIDE DEF r
<1> QED BY <1>1, <1>2, <1>3, ReadStep

\* A removal under way is of somebody who is there.
LEMMA ReadRemovalStep ==
  ASSUME IInv, NEW p \in Person, ReadRemoval(p)
  PROVE  IInv'
<1> DEFINE r == [kind |-> "removal", who |-> p]
<1>1. r \in Request /\ ~IsSave(r)
  BY DEF Request, RemovalRequest, IsSave
<1>2. /\ requests' = requests \cup {r}
      /\ UNCHANGED <<status, stationsOf, defaults, shifts, page, overlapped>>
      /\ r.who \notin HandedTo(defaults) /\ status[r.who] # "absent"
  BY DEF ReadRemoval, HoldsNozzle, Active
<1>3. r.kind = "removal"
  OBVIOUS
<1> HIDE DEF r
<1> QED BY <1>1, <1>2, <1>3, ReadStep

\* A save under way knows the team and the active it read.
LEMMA ReadSaveStep ==
  ASSUME TeamAssumption, IInv, NEW a \in Handed, ReadSave(a)
  PROVE  IInv'
<1>1. PICK s \in (IF OpenShifts = {} THEN {0} ELSE OpenShifts) :
         requests' = requests \cup
             {[kind |-> "defaults", assign |-> a, shift |-> s, missing |-> Missing(a, s),
               raced |-> FALSE]}
  BY DEF ReadSave
<1> DEFINE r == [kind |-> "defaults", assign |-> a, shift |-> s, missing |-> Missing(a, s),
                 raced |-> FALSE]
<1>2. s \in ShiftNo /\ (s # 0 => s \in DOMAIN shifts)
  BY LenProperties DEF IInv, TypeOK, OpenShifts, ShiftNo, TeamAssumption
<1>3. HandedTo(a) \subseteq Person
  BY DEF Handed, HandedTo, Range
<1>4. Missing(a, s) \subseteq Person /\ (s # 0 => HandedTo(a) \subseteq TeamOf(s) \cup Missing(a, s))
  BY <1>3 DEF Missing
<1>5. r \in Request
  BY <1>2, <1>4 DEF Request, SaveRequest
<1>6. /\ requests' = requests \cup {r}
      /\ UNCHANGED <<status, stationsOf, defaults, shifts, page, overlapped>>
      /\ HandedTo(r.assign) \subseteq Active
  BY <1>1 DEF ReadSave, Attendants
<1>7. r.kind = "defaults" /\ r.assign = a /\ r.shift = s /\ r.missing = Missing(a, s)
  OBVIOUS
<1> HIDE DEF r
<1> QED BY <1>2, <1>4, <1>5, <1>6, <1>7, ReadStep

\* A change of custody under way knows the team it read.
LEMMA ReadCustodyStep ==
  ASSUME TeamAssumption, IInv, NEW s \in DOMAIN shifts, NEW a \in Handed, ReadCustody(s, a)
  PROVE  IInv'
<1> DEFINE r == [kind |-> "custody", assign |-> a, shift |-> s, missing |-> {},
                 raced |-> FALSE]
<1>1. s \in ShiftNo
  BY LenProperties DEF IInv, TypeOK, ShiftNo, TeamAssumption
<1>2. r \in Request
  BY <1>1 DEF Request, SaveRequest
<1>3. /\ requests' = requests \cup {r}
      /\ UNCHANGED <<status, stationsOf, defaults, shifts, page, overlapped>>
      /\ HandedTo(r.assign) \subseteq TeamOf(r.shift)
  BY DEF ReadCustody
<1>4. r.kind = "custody" /\ r.assign = a /\ r.shift = s /\ r.missing = {}
  OBVIOUS
<1> HIDE DEF r
<1> QED BY <1>2, <1>3, <1>4, ReadStep

\* A request that is refused or has nothing to write is only forgotten.
LEMMA FailStep ==
  ASSUME IInv, NEW r, FailRequest(r)
  PROVE  IInv'
<1>1. /\ requests' \subseteq requests
      /\ UNCHANGED <<status, stationsOf, defaults, shifts, page, overlapped>>
  BY DEF FailRequest
<1>2. TypeOK' /\ CustodianOnTeam' /\ RemovedIsNoDefault' /\ ManagerHasOnePump'
  BY <1>1 DEF IInv, TypeOK, CustodianOnTeam, RemovedIsNoDefault, ManagerHasOnePump, TeamOf
<1>3. SavesKnowTheTeam' /\ SavesKnowTheActive' /\ TransfersFit' /\ RemovalsKnown'
  BY <1>1 DEF IInv, SavesKnowTheTeam, SavesKnowTheActive, TransfersFit, RemovalsKnown, IsSave,
              TeamOf, Active, PumpsFit
<1> QED BY <1>2, <1>3 DEF IInv

\* A member is created with the pumps the role allows.
LEMMA AddMemberStep ==
  ASSUME TeamAssumption, IInv, NEW p \in Person, NEW S \in Postings \cup {{Home}}, AddMember(p, S)
  PROVE  IInv'
<1>1. /\ status' = [status EXCEPT ![p] = "active"]
      /\ stationsOf' = [stationsOf EXCEPT ![p] = S]
      /\ PumpsFit(p, S)
      /\ UNCHANGED <<defaults, shifts, requests, page, overlapped>>
  BY DEF AddMember
<1>2. Active \subseteq Active'
  BY <1>1 DEF IInv, TypeOK, Active
<1>3. TypeOK'
  BY <1>1 DEF IInv, TypeOK, TeamAssumption
<1>4. SavesKnowTheTeam' /\ CustodianOnTeam' /\ TransfersFit'
  BY <1>1 DEF IInv, SavesKnowTheTeam, CustodianOnTeam, TransfersFit, IsSave, TeamOf, PumpsFit
<1>5. SavesKnowTheActive'
  BY <1>1, <1>2 DEF IInv, SavesKnowTheActive
<1>6. RemovedIsNoDefault' /\ ManagerHasOnePump' /\ RemovalsKnown'
  BY <1>1 DEF IInv, TypeOK, RemovedIsNoDefault, ManagerHasOnePump, RemovalsKnown, PumpsFit
<1> QED BY <1>3, <1>4, <1>5, <1>6 DEF IInv

\* A transfer nothing overtook leaves its pumps and no other.
LEMMA CommitTransferStep ==
  ASSUME TeamAssumption, IInv, NEW r \in requests, CommitTransfer(r)
  PROVE  IInv'
<1> DEFINE p == r.who
           others == {q \in requests \ {r} : q.kind = "transfer" /\ q.who = p}
<1>1. PICK gone \in Found(stationsOf[p], r) :
         IF (stationsOf[p] \ gone) \cap r.to # {}
         THEN FailRequest(r)
         ELSE /\ stationsOf' = [stationsOf EXCEPT ![p] = (@ \ gone) \cup r.to]
              /\ requests' = ((requests \ {r}) \ others) \cup
                              {[q EXCEPT !.raced = TRUE] : q \in others}
              /\ overlapped' = IF r.raced THEN overlapped \cup {p} ELSE overlapped
              /\ UNCHANGED <<status, defaults, shifts, page>>
  BY DEF CommitTransfer
<1>2. CASE FailRequest(r)
  BY <1>2, FailStep
<1>3. CASE ~FailRequest(r)
  <2>1. r \in TransferRequest
    BY Kinds DEF IInv, CommitTransfer
  <2>2. /\ stationsOf' = [stationsOf EXCEPT ![p] = (@ \ gone) \cup r.to]
        /\ requests' = ((requests \ {r}) \ others) \cup
                        {[q EXCEPT !.raced = TRUE] : q \in others}
        /\ overlapped' = IF r.raced THEN overlapped \cup {p} ELSE overlapped
        /\ UNCHANGED <<status, defaults, shifts, page>>
    BY <1>1, <1>3
  <2>3. /\ requests' \subseteq Request
        /\ \A w \in requests' : \E q \in requests :
              /\ w.kind = q.kind
              /\ IsSave(w) => /\ w.assign = q.assign /\ w.shift = q.shift
                              /\ w.missing = q.missing
              /\ w.kind = "transfer" => w.who = q.who /\ w.to = q.to
              /\ w.kind = "removal" => w.who = q.who
    BY <2>2, Marked DEF IInv
  <2>4. p \in Person /\ r.to \subseteq Station /\ r.raced \in BOOLEAN
    BY <2>1 DEF TransferRequest
  <2>5. stationsOf'[p] \subseteq Station /\ stationsOf' \in [Person -> SUBSET Station]
    BY <2>2, <2>4 DEF IInv, TypeOK
  <2>6. TypeOK'
    BY <2>2, <2>3, <2>4, <2>5 DEF IInv, TypeOK, Request
  <2>7. SavesKnowTheTeam' /\ CustodianOnTeam' /\ TransfersFit' /\ RemovalsKnown'
    <3>1. SavesKnowTheTeam'
      BY <2>2, <2>3 DEF IInv, SavesKnowTheTeam, IsSave, TeamOf
    <3>2. CustodianOnTeam'
      BY <2>2 DEF IInv, CustodianOnTeam, TeamOf
    <3>3. TransfersFit' /\ RemovalsKnown'
      BY <2>2, <2>3 DEF IInv, TransfersFit, RemovalsKnown, PumpsFit
    <3> QED BY <3>1, <3>2, <3>3
  <2>8. SavesKnowTheActive' /\ RemovedIsNoDefault'
    <3>1. Active' = Active /\ overlapped \subseteq overlapped'
      BY <2>2 DEF Active
    <3>2. SavesKnowTheActive'
      BY <2>2, <2>3, <3>1 DEF IInv, SavesKnowTheActive, IsSave
    <3>3. RemovedIsNoDefault'
      BY <2>2, <3>1 DEF IInv, RemovedIsNoDefault
    <3> QED BY <3>2, <3>3
  <2>9. ManagerHasOnePump'
    <3>1. ~r.raced => stationsOf'[p] = r.to
      BY <1>1, <2>2, <2>4 DEF IInv, TypeOK, Found
    <3>2. PumpsFit(p, r.to)
      BY <2>1 DEF IInv, TransfersFit, TransferRequest
    <3>3. ASSUME NEW w \in Person, Role[w] = "MANAGER", status[w] # "absent"
          PROVE  Cardinality(stationsOf'[w]) = 1 \/ w \in overlapped'
      <4>1. CASE w = p
        <5>1. CASE r.raced
          BY <2>2, <4>1, <5>1
        <5>2. CASE ~r.raced
          <6>1. stationsOf'[w] = r.to
            BY <3>1, <4>1, <5>2
          <6>2. Cardinality(r.to) = 1
            BY <3>2, <3>3, <4>1 DEF PumpsFit
          <6> QED BY <6>1, <6>2
        <5> QED BY <5>1, <5>2
      <4>2. CASE w # p
        <5>1. stationsOf'[w] = stationsOf[w]
          BY <2>2, <4>2 DEF IInv, TypeOK
        <5>2. overlapped \subseteq overlapped'
          BY <2>2
        <5>3. ManagerHasOnePump
          BY DEF IInv
        <5>4. Cardinality(stationsOf[w]) = 1 \/ w \in overlapped
          BY <3>3, <5>3 DEF ManagerHasOnePump
        <5> QED BY <5>1, <5>2, <5>4
      <4> QED BY <4>1, <4>2
    <3> QED
      BY <2>2, <3>3 DEF ManagerHasOnePump
  <2> QED BY <2>6, <2>7, <2>8, <2>9 DEF IInv
<1> QED BY <1>2, <1>3

\* A removal marks whoever a pending save is handing a nozzle to.
LEMMA CommitRemovalStep ==
  ASSUME IInv, NEW r \in requests, CommitRemoval(r)
  PROVE  IInv'
<1>1. /\ r.kind = "removal" /\ r \in RemovalRequest /\ r.who \in Person
      /\ status' = [status EXCEPT ![r.who] = "removed"]
      /\ requests' = requests \ {r}
      /\ overlapped' = overlapped \cup ({r.who} \cap BeingHanded)
      /\ UNCHANGED <<stationsOf, defaults, shifts, page>>
  BY Kinds DEF IInv, CommitRemoval, RemovalRequest
<1>2. TypeOK'
  BY <1>1 DEF IInv, TypeOK
<1>3. SavesKnowTheTeam' /\ CustodianOnTeam' /\ TransfersFit'
  BY <1>1 DEF IInv, SavesKnowTheTeam, CustodianOnTeam, TransfersFit, IsSave, TeamOf, PumpsFit
<1>4. SavesKnowTheActive'
  <2>1. Active' = Active \ {r.who}
    BY <1>1 DEF IInv, TypeOK, Active
  <2>2. ASSUME NEW q \in requests, q.kind = "defaults", NEW p \in HandedTo(q.assign)
        PROVE  p \in Active' \cup overlapped'
    <3>1. p \in BeingHanded
      BY <2>2 DEF BeingHanded
    <3> QED BY <1>1, <2>1, <2>2, <3>1 DEF IInv, SavesKnowTheActive
  <2> QED BY <1>1, <2>2 DEF IInv, SavesKnowTheActive
<1>5. RemovedIsNoDefault'
  BY <1>1 DEF IInv, TypeOK, RemovedIsNoDefault, SavesKnowTheActive
<1>6. ManagerHasOnePump' /\ RemovalsKnown'
  BY <1>1 DEF IInv, TypeOK, ManagerHasOnePump, RemovalsKnown
<1> QED BY <1>2, <1>3, <1>4, <1>5, <1>6 DEF IInv

\* Rewritten custody is handed to whom it was or to whom the request names.
LEMMA ReplacedFrom ==
  ASSUME NEW b \in Handed, NEW a \in Handed, NEW gone
  PROVE  /\ Replaced(b, gone, a) \in Handed
         /\ HandedTo(Replaced(b, gone, a)) \subseteq HandedTo(b) \cup HandedTo(a)
BY DEF Replaced, Handed, HandedTo, Range

\* A save adds to the team whoever it hands a nozzle to.
LEMMA CommitSaveStep ==
  ASSUME TeamAssumption, IInv, NEW r \in requests, CommitSave(r)
  PROVE  IInv'
<1> DEFINE others == {q \in requests \ {r} : IsSave(q)}
           custody == IF r.shift = 0 THEN Nobody ELSE shifts[r.shift].custody
           rows == IF r.kind = "defaults" THEN Rows(defaults) ELSE {}
           removing == {q \in requests : q.kind = "removal"}
           Saved(goneDefaults, goneCustody) ==
                 /\ defaults' = IF r.kind = "defaults"
                                THEN Replaced(defaults, goneDefaults, r.assign) ELSE defaults
                 /\ shifts' = IF r.shift = 0 THEN shifts
                              ELSE [shifts EXCEPT
                                      ![r.shift].users = @ \cup r.missing,
                                      ![r.shift].custody = Replaced(@, goneCustody, r.assign),
                                      ![r.shift].collected = @ \ (goneCustody \cup Rows(r.assign))]
                 /\ requests' = ((requests \ {r}) \ others) \cup
                                {[q EXCEPT !.raced = TRUE] : q \in others}
                 /\ overlapped' = overlapped \cup
                        ({q.who : q \in removing} \cap HandedTo(r.assign))
                 /\ UNCHANGED <<status, stationsOf, page>>
<1>1. PICK goneDefaults \in Found(rows, r), goneCustody \in Found(Rows(custody), r) :
         FailRequest(r) \/ Saved(goneDefaults, goneCustody)
  BY DEF CommitSave
<1>2. CASE FailRequest(r)
  BY <1>2, FailStep
<1>3. CASE Saved(goneDefaults, goneCustody)
  <2>1. r \in SaveRequest /\ IsSave(r)
    BY Kinds DEF IInv, CommitSave
  <2>2. r.assign \in Handed /\ r.shift \in ShiftNo /\ r.missing \subseteq Person
    BY <2>1 DEF SaveRequest
  <2>3. defaults' = IF r.kind = "defaults"
                    THEN Replaced(defaults, goneDefaults, r.assign) ELSE defaults
    BY <1>3
  <2>4. /\ overlapped' = overlapped \cup ({q.who : q \in removing} \cap HandedTo(r.assign))
        /\ UNCHANGED <<status, stationsOf, page>>
    BY <1>3
  <2>5. /\ requests' \subseteq Request
        /\ \A w \in requests' : \E q \in requests :
              /\ w.kind = q.kind
              /\ IsSave(w) => /\ w.assign = q.assign /\ w.shift = q.shift
                              /\ w.missing = q.missing
              /\ w.kind = "transfer" => w.who = q.who /\ w.to = q.to
              /\ w.kind = "removal" => w.who = q.who
    BY <1>3, Marked DEF IInv
  <2>6. /\ defaults' \in Handed
        /\ HandedTo(defaults') \subseteq HandedTo(defaults) \cup HandedTo(r.assign)
        /\ r.kind # "defaults" => defaults' = defaults
    BY <2>2, <2>3, ReplacedFrom DEF IInv, TypeOK
  <2>7. /\ HandedTo(r.assign) \subseteq Person
        /\ overlapped' \subseteq Person
    BY <2>2, <2>4 DEF Handed, HandedTo, Range, IInv, TypeOK
  <2>8. /\ shifts' \in Seq(Shift) /\ Len(shifts') = Len(shifts)
        /\ DOMAIN shifts' = DOMAIN shifts
        /\ \A s \in DOMAIN shifts :
              /\ TeamOf(s) \subseteq TeamOf(s)'
              /\ HandedTo(shifts'[s].custody) \subseteq TeamOf(s)'
    <3>1. CASE r.shift = 0
      BY <1>3, <3>1 DEF IInv, TypeOK, CustodianOnTeam, TeamOf
    <3>2. CASE r.shift # 0
      <4> DEFINE sh == shifts[r.shift]
                 new == [sh EXCEPT !.users = @ \cup r.missing,
                                   !.custody = Replaced(@, goneCustody, r.assign),
                                   !.collected = @ \ (goneCustody \cup Rows(r.assign))]
      <4>1. /\ r.shift \in DOMAIN shifts
            /\ HandedTo(r.assign) \subseteq TeamOf(r.shift) \cup r.missing
        BY <2>1, <3>2 DEF IInv, SavesKnowTheTeam
      <4>2. sh \in Shift
        BY <4>1, ElementOfSeq, LenProperties DEF IInv, TypeOK
      <4>3. shifts' = [shifts EXCEPT ![r.shift] = new]
        BY <1>3, <3>2
      <4>4. /\ new.open = sh.open /\ new.manager = sh.manager
            /\ new.users = sh.users \cup r.missing
            /\ new.custody = Replaced(sh.custody, goneCustody, r.assign)
            /\ new \in Shift
        BY <2>2, <4>2, ReplacedFrom DEF Shift
      <4>5. /\ shifts' \in Seq(Shift) /\ Len(shifts') = Len(shifts)
            /\ DOMAIN shifts' = DOMAIN shifts
        BY <4>1, <4>3, <4>4, ExceptSeq, LenProperties DEF IInv, TypeOK
      <4>6. ASSUME NEW s \in DOMAIN shifts
            PROVE  /\ TeamOf(s) \subseteq TeamOf(s)'
                   /\ HandedTo(shifts'[s].custody) \subseteq TeamOf(s)'
        <5>1. CASE s = r.shift
          <6>1. shifts'[s] = new
            BY <4>1, <4>3, <5>1
          <6>2. HandedTo(new.custody) \subseteq HandedTo(sh.custody) \cup HandedTo(r.assign)
            BY <2>2, <4>2, <4>4, ReplacedFrom DEF Shift
          <6>3. HandedTo(sh.custody) \subseteq TeamOf(r.shift)
            BY <4>1 DEF IInv, CustodianOnTeam
          <6> HIDE DEF new
          <6> QED BY <4>1, <4>4, <5>1, <6>1, <6>2, <6>3 DEF TeamOf
        <5>2. CASE s # r.shift
          <6>1. shifts'[s] = shifts[s]
            BY <4>3, <5>2
          <6> QED BY <6>1 DEF TeamOf, IInv, CustodianOnTeam
        <5> QED BY <5>1, <5>2
      <4> QED BY <4>5, <4>6
    <3> QED BY <3>1, <3>2
  <2>9. TypeOK'
    BY <2>4, <2>5, <2>6, <2>7, <2>8 DEF IInv, TypeOK, Request
  <2>10. SavesKnowTheTeam'
    BY <2>5, <2>8 DEF IInv, SavesKnowTheTeam, IsSave
  <2>11. CustodianOnTeam'
    BY <2>8 DEF CustodianOnTeam
  <2>12. SavesKnowTheActive'
    <3>1. ASSUME NEW q \in requests
          PROVE  /\ q.kind = "defaults" => HandedTo(q.assign) \subseteq Active' \cup overlapped'
                 /\ q.kind = "removal" =>
                       q.who \notin HandedTo(defaults') \/ q.who \in overlapped'
      BY <2>4, <2>6 DEF IInv, SavesKnowTheActive, Active
    <3> QED BY <2>5, <3>1 DEF SavesKnowTheActive, IsSave
  <2>13. RemovedIsNoDefault'
    <3>1. ASSUME NEW p \in HandedTo(defaults')
          PROVE  status[p] = "active" \/ p \in overlapped'
      <4>1. CASE p \in HandedTo(defaults)
        BY <2>4, <4>1 DEF IInv, RemovedIsNoDefault
      <4>2. CASE p \notin HandedTo(defaults)
        BY <2>4, <2>6, <4>2 DEF IInv, SavesKnowTheActive, Active
      <4> QED BY <4>1, <4>2
    <3> QED BY <2>4, <3>1 DEF RemovedIsNoDefault
  <2>14. TransfersFit' /\ RemovalsKnown' /\ ManagerHasOnePump'
    <3>1. TransfersFit' /\ RemovalsKnown'
      BY <2>4, <2>5 DEF IInv, TransfersFit, RemovalsKnown, PumpsFit
    <3>2. ManagerHasOnePump'
      BY <2>4 DEF IInv, ManagerHasOnePump
    <3> QED BY <3>1, <3>2
  <2> QED BY <2>9, <2>10, <2>11, <2>12, <2>13, <2>14 DEF IInv
<1> QED BY <1>1, <1>2, <1>3

\* What the page proposes for a nozzle is a person or nobody.
LEMMA ProposedIsPerson ==
  ASSUME TeamAssumption, NEW n \in Nozzle, NEW m \in Person
  PROVE  Proposed(n, m) \in Person
<1> DEFINE prior == {shifts[s].custody[n] : s \in LastClosed} \ {NoOne}
           candidate == IF prior # {} THEN prior ELSE {defaults[n]}
<1>1. candidate # {}
  OBVIOUS
<1>2. Proposed(n, m) = IF candidate \subseteq StationUsers THEN CHOOSE p \in candidate : TRUE ELSE m
  BY DEF Proposed
<1>3. StationUsers \subseteq Person
  BY DEF StationUsers, Active
<1> HIDE DEF candidate
<1>4. (CHOOSE p \in candidate : TRUE) \in candidate
  BY <1>1
<1> QED BY <1>2, <1>3, <1>4

\* What only changes the page leaves the rest as it was.
LEMMA PageStep ==
  ASSUME IInv, page' \in Page,
         UNCHANGED <<status, stationsOf, defaults, shifts, requests, overlapped>>
  PROVE  IInv'
<1>1. TypeOK'
  BY DEF IInv, TypeOK
<1>2. SavesKnowTheTeam' /\ CustodianOnTeam' /\ TransfersFit'
  BY DEF IInv, SavesKnowTheTeam, CustodianOnTeam, TransfersFit, IsSave, TeamOf, PumpsFit
<1>3. SavesKnowTheActive' /\ RemovedIsNoDefault' /\ ManagerHasOnePump' /\ RemovalsKnown'
  BY DEF IInv, SavesKnowTheActive, RemovedIsNoDefault, ManagerHasOnePump, RemovalsKnown, Active
<1> QED BY <1>1, <1>2, <1>3 DEF IInv

\* The page loads the opening or the closing form.
LEMMA LoadPageStep ==
  ASSUME TeamAssumption, IInv, LoadPage
  PROVE  IInv'
<1>1. UNCHANGED <<status, stationsOf, defaults, shifts, requests, overlapped>>
  BY DEF LoadPage
<1>2. CASE OpenShifts # {}
  <2>1. PICK s \in OpenShifts : page' = ClosingForm(s) \/ page' = page
    BY <1>2 DEF LoadPage
  <2>2. s \in 1..MaxShift /\ Rows(shifts[s].custody) \subseteq Nozzle
    BY LenProperties DEF IInv, TypeOK, OpenShifts, TeamAssumption, Rows
  <2>3. page' \in Page
    BY <2>1, <2>2 DEF Page, ClosingForm, IInv, TypeOK
  <2> QED BY <1>1, <2>3, PageStep
<1>3. CASE OpenShifts = {}
  <2> DEFINE managers == {p \in StationUsers : Role[p] = "MANAGER"}
             Custody(m) == [n \in Nozzle |-> Proposed(n, m)]
  <2>1. PICK m \in (IF managers = {} THEN {Owner} ELSE managers) :
          page' = [kind |-> "opening", manager |-> m, custody |-> Custody(m),
                   users |-> {m} \cup HandedTo(Custody(m))]
    BY <1>3 DEF LoadPage, OpeningForm
  <2>2. m \in Person
    BY DEF TeamAssumption, StationUsers, Active
  <2>3. Custody(m) \in Handed /\ HandedTo(Custody(m)) \subseteq Person
    BY <2>2, ProposedIsPerson DEF Handed, HandedTo, Range
  <2> HIDE DEF Custody
  <2>4. page' \in Page
    BY <2>1, <2>2, <2>3 DEF Page
  <2> QED BY <1>1, <2>4, PageStep
<1> QED BY <1>2, <1>3

\* Choosing an attendant changes the form alone.
LEMMA ChooseAttendantStep ==
  ASSUME IInv, NEW n \in Nozzle, NEW p \in Person \cup {NoOne}, ChooseAttendant(n, p)
  PROVE  IInv'
<1>1. page \in [kind : {"opening"}, manager : Person, users : SUBSET Person, custody : Handed]
  BY DEF IInv, TypeOK, Page, Blank, ChooseAttendant
<1>2. page' = [page EXCEPT !.custody[n] = p, !.users = @ \cup ({p} \ {NoOne})]
  BY DEF ChooseAttendant
<1>3. page'.custody = [page.custody EXCEPT ![n] = p]
  BY <1>1, <1>2
<1>4. page'.custody \in Handed
  BY <1>1, <1>3 DEF Handed
<1>5. page' \in Page
  BY <1>1, <1>2, <1>4 DEF Page
<1> QED BY <1>5, PageStep DEF ChooseAttendant

\* A shift opens with its custodians on its team.
LEMMA OpenShiftStep ==
  ASSUME TeamAssumption, IInv, OpenShift
  PROVE  IInv'
<1> DEFINE new == [open |-> TRUE, manager |-> page.manager, users |-> page.users,
                   custody |-> page.custody, collected |-> {}]
<1>1. page \in [kind : {"opening"}, manager : Person, users : SUBSET Person, custody : Handed]
  BY DEF IInv, TypeOK, Page, Blank, OpenShift
<1>2. /\ shifts' = Append(shifts, new) /\ Len(shifts) < MaxShift
      /\ HandedTo(page.custody) \subseteq page.users /\ page' = Blank
      /\ UNCHANGED <<status, stationsOf, defaults, requests, overlapped>>
  BY DEF OpenShift
<1>3. new \in Shift
  BY <1>1 DEF Shift
<1>4. /\ new.custody = page.custody /\ new.users = page.users
  OBVIOUS
<1> HIDE DEF new
<1>5. /\ shifts' \in Seq(Shift) /\ Len(shifts') = Len(shifts) + 1
      /\ \A s \in DOMAIN shifts : s \in DOMAIN shifts' /\ shifts'[s] = shifts[s]
      /\ \A s \in DOMAIN shifts' : s \in DOMAIN shifts \/ shifts'[s] = new
  <2>1. shifts \in Seq(Shift) /\ Len(shifts) \in Nat /\ DOMAIN shifts = 1..Len(shifts)
    BY LenProperties DEF IInv, TypeOK
  <2>2. /\ shifts' \in Seq(Shift) /\ Len(shifts') = Len(shifts) + 1
        /\ \A i \in 1..Len(shifts) : shifts'[i] = shifts[i]
        /\ shifts'[Len(shifts) + 1] = new
    BY <1>2, <1>3, <2>1, AppendProperties
  <2>3. DOMAIN shifts' = 1..(Len(shifts) + 1)
    BY <2>2, LenProperties
  <2> QED BY <2>1, <2>2, <2>3
<1>6. Len(shifts') <= MaxShift
  BY <1>2, <1>5, LenProperties DEF TeamAssumption, IInv, TypeOK
<1>7. TypeOK'
  BY <1>2, <1>5, <1>6 DEF IInv, TypeOK, Page
<1>8. CustodianOnTeam'
  BY <1>2, <1>4, <1>5 DEF IInv, CustodianOnTeam, TeamOf
<1>9. SavesKnowTheTeam'
  BY <1>2, <1>5 DEF IInv, SavesKnowTheTeam, IsSave, TeamOf
<1>10. /\ SavesKnowTheActive' /\ RemovedIsNoDefault'
       /\ TransfersFit' /\ RemovalsKnown' /\ ManagerHasOnePump'
  BY <1>2 DEF IInv, SavesKnowTheActive, RemovedIsNoDefault, TransfersFit, RemovalsKnown,
              ManagerHasOnePump, Active, PumpsFit
<1> QED BY <1>7, <1>8, <1>9, <1>10 DEF IInv

\* Closing changes neither the custody nor the team.
LEMMA CloseShiftStep ==
  ASSUME IInv, NEW moved \in SUBSET Nozzle, CloseShift(moved)
  PROVE  IInv'
<1> DEFINE s == page.shift
           new == [shifts[s] EXCEPT !.open = FALSE, !.collected = page.collections]
<1>1. /\ s \in DOMAIN shifts /\ shifts' = [shifts EXCEPT ![s] = new] /\ page' = Blank
      /\ UNCHANGED <<status, stationsOf, defaults, requests, overlapped>>
  BY DEF CloseShift, OpenShifts
<1>2. page.collections \subseteq Nozzle
  BY DEF IInv, TypeOK, Page, Blank, CloseShift
<1>3. shifts[s] \in Shift
  BY <1>1, ElementOfSeq, LenProperties DEF IInv, TypeOK
<1>4. /\ new \in Shift /\ new.custody = shifts[s].custody
      /\ new.users = shifts[s].users /\ new.manager = shifts[s].manager
  BY <1>2, <1>3 DEF Shift
<1> HIDE DEF new
<1>5. /\ shifts' \in Seq(Shift) /\ Len(shifts') = Len(shifts)
      /\ DOMAIN shifts' = DOMAIN shifts
  BY <1>1, <1>4, ExceptSeq, LenProperties DEF IInv, TypeOK
<1>6. \A t \in DOMAIN shifts : /\ shifts'[t].custody = shifts[t].custody
                               /\ TeamOf(t)' = TeamOf(t)
  BY <1>1, <1>4 DEF TeamOf
<1>7. TypeOK'
  BY <1>1, <1>5 DEF IInv, TypeOK, Page
<1>8. CustodianOnTeam'
  BY <1>5, <1>6 DEF IInv, CustodianOnTeam
<1>9. SavesKnowTheTeam'
  BY <1>1, <1>5, <1>6 DEF IInv, SavesKnowTheTeam, IsSave
<1>10. /\ SavesKnowTheActive' /\ RemovedIsNoDefault'
       /\ TransfersFit' /\ RemovalsKnown' /\ ManagerHasOnePump'
  BY <1>1 DEF IInv, SavesKnowTheActive, RemovedIsNoDefault, TransfersFit, RemovalsKnown,
              ManagerHasOnePump, Active, PumpsFit
<1> QED BY <1>7, <1>8, <1>9, <1>10 DEF IInv

\* Every step keeps the strengthening.
LEMMA StepHolds ==
  ASSUME TeamAssumption, IInv, [Next]_vars
  PROVE  IInv'
<1>1. CASE UNCHANGED vars
  <2>1. requests' \subseteq requests
    BY <1>1 DEF vars
  <2> QED BY <1>1, <2>1, PageStep DEF vars, IInv, TypeOK
<1>2. ASSUME NEW p \in Person, NEW S \in Postings \cup {{Home}}, AddMember(p, S) \/ ReadTransfer(p, S)
      PROVE  IInv'
  BY <1>2, AddMemberStep, ReadTransferStep
<1>3. ASSUME NEW p \in Person, ReadRemoval(p)  PROVE IInv'
  BY <1>3, ReadRemovalStep
<1>4. ASSUME NEW a \in Handed, ReadSave(a)  PROVE IInv'
  BY <1>4, ReadSaveStep
<1>5. ASSUME NEW s \in DOMAIN shifts, NEW a \in Handed, ReadCustody(s, a)  PROVE IInv'
  BY <1>5, ReadCustodyStep
<1>6. ASSUME NEW r \in requests, CommitTransfer(r) \/ CommitRemoval(r) \/ CommitSave(r)
      PROVE  IInv'
  BY <1>6, CommitTransferStep, CommitRemovalStep, CommitSaveStep
<1>7. CASE LoadPage \/ OpenShift
  BY <1>7, LoadPageStep, OpenShiftStep
<1>8. ASSUME NEW n \in Nozzle, NEW p \in Person \cup {NoOne}, ChooseAttendant(n, p)  PROVE IInv'
  BY <1>8, ChooseAttendantStep
<1>9. ASSUME NEW moved \in SUBSET Nozzle, CloseShift(moved)  PROVE IInv'
  BY <1>9, CloseShiftStep
<1> QED
  BY <1>1, <1>2, <1>3, <1>4, <1>5, <1>6, <1>7, <1>8, <1>9 DEF Next

\* The strengthening holds in every state.
THEOREM Inductive == Spec => []IInv
<1>1. Init => IInv
  BY InitHolds, TeamAssumption
<1>2. IInv /\ [Next]_vars => IInv'
  BY StepHolds, TeamAssumption
<1> QED BY <1>1, <1>2, PTL DEF Spec

\* Every state of the specification has the types TypeOK gives it.
THEOREM TypeCorrect == Spec => []TypeOK
<1>1. IInv => TypeOK
  BY DEF IInv
<1> QED BY <1>1, Inductive, PTL

\* Whoever holds a nozzle in a shift is on that shift's team, whatever saves of
\* the defaults, custody changes, openings and closings overlap
\* (access/service.ts:88-194, shifts/service.ts:227-405 and 800-842).
THEOREM CustodiansAreOnTheTeam == Spec => []CustodianOnTeam
<1>1. IInv => CustodianOnTeam
  BY DEF IInv
<1> QED BY <1>1, Inductive, PTL

\* Nobody removed is still a nozzle's default attendant, unless the removal
\* overlapped the save that handed it to them (access/service.ts:316-346).
THEOREM RemovedHoldsNoDefault == Spec => []RemovedIsNoDefault
<1>1. IInv => RemovedIsNoDefault
  BY DEF IInv
<1> QED BY <1>1, Inductive, PTL

\* A manager works at one pump, unless two changes of his pumps overlapped
\* (access/service.ts:195-234).
THEOREM ManagersHaveOnePump == Spec => []ManagerHasOnePump
<1>1. IInv => ManagerHasOnePump
  BY DEF IInv
<1> QED BY <1>1, Inductive, PTL

-----------------------------------------------------------------------------
(* Behind the page.                                                       *)

\* The form names people or nobody.
DeskInv == IInv /\ staff \in {Blank} \cup Form

\* A preset custodian is a person, or nobody.
LEMMA PresetHanded ==
  ASSUME TypeOK
  PROVE  [n \in Nozzle |-> Preset(n)] \in Handed
<1>1. ASSUME NEW n \in Nozzle  PROVE Preset(n) \in Person \cup {NoOne}
  <2>1. CASE defaults[n] # NoOne \/ OpenShifts = {}
    BY <2>1 DEF Preset, TypeOK, Handed
  <2>2. CASE ~(defaults[n] # NoOne \/ OpenShifts = {})
    <3>1. PICK s \in OpenShifts : s = CHOOSE t \in OpenShifts : TRUE
      BY <2>2
    <3>2. shifts[s] \in Shift
      <4>1. s \in DOMAIN shifts /\ shifts \in Seq(Shift)
        BY <3>1 DEF OpenShifts, TypeOK
      <4> QED BY <4>1
    <3>4. shifts[s].custody \in Handed
      BY <3>2 DEF Shift
    <3>3. Preset(n) = shifts[s].custody[n]
      BY <2>2, <3>1 DEF Preset
    <3> QED BY <3>3, <3>4 DEF Handed
  <2> QED BY <2>1, <2>2
<1> QED BY <1>1 DEF Handed

\* What is not asked for on the staff page is a step of Team.
LEMMA OthersStep ==
  ASSUME Others
  PROVE  Next
BY DEF Others, Next

\* Each step of the page is a step of Team, or shows something else.
LEMMA DeskStepHolds ==
  ASSUME TeamAssumption, DeskInv, [DeskNext]_deskVars
  PROVE  DeskInv' /\ [Next]_vars
<1>. USE DEF DeskInv
<1>0. ASSUME [Next]_vars, staff' \in {Blank} \cup Form
      PROVE  DeskInv' /\ [Next]_vars
  BY <1>0, StepHolds
<1>1. CASE UNCHANGED deskVars
  BY <1>0, <1>1 DEF deskVars
<1>2. CASE LoadStaff
  BY <1>0, <1>2, PresetHanded DEF LoadStaff, Form, IInv
<1>3. ASSUME NEW n \in Nozzle, NEW p \in Person \cup {NoOne}, ChooseDefault(n, p)
      PROVE  DeskInv' /\ [Next]_vars
  <2>1. staff \in Form
    BY <1>3 DEF ChooseDefault, Shown
  <2>2. staff' \in Form
    BY <1>3, <2>1 DEF ChooseDefault, Form, Handed
  <2> QED BY <1>0, <1>3, <2>2 DEF ChooseDefault
<1>4. CASE SaveCustody
  <2>1. staff.assign \in Handed
    BY <1>4 DEF SaveCustody, Shown, Form
  <2>2. Next
    BY <1>4, <2>1 DEF SaveCustody, Next
  <2> QED BY <1>0, <1>4, <2>2 DEF SaveCustody
<1>5. ASSUME NEW p \in Person, Create(p) \/ Remove(p)
      PROVE  DeskInv' /\ [Next]_vars
  <2>1. Next
    BY <1>5 DEF Create, Remove, Next
  <2> QED BY <1>0, <1>5, <2>1 DEF Create, Remove
<1>6. CASE Others
  BY <1>0, <1>6, OthersStep DEF Others
<1> QED BY <1>1, <1>2, <1>3, <1>4, <1>5, <1>6 DEF DeskNext

\* The page starts blank, over a team as it starts.
LEMMA DeskInitHolds ==
  ASSUME TeamAssumption, DeskInit
  PROVE  DeskInv /\ Init
BY InitHolds DEF DeskInit, DeskInv

\* The staff page implements Team: however old what it shows, it makes no step
\* Team does not have (StaffPage.tsx:148-238).
THEOREM StaffPageImplementsTeam == DeskSpec => Spec
<1>1. DeskInit => DeskInv /\ Init
  BY DeskInitHolds, TeamAssumption
<1>2. DeskInv /\ [DeskNext]_deskVars => DeskInv' /\ [Next]_vars
  BY DeskStepHolds, TeamAssumption
<1> QED BY <1>1, <1>2, PTL DEF DeskSpec, Spec

\* Behind the staff page too, whoever holds a nozzle in a shift is on its team
\* (access/service.ts:88-194).
THEOREM StaffPageCustodians == DeskSpec => []CustodianOnTeam
BY StaffPageImplementsTeam, CustodiansAreOnTheTeam, PTL

\* Behind the staff page too, nobody removed keeps a default nozzle, unless the
\* removal overlapped the save that handed it to them.
THEOREM StaffPageRemovals == DeskSpec => []RemovedIsNoDefault
BY StaffPageImplementsTeam, RemovedHoldsNoDefault, PTL

\* Behind the staff page too, a manager works at one pump, unless two changes
\* of his pumps overlapped.
THEOREM StaffPageManagers == DeskSpec => []ManagerHasOnePump
BY StaffPageImplementsTeam, ManagersHaveOnePump, PTL

-----------------------------------------------------------------------------
(* Telling the owner.                                                      *)

\* A call of this key is under way with the WhatsApp message, and has claimed it.
Telling(c, k) == call[c] # None /\ call[c].key = k /\ call[c].stage \in {"send", "told", "failed"}

\* The message of a key is claimed by one call, which alone sends it, once.
OneTeller ==
  \A k \in Key :
    /\ texted[k] <= 1
    /\ text[k] = None => texted[k] = 0 /\ \A c \in Call : ~Telling(c, k)
    /\ \A c, e \in Call : Telling(c, k) /\ Telling(e, k) => c = e
    /\ \A c \in Call : Telling(c, k) /\ call[c].stage = "send" => texted[k] = 0

\* A call past its first step has raised the alert; nothing is sent before.
RaisedFirst ==
  /\ \A c \in Call : call[c] # None /\ call[c].stage # "raise" => alert[call[c].key] # None
  /\ \A k \in Key : alert[k] = None => texted[k] = 0 /\ \A d \in Device : rang[k][d] = 0

\* Telephones are rung in one stage of a call only.
RungInStage ==
  \A c \in Call : call[c] # None /\ call[c].stage # "push" => \A d \in Device : call[c].ring[d] = "none"

\* The calls about to ring a telephone for a key, and those that did and did not
\* record it yet.
RingersAt(k, d, step) == {c \in Call : call[c] # None /\ call[c].key = k /\ call[c].ring[d] = step}

\* A ring that may be known of: by a call before its record, or by the record.
KnownOf(k, d) ==
  RingersAt(k, d, "send") \cup RingersAt(k, d, "rung") # {} \/ push[k][d] = "SENT"

\* Each ring, and each about to be, is in doubt but one that is known of.
RingsAccounted ==
  \A k \in Key, d \in Device :
    rang[k][d] + Cardinality(RingersAt(k, d, "send"))
      <= doubts[k][d] + (IF KnownOf(k, d) THEN 1 ELSE 0)

AlertsInv == AlertsTypeOK /\ OneTeller /\ RaisedFirst /\ RungInStage /\ RingsAccounted

Stage == {"raise", "devices", "push", "look", "claim", "send", "told", "failed"}

\* A call that is under way has its row.
LEMMA CallTyped ==
  ASSUME AlertsTypeOK, NEW c \in Call, call[c] # None
  PROVE  /\ call[c] \in CallRow /\ call[c].key \in Key /\ call[c].whatsapp \in BOOLEAN
         /\ call[c].stage \in Stage /\ call[c].ring \in [Device -> RingStep]
<1>1. call[c] \in CallRow
  BY DEF AlertsTypeOK
<1> QED BY <1>1 DEF CallRow, Stage

\* One call's row is changed.
CallBecomes(c, row) ==
  /\ call' \in [Call -> CallRow \cup {None}]
  /\ call'[c] = row /\ \A e \in Call : e # c => call'[e] = call[e]

\* Its stage.
LEMMA GoesTo ==
  ASSUME AlertsTypeOK, NEW c \in Call, call[c] # None, NEW s \in Stage,
         call' = [call EXCEPT ![c].stage = s]
  PROVE  \E row \in CallRow : /\ CallBecomes(c, row) /\ row # None
                              /\ row.key = call[c].key /\ row.ring = call[c].ring /\ row.stage = s
<1>1. call \in [Call -> CallRow \cup {None}] /\ call[c] \in CallRow
  BY CallTyped DEF AlertsTypeOK
<1>2. PICK row : row = [call[c] EXCEPT !.stage = s]
  OBVIOUS
<1>3. row \in CallRow /\ row.key = call[c].key /\ row.ring = call[c].ring /\ row.stage = s
  BY <1>1, <1>2 DEF CallRow, Stage
<1>4. call' = [call EXCEPT ![c] = row]
  BY <1>1, <1>2
<1>5. row # None
  BY <1>3, AlertsAssumption
<1> QED BY <1>1, <1>3, <1>4, <1>5 DEF CallBecomes

\* Its step towards one telephone.
LEMMA RingGoesTo ==
  ASSUME AlertsTypeOK, NEW c \in Call, call[c] # None, NEW d \in Device, NEW s \in RingStep,
         RingTo(c, d, s)
  PROVE  \E row \in CallRow : /\ CallBecomes(c, row) /\ row # None
                              /\ row.key = call[c].key /\ row.stage = call[c].stage
                              /\ row.ring[d] = s
                              /\ \A e \in Device : e # d => row.ring[e] = call[c].ring[e]
<1>1. call \in [Call -> CallRow \cup {None}] /\ call[c] \in CallRow
      /\ call[c].ring \in [Device -> RingStep]
  BY CallTyped DEF AlertsTypeOK
<1>2. PICK r : r = [call[c].ring EXCEPT ![d] = s]
  OBVIOUS
<1>3. r \in [Device -> RingStep] /\ r[d] = s /\ \A e \in Device : e # d => r[e] = call[c].ring[e]
  BY <1>1, <1>2
<1>4. PICK row : row = [call[c] EXCEPT !.ring = r]
  OBVIOUS
<1>5. row \in CallRow /\ row.key = call[c].key /\ row.stage = call[c].stage /\ row.ring = r
  BY <1>1, <1>3, <1>4 DEF CallRow
<1>6. call' = [call EXCEPT ![c] = row]
  BY <1>1, <1>2, <1>4 DEF RingTo
<1>7. row # None
  BY <1>5, AlertsAssumption
<1> QED BY <1>1, <1>3, <1>5, <1>6, <1>7 DEF CallBecomes

\* It ends.
LEMMA Ends ==
  ASSUME AlertsTypeOK, NEW c \in Call, End(c)
  PROVE  CallBecomes(c, None)
BY DEF AlertsTypeOK, End, CallBecomes

-----------------------------------------------------------------------------
(* What a step leaves as it was.                                           *)

\* No message is claimed, sent or recorded.
Silent ==
  /\ UNCHANGED <<text, texted>>
  /\ \A c \in Call, k \in Key :
       Telling(c, k)' => Telling(c, k) /\ (call'[c].stage = "send" => call[c].stage = "send")

\* A step silent on WhatsApp leaves the message with its one call.
LEMMA SilentTells ==
  ASSUME OneTeller, Silent
  PROVE  OneTeller'
<1> SUFFICES ASSUME NEW k \in Key
             PROVE  /\ texted'[k] <= 1
                    /\ text'[k] = None => texted'[k] = 0 /\ \A c \in Call : ~Telling(c, k)'
                    /\ \A c, e \in Call : Telling(c, k)' /\ Telling(e, k)' => c = e
                    /\ \A c \in Call : Telling(c, k)' /\ call'[c].stage = "send" => texted'[k] = 0
  BY DEF OneTeller
<1>1. text' = text /\ texted' = texted
  BY DEF Silent
<1> QED BY <1>1 DEF OneTeller, Silent

\* No telephone is rung, and no ring recorded.
Hushed ==
  /\ UNCHANGED <<push, rang, doubts>>
  /\ \A k \in Key, d \in Device, s \in {"send", "rung"} : RingersAt(k, d, s)' = RingersAt(k, d, s)

\* A step silent on telephones leaves the rings accounted for.
LEMMA HushedRings ==
  ASSUME RingsAccounted, Hushed
  PROVE  RingsAccounted'
<1> SUFFICES ASSUME NEW k \in Key, NEW d \in Device
             PROVE  rang'[k][d] + Cardinality(RingersAt(k, d, "send")')
                      <= doubts'[k][d] + (IF KnownOf(k, d)' THEN 1 ELSE 0)
  BY DEF RingsAccounted
<1>1. /\ RingersAt(k, d, "send")' = RingersAt(k, d, "send")
      /\ RingersAt(k, d, "rung")' = RingersAt(k, d, "rung")
      /\ push' = push /\ rang' = rang /\ doubts' = doubts
  BY DEF Hushed
<1>2. KnownOf(k, d)' <=> KnownOf(k, d)
  BY <1>1 DEF KnownOf
<1> QED BY <1>1, <1>2 DEF RingsAccounted

\* Nor when one call's row is changed, as long as it is rung the same.
LEMMA SameRings ==
  ASSUME NEW c \in Call, NEW row, CallBecomes(c, row), UNCHANGED <<push, rang, doubts>>,
         \A k \in Key, d \in Device, s \in {"send", "rung"} :
           (row # None /\ row.key = k /\ row.ring[d] = s) <=> c \in RingersAt(k, d, s)
  PROVE  Hushed
<1> SUFFICES ASSUME NEW k \in Key, NEW d \in Device, NEW s \in {"send", "rung"}
             PROVE  RingersAt(k, d, s)' = RingersAt(k, d, s)
  BY DEF Hushed
<1>1. ASSUME NEW e \in Call PROVE e \in RingersAt(k, d, s)' <=> e \in RingersAt(k, d, s)
  BY <1>1 DEF CallBecomes, RingersAt
<1> QED BY <1>1 DEF RingersAt

\* The calls at a telephone can be counted.
LEMMA RingersCount ==
  ASSUME NEW k, NEW d, NEW s
  PROVE  /\ IsFiniteSet(RingersAt(k, d, s)) /\ Cardinality(RingersAt(k, d, s)) \in Nat
         /\ \A c \in RingersAt(k, d, s) :
              /\ Cardinality(RingersAt(k, d, s) \ {c}) = Cardinality(RingersAt(k, d, s)) - 1
              /\ RingersAt(k, d, s) \cup {c} = RingersAt(k, d, s)
         /\ \A c : c \notin RingersAt(k, d, s) =>
              /\ Cardinality(RingersAt(k, d, s) \cup {c}) = Cardinality(RingersAt(k, d, s)) + 1
              /\ RingersAt(k, d, s) \ {c} = RingersAt(k, d, s)
         /\ Cardinality(RingersAt(k, d, s)) = 0 <=> RingersAt(k, d, s) = {}
<1>1. PICK S : S = RingersAt(k, d, s)
  OBVIOUS
<1>2. IsFiniteSet(S)
  BY <1>1, AlertsAssumption, FS_Subset DEF RingersAt
<1>3. Cardinality(S) \in Nat /\ (Cardinality(S) = 0 <=> S = {})
  BY <1>2, FS_CardinalityType, FS_EmptySet
<1>4. \A c \in S : Cardinality(S \ {c}) = Cardinality(S) - 1 /\ S \cup {c} = S
  BY <1>2, FS_RemoveElement
<1>5. \A c : c \notin S => Cardinality(S \cup {c}) = Cardinality(S) + 1 /\ S \ {c} = S
  BY <1>2, FS_AddElement
<1> QED BY <1>1, <1>2, <1>3, <1>4, <1>5

\* Every other telephone and key stays as it is.
Elsewhere(k, d) ==
  \A j \in Key, e \in Device : j # k \/ e # d =>
    /\ push'[j][e] = push[j][e] /\ rang'[j][e] = rang[j][e] /\ doubts'[j][e] = doubts[j][e]
    /\ \A s \in {"send", "rung"} : RingersAt(j, e, s)' = RingersAt(j, e, s)

\* Rings need counting only where a step rings or records.
LEMMA AccountedAt ==
  ASSUME RingsAccounted, NEW k \in Key, NEW d \in Device, Elsewhere(k, d),
         rang'[k][d] + Cardinality(RingersAt(k, d, "send")')
           <= doubts'[k][d] + (IF KnownOf(k, d)' THEN 1 ELSE 0)
  PROVE  RingsAccounted'
<1> SUFFICES ASSUME NEW j \in Key, NEW e \in Device, j # k \/ e # d
             PROVE  rang'[j][e] + Cardinality(RingersAt(j, e, "send")')
                      <= doubts'[j][e] + (IF KnownOf(j, e)' THEN 1 ELSE 0)
  BY DEF RingsAccounted
<1>1. /\ RingersAt(j, e, "send")' = RingersAt(j, e, "send")
      /\ RingersAt(j, e, "rung")' = RingersAt(j, e, "rung")
      /\ push'[j][e] = push[j][e] /\ rang'[j][e] = rang[j][e] /\ doubts'[j][e] = doubts[j][e]
  BY DEF Elsewhere
<1>2. KnownOf(j, e)' <=> KnownOf(j, e)
  BY <1>1 DEF KnownOf
<1> QED BY <1>1, <1>2 DEF RingsAccounted

\* A call's step towards a telephone, from one to another.
Turns(c, d, from, to) ==
  /\ c \in Call /\ d \in Device /\ call[c] # None /\ call[c].ring[d] = from /\ to \in RingStep
  /\ RingTo(c, d, to)

\* A step towards a telephone moves one call among the ringers of that telephone.
LEMMA Turned ==
  ASSUME AlertsTypeOK, NEW c, NEW d, NEW from, NEW to, Turns(c, d, from, to), NEW k, k = call[c].key
  PROVE  /\ c \in Call /\ d \in Device /\ k \in Key
         /\ call' \in [Call -> CallRow \cup {None}]
         /\ \A e \in Call : /\ (call'[e] = None <=> call[e] = None)
                            /\ call[e] # None => /\ call'[e].key = call[e].key
                                                 /\ call'[e].stage = call[e].stage
         /\ \A e \in Call : e # c => call'[e] = call[e]
         /\ \A j \in Key, e \in Device, s \in {"send", "rung"} : j # k \/ e # d =>
              RingersAt(j, e, s)' = RingersAt(j, e, s)
         /\ \A s \in {"send", "rung"} :
              /\ from = s <=> c \in RingersAt(k, d, s)
              /\ RingersAt(k, d, s)' = (RingersAt(k, d, s) \ {c}) \cup (IF to = s THEN {c} ELSE {})
<1>1. c \in Call /\ d \in Device /\ call[c] # None /\ to \in RingStep /\ call[c].ring[d] = from
      /\ call[c].key \in Key
  BY CallTyped DEF Turns
<1>2. PICK row \in CallRow : /\ CallBecomes(c, row) /\ row # None
                             /\ row.key = call[c].key /\ row.stage = call[c].stage
                             /\ row.ring[d] = to
                             /\ \A e \in Device : e # d => row.ring[e] = call[c].ring[e]
  BY <1>1, RingGoesTo DEF Turns
<1>3. /\ call' \in [Call -> CallRow \cup {None}]
      /\ call'[c] = row /\ \A e \in Call : e # c => call'[e] = call[e]
  BY <1>2 DEF CallBecomes
<1>4. \A e \in Call : /\ (call'[e] = None <=> call[e] = None)
                      /\ call[e] # None => /\ call'[e].key = call[e].key
                                           /\ call'[e].stage = call[e].stage
  BY <1>1, <1>2, <1>3
<1>5. ASSUME NEW j \in Key, NEW e \in Device, NEW s \in {"send", "rung"}, j # k \/ e # d
      PROVE  RingersAt(j, e, s)' = RingersAt(j, e, s)
  <2>1. \A x \in Call : x \in RingersAt(j, e, s)' <=> x \in RingersAt(j, e, s)
    BY <1>1, <1>2, <1>3, <1>5 DEF RingersAt
  <2> QED BY <2>1 DEF RingersAt
<1>6. ASSUME NEW s \in {"send", "rung"}
      PROVE  /\ from = s <=> c \in RingersAt(k, d, s)
             /\ RingersAt(k, d, s)'
                  = (RingersAt(k, d, s) \ {c}) \cup (IF to = s THEN {c} ELSE {})
  <2>1. from = s <=> c \in RingersAt(k, d, s)
    BY <1>1 DEF RingersAt
  <2>2. \A x \in Call : x # c => (x \in RingersAt(k, d, s)' <=> x \in RingersAt(k, d, s))
    BY <1>2, <1>3, <1>4 DEF RingersAt
  <2>3. c \in RingersAt(k, d, s)' <=> to = s
    BY <1>1, <1>2, <1>3 DEF RingersAt
  <2> QED BY <2>1, <2>2, <2>3 DEF RingersAt
<1> QED BY <1>1, <1>3, <1>4, <1>5, <1>6

\* Such a step tells nobody by WhatsApp, and keeps the stages.
LEMMA TurnKeeps ==
  ASSUME AlertsInv, NEW c, NEW d, NEW from, NEW to, Turns(c, d, from, to), At(c, "push"),
         UNCHANGED <<alert, text, texted>>,
         \A k \in Key, e \in Device : rang'[k][e] # rang[k][e] => k = call[c].key
  PROVE  OneTeller' /\ RaisedFirst' /\ RungInStage'
<1>1. AlertsTypeOK /\ OneTeller /\ RaisedFirst /\ RungInStage
  BY DEF AlertsInv
<1>2. /\ c \in Call /\ call[c] # None /\ call[c].stage = "push" /\ call[c].key \in Key
      /\ \A e \in Call : /\ (call'[e] = None <=> call[e] = None)
                         /\ call[e] # None => /\ call'[e].key = call[e].key
                                              /\ call'[e].stage = call[e].stage
      /\ \A e \in Call : e # c => call'[e] = call[e]
  <2>1. PICK k : k = call[c].key
    OBVIOUS
  <2> QED BY <1>1, <2>1, Turned DEF At, Turns
<1>3. OneTeller'
  <2>1. Silent
    BY <1>2 DEF Silent, Telling
  <2> QED BY <1>1, <2>1, SilentTells
<1>4. RaisedFirst'
  <2>1. alert[call[c].key] # None
    BY <1>1, <1>2 DEF RaisedFirst
  <2>2. \A k \in Key : alert[k] = None => \A e \in Device : rang'[k][e] = rang[k][e]
    BY <2>1
  <2> QED BY <1>1, <1>2, <2>2 DEF RaisedFirst
<1>5. RungInStage'
  BY <1>1, <1>2 DEF RungInStage
<1> QED BY <1>3, <1>4, <1>5

\* A row of a telephone's column raised.
LEMMA DoubtRaised ==
  ASSUME AlertsTypeOK, NEW k \in Key, NEW d \in Device, Doubt(k, d) \/ UNCHANGED doubts
  PROVE  /\ doubts' \in [Key -> [Device -> Nat]]
         /\ \A j \in Key, e \in Device : j # k \/ e # d => doubts'[j][e] = doubts[j][e]
         /\ Doubt(k, d) => doubts'[k][d] = doubts[k][d] + 1
         /\ doubts'[k][d] >= doubts[k][d] /\ doubts[k][d] \in Nat /\ doubts'[k][d] \in Nat
<1>1. doubts \in [Key -> [Device -> Nat]] /\ doubts[k] \in [Device -> Nat] /\ doubts[k][d] \in Nat
  BY DEF AlertsTypeOK
<1>2. CASE Doubt(k, d)
  <2>1. PICK r : r = [doubts[k] EXCEPT ![d] = doubts[k][d] + 1]
    OBVIOUS
  <2>2. r \in [Device -> Nat] /\ r[d] = doubts[k][d] + 1 /\ \A e \in Device : e # d => r[e] = doubts[k][e]
    BY <1>1, <2>1
  <2>3. doubts' = [doubts EXCEPT ![k] = r]
    BY <1>2, <2>1 DEF Doubt
  <2>4. doubts' \in [Key -> [Device -> Nat]] /\ doubts'[k] = r /\ \A j \in Key : j # k => doubts'[j] = doubts[j]
    BY <1>1, <2>2, <2>3
  <2> QED BY <1>1, <2>2, <2>4
<1>3. CASE UNCHANGED doubts
  <2>1. ~Doubt(k, d)
    <3>1. ASSUME Doubt(k, d) PROVE doubts'[k][d] = doubts[k][d] + 1
      BY <1>1, <3>1 DEF Doubt
    <3> QED BY <1>1, <1>3, <3>1
  <2> QED BY <1>1, <1>3, <2>1
<1> QED BY <1>2, <1>3

\* A step that leaves the calls and their rows alone.
LEMMA AsideKeeps ==
  ASSUME AlertsInv, AlertsTypeOK', UNCHANGED <<push, text, call, rang, texted, doubts>>,
         \A k \in Key : alert'[k] = None => alert[k] = None
  PROVE  AlertsInv'
<1>1. AlertsTypeOK /\ OneTeller /\ RaisedFirst /\ RungInStage /\ RingsAccounted
  BY DEF AlertsInv
<1>2. OneTeller'
  BY <1>1, SilentTells DEF Silent, Telling
<1>3. RaisedFirst'
  BY <1>1, CallTyped DEF RaisedFirst
<1>4. RungInStage'
  BY <1>1 DEF RungInStage
<1>5. RingsAccounted'
  <2>1. Hushed
    BY DEF Hushed, RingersAt
  <2> QED BY <1>1, <2>1, HushedRings
<1> QED BY <1>2, <1>3, <1>4, <1>5 DEF AlertsInv

\* The owner acknowledges an alert.
LEMMA AcknowledgeKeeps ==
  ASSUME AlertsInv, NEW k \in Key, Acknowledge(k)
  PROVE  AlertsInv'
<1>1. AlertsTypeOK'
  BY DEF AlertsInv, AlertsTypeOK, Acknowledge, ghosts, bounds
<1>2. \A j \in Key : alert'[j] = None => alert[j] = None
  BY AlertsAssumption DEF AlertsInv, AlertsTypeOK, Acknowledge
<1> QED BY <1>1, <1>2, AsideKeeps DEF Acknowledge, ghosts, bounds

\* The owner changes his settings.
LEMMA ChangeSettingsKeeps ==
  ASSUME AlertsInv, NEW new \in [wanted : BOOLEAN, whatsapp : BOOLEAN], ChangeSettings(new)
  PROVE  AlertsInv'
<1>1. AlertsTypeOK'
  BY AlertsAssumption DEF AlertsInv, AlertsTypeOK, ChangeSettings, ghosts
<1> QED BY <1>1, AsideKeeps DEF ChangeSettings, ghosts

\* A telephone is registered.
LEMMA RegisterDeviceKeeps ==
  ASSUME AlertsInv, NEW d \in Device, RegisterDevice(d)
  PROVE  AlertsInv'
<1>1. AlertsTypeOK'
  BY AlertsAssumption DEF AlertsInv, AlertsTypeOK, RegisterDevice, ghosts
<1> QED BY <1>1, AsideKeeps DEF RegisterDevice, ghosts

\* A telephone is unregistered.
LEMMA UnregisterDeviceKeeps ==
  ASSUME AlertsInv, NEW d \in Device, UnregisterDevice(d)
  PROVE  AlertsInv'
<1>1. AlertsTypeOK'
  BY AlertsAssumption DEF AlertsInv, AlertsTypeOK, UnregisterDevice, ghosts
<1> QED BY <1>1, AsideKeeps DEF UnregisterDevice, ghosts

-----------------------------------------------------------------------------
(* A call that rings nobody moves on.                                      *)

\* It keeps its key and rings nobody, or ends.
Proceeds(c, row) ==
  /\ call[c] # None /\ \A d \in Device : call[c].ring[d] \notin {"send", "rung"}
  /\ CallBecomes(c, row)
  /\ row # None => row.key = call[c].key /\ \A d \in Device : row.ring[d] = "none"
  /\ UNCHANGED <<push, rang, doubts>>

\* A call that goes on without ringing leaves rings and keys as they were.
LEMMA ProceedsKeeps ==
  ASSUME AlertsInv, NEW c \in Call, NEW row, Proceeds(c, row)
  PROVE  /\ RungInStage' /\ RingsAccounted'
         /\ call[c].key \in Key /\ call' \in [Call -> CallRow \cup {None}]
         /\ \A e \in Call : e # c => call'[e] = call[e]
         /\ call'[c] # None => call'[c].key = call[c].key
<1>1. AlertsTypeOK /\ RungInStage /\ RingsAccounted
  BY DEF AlertsInv
<1>2. /\ call' \in [Call -> CallRow \cup {None}]
      /\ call'[c] = row /\ \A e \in Call : e # c => call'[e] = call[e]
  BY DEF Proceeds, CallBecomes
<1>3. RungInStage'
  BY <1>1, <1>2 DEF RungInStage, Proceeds
<1>4. ASSUME NEW k \in Key, NEW d \in Device, NEW s \in {"send", "rung"}
      PROVE  (row # None /\ row.key = k /\ row.ring[d] = s) <=> c \in RingersAt(k, d, s)
  BY DEF Proceeds, RingersAt
<1>5. Hushed
  BY <1>4, SameRings DEF Proceeds
<1>6. RingsAccounted'
  BY <1>1, <1>5, HushedRings
<1>7. call[c].key \in Key
  BY <1>1, CallTyped DEF Proceeds
<1> QED BY <1>2, <1>3, <1>6, <1>7 DEF Proceeds

\* A call past its first step that goes on has raised its alert.
LEMMA ProceedsRaised ==
  ASSUME AlertsInv, NEW c \in Call, NEW row, Proceeds(c, row), call[c].stage # "raise",
         alert' = alert, \A k \in Key : texted'[k] # texted[k] => k = call[c].key
  PROVE  RaisedFirst'
<1>1. RaisedFirst /\ AlertsTypeOK
  BY DEF AlertsInv
<1>2. /\ call[c].key \in Key /\ \A e \in Call : e # c => call'[e] = call[e]
      /\ call'[c] # None => call'[c].key = call[c].key
  BY ProceedsKeeps
<1>3. alert[call[c].key] # None
  BY <1>1 DEF RaisedFirst, Proceeds
<1>4. \A e \in Call : call'[e] # None /\ call'[e].stage # "raise" => alert'[call'[e].key] # None
  BY <1>1, <1>2, <1>3 DEF RaisedFirst
<1>5. ASSUME NEW k \in Key, alert'[k] = None
      PROVE  texted'[k] = 0 /\ \A d \in Device : rang'[k][d] = 0
  BY <1>1, <1>3, <1>5 DEF RaisedFirst, Proceeds
<1> QED BY <1>4, <1>5 DEF RaisedFirst

\* A call that is not told to stop is still without a message.
LEMMA ProceedsSilent ==
  ASSUME AlertsInv, NEW c \in Call, NEW row, Proceeds(c, row),
         row # None => row.stage \notin {"send", "told", "failed"},
         UNCHANGED <<text, texted>>
  PROVE  OneTeller'
<1>1. /\ \A e \in Call : e # c => call'[e] = call[e]
      /\ call'[c] = row
  BY DEF Proceeds, CallBecomes
<1>2. Silent
  BY <1>1 DEF Silent, Telling
<1> QED BY <1>2, SilentTells DEF AlertsInv

\* What a call outside its push stage does to its telephones: nothing.
LEMMA NoRings ==
  ASSUME AlertsInv, NEW c \in Call, NEW s, At(c, s), s # "push"
  PROVE  \A d \in Device : call[c].ring[d] = "none"
BY DEF AlertsInv, RungInStage, At

\* A call moves on to a stage, or ends.
LEMMA GoProceeds ==
  ASSUME AlertsInv, NEW c \in Call, call[c] # None, \A d \in Device : call[c].ring[d] = "none",
         UNCHANGED <<push, rang, doubts>>, NEW s \in Stage, Go(c, s)
  PROVE  \E row \in CallRow : Proceeds(c, row) /\ row # None /\ row.stage = s
<1>1. PICK row \in CallRow : /\ CallBecomes(c, row) /\ row # None
                             /\ row.key = call[c].key /\ row.ring = call[c].ring /\ row.stage = s
  BY GoesTo DEF AlertsInv, Go
<1> QED BY <1>1 DEF Proceeds

\* A call that ends goes on without ringing.
LEMMA EndProceeds ==
  ASSUME AlertsInv, NEW c \in Call, call[c] # None,
         \A d \in Device : call[c].ring[d] \notin {"send", "rung"},
         UNCHANGED <<push, rang, doubts>>, End(c)
  PROVE  Proceeds(c, None)
BY Ends DEF Proceeds, AlertsInv

-----------------------------------------------------------------------------
\* A call raises the alert, or finds it raised.
LEMMA RaiseAlertKeeps ==
  ASSUME AlertsInv, NEW c \in Call, RaiseAlert(c)
  PROVE  AlertsInv'
<1>1. AlertsTypeOK /\ RaisedFirst /\ call[c] # None /\ call[c].stage = "raise"
  BY DEF AlertsInv, RaiseAlert, At
<1>2. PICK row \in CallRow : Proceeds(c, row) /\ row # None /\ row.stage = "devices"
  <2>1. \A d \in Device : call[c].ring[d] = "none"
    BY NoRings DEF RaiseAlert
  <2> QED BY <1>1, <2>1, GoProceeds DEF RaiseAlert, ghosts, Stage
<1>3. /\ RungInStage' /\ RingsAccounted' /\ call[c].key \in Key
      /\ call' \in [Call -> CallRow \cup {None}] /\ \A e \in Call : e # c => call'[e] = call[e]
      /\ call'[c] # None => call'[c].key = call[c].key
  BY <1>2, ProceedsKeeps
<1>4. OneTeller'
  BY <1>2, ProceedsSilent DEF RaiseAlert, ghosts
<1>5. /\ alert' \in [Key -> BOOLEAN \cup {None}]
      /\ \A k \in Key : alert'[k] = None => alert[k] = None /\ k # call[c].key
  BY <1>1, <1>3, AlertsAssumption DEF RaiseAlert, Raised, AlertsTypeOK
<1>6. AlertsTypeOK'
  BY <1>1, <1>3, <1>5 DEF AlertsTypeOK, RaiseAlert, ghosts, bounds
<1>7. RaisedFirst'
  <2>1. \A e \in Call : call'[e] # None /\ call'[e].stage # "raise" => alert'[call'[e].key] # None
    <3> SUFFICES ASSUME NEW e \in Call, call'[e] # None, call'[e].stage # "raise",
                        alert'[call'[e].key] = None
                 PROVE  FALSE
      OBVIOUS
    <3>1. CASE e = c
      BY <1>3, <1>5, <3>1
    <3>2. CASE e # c
      <4>1. call[e].key \in Key /\ call'[e] = call[e]
        BY <1>1, <1>3, <3>2, CallTyped
      <4> QED BY <1>1, <1>5, <4>1 DEF RaisedFirst
    <3> QED BY <3>1, <3>2
  <2>2. texted' = texted /\ rang' = rang
    BY DEF RaiseAlert, ghosts
  <2> QED BY <1>1, <1>5, <2>1, <2>2 DEF RaisedFirst
<1> QED BY <1>3, <1>4, <1>6, <1>7 DEF AlertsInv

\* A call leaves the telephones.
LEMMA EndPushKeeps ==
  ASSUME AlertsInv, NEW c \in Call, EndPush(c)
  PROVE  AlertsInv'
<1>1. AlertsTypeOK /\ call[c] # None /\ call[c].stage = "push"
      /\ \A d \in Device : call[c].ring[d] \notin {"send", "rung"}
  BY DEF AlertsInv, EndPush, At
<1>2. PICK row : Proceeds(c, row) /\ (row # None => row.stage = "look")
  <2>1. CASE Go(c, "look") /\ \A d \in Device : call[c].ring[d] = "none"
    BY <1>1, <2>1, GoProceeds DEF EndPush, ghosts, Stage
  <2>2. CASE End(c)
    BY <1>1, <2>2, EndProceeds DEF EndPush, ghosts
  <2> QED BY <2>1, <2>2 DEF EndPush
<1>3. RungInStage' /\ RingsAccounted' /\ call' \in [Call -> CallRow \cup {None}]
  BY <1>2, ProceedsKeeps
<1>4. OneTeller'
  BY <1>2, ProceedsSilent DEF EndPush, ghosts
<1>5. RaisedFirst'
  BY <1>1, <1>2, ProceedsRaised DEF EndPush, ghosts
<1>6. AlertsTypeOK'
  BY <1>1, <1>3 DEF AlertsTypeOK, EndPush, ghosts, bounds
<1> QED BY <1>3, <1>4, <1>5, <1>6 DEF AlertsInv

\* A call looks whether the message may be sent.
LEMMA LookTextKeeps ==
  ASSUME AlertsInv, NEW c \in Call, LookText(c)
  PROVE  AlertsInv'
<1>1. AlertsTypeOK /\ call[c] # None /\ call[c].stage = "look"
      /\ \A d \in Device : call[c].ring[d] = "none"
  BY NoRings DEF AlertsInv, LookText, At
<1>2. PICK row : Proceeds(c, row) /\ (row # None => row.stage = "claim")
  <2>1. CASE text[call[c].key] = None
    BY <1>1, <2>1, GoProceeds DEF LookText, ghosts, Stage
  <2>2. CASE text[call[c].key] # None
    BY <1>1, <2>2, EndProceeds DEF LookText, ghosts
  <2> QED BY <2>1, <2>2
<1>3. RungInStage' /\ RingsAccounted' /\ call' \in [Call -> CallRow \cup {None}]
  BY <1>2, ProceedsKeeps
<1>4. OneTeller'
  BY <1>2, ProceedsSilent DEF LookText, ghosts
<1>5. RaisedFirst'
  BY <1>1, <1>2, ProceedsRaised DEF LookText, ghosts
<1>6. AlertsTypeOK'
  BY <1>1, <1>3 DEF AlertsTypeOK, LookText, ghosts, bounds
<1> QED BY <1>3, <1>4, <1>5, <1>6 DEF AlertsInv

\* The first to claim a message finds no other at it.
LEMMA ClaimTextKeeps ==
  ASSUME AlertsInv, NEW c \in Call, ClaimText(c)
  PROVE  AlertsInv'
<1>1. AlertsTypeOK /\ OneTeller /\ call[c] # None /\ call[c].stage = "claim"
      /\ \A d \in Device : call[c].ring[d] = "none"
  BY NoRings DEF AlertsInv, ClaimText, At
<1> DEFINE k == call[c].key
<1>2. k \in Key
  BY <1>1, CallTyped
<1>3. CASE Unclaimed(k) /\ text' = [text EXCEPT ![k] = "PENDING"] /\ Go(c, "send")
  <2>1. PICK row \in CallRow : Proceeds(c, row) /\ row # None /\ row.stage = "send"
    BY <1>1, <1>3, GoProceeds DEF ClaimText, ghosts, Stage
  <2>2. /\ RungInStage' /\ RingsAccounted' /\ call' \in [Call -> CallRow \cup {None}]
        /\ \A e \in Call : e # c => call'[e] = call[e]
        /\ call'[c] # None => call'[c].key = k
    BY <2>1, ProceedsKeeps
  <2>3. RaisedFirst'
    BY <1>1, <2>1, ProceedsRaised DEF ClaimText, ghosts
  <2>4. /\ text' \in [Key -> Result \cup {None}] /\ text'[k] # None
        /\ \A j \in Key : j # k => text'[j] = text[j]
    BY <1>1, <1>2, <1>3, AlertsAssumption DEF AlertsTypeOK, Result
  <2>5. AlertsTypeOK'
    BY <1>1, <2>2, <2>4 DEF AlertsTypeOK, ClaimText, ghosts, bounds
  <2>6. texted' = texted /\ text[k] = None
    BY <1>3 DEF ClaimText, ghosts, Unclaimed
  <2>7. OneTeller'
    <3> SUFFICES ASSUME NEW j \in Key
                 PROVE  /\ texted'[j] <= 1
                        /\ text'[j] = None => texted'[j] = 0 /\ \A e \in Call : ~Telling(e, j)'
                        /\ \A e, x \in Call : Telling(e, j)' /\ Telling(x, j)' => e = x
                        /\ \A e \in Call : Telling(e, j)' /\ call'[e].stage = "send" => texted'[j] = 0
      BY DEF OneTeller
    <3>1. \A e \in Call : e # c => (Telling(e, j)' <=> Telling(e, j)) /\ call'[e] = call[e]
      BY <2>2 DEF Telling
    <3>2. CASE j = k
      <4>1. \A e \in Call : Telling(e, j)' => e = c
        BY <1>1, <1>2, <2>6, <3>1, <3>2 DEF OneTeller
      <4> QED BY <1>1, <1>2, <2>4, <2>6, <3>2, <4>1 DEF OneTeller
    <3>3. CASE j # k
      <4>1. ~Telling(c, j)'
        BY <2>2, <3>3 DEF Telling
      <4> QED BY <1>1, <2>4, <2>6, <3>1, <3>3, <4>1 DEF OneTeller
    <3> QED BY <3>2, <3>3
  <2> QED BY <2>2, <2>3, <2>5, <2>7 DEF AlertsInv
<1>4. CASE End(c) /\ UNCHANGED text
  <2>1. Proceeds(c, None)
    BY <1>1, <1>4, EndProceeds DEF ClaimText, ghosts
  <2>2. RungInStage' /\ RingsAccounted' /\ call' \in [Call -> CallRow \cup {None}]
    BY <2>1, ProceedsKeeps
  <2>3. OneTeller'
    BY <1>4, <2>1, ProceedsSilent DEF ClaimText, ghosts
  <2>4. RaisedFirst'
    BY <1>1, <2>1, ProceedsRaised DEF ClaimText, ghosts
  <2>5. AlertsTypeOK'
    BY <1>1, <1>4, <2>2 DEF AlertsTypeOK, ClaimText, ghosts, bounds
  <2> QED BY <2>2, <2>3, <2>4, <2>5 DEF AlertsInv
<1> QED BY <1>3, <1>4 DEF ClaimText

\* The one call that claimed the message sends it, once.
LEMMA SendTextKeeps ==
  ASSUME AlertsInv, NEW c \in Call, NEW reached \in BOOLEAN, NEW answered \in BOOLEAN,
         SendText(c, reached, answered)
  PROVE  AlertsInv'
<1>1. AlertsTypeOK /\ OneTeller /\ call[c] # None /\ call[c].stage = "send"
      /\ \A d \in Device : call[c].ring[d] = "none"
  BY NoRings DEF AlertsInv, SendText, At
<1> DEFINE k == call[c].key
<1>2. k \in Key
  BY <1>1, CallTyped
<1>3. PICK s \in {"told", "failed"} : Go(c, s)
  BY DEF SendText
<1>4. PICK row \in CallRow : Proceeds(c, row) /\ row # None /\ row.stage = s
  BY <1>1, <1>3, GoProceeds DEF SendText, Stage
<1>5. /\ RungInStage' /\ RingsAccounted' /\ call' \in [Call -> CallRow \cup {None}]
      /\ \A e \in Call : e # c => call'[e] = call[e]
      /\ call'[c] # None => call'[c].key = k
  BY <1>4, ProceedsKeeps
<1>6. texted[k] = 0 /\ Telling(c, k)
  BY <1>1, <1>2 DEF OneTeller, Telling
<1>7. /\ texted' \in [Key -> Nat] /\ texted'[k] <= 1
      /\ \A j \in Key : j # k => texted'[j] = texted[j]
  BY <1>1, <1>2, <1>6 DEF SendText, AlertsTypeOK
<1>8. RaisedFirst'
  BY <1>1, <1>4, <1>7, ProceedsRaised DEF SendText
<1>9. faults' \in 0..MaxFaults
  BY <1>1, AlertsAssumption DEF SendText, Accepted, Fault, AlertsTypeOK
<1>10. AlertsTypeOK'
  BY <1>1, <1>5, <1>7, <1>9 DEF AlertsTypeOK, SendText
<1>11. OneTeller'
  <2> SUFFICES ASSUME NEW j \in Key
               PROVE  /\ texted'[j] <= 1
                      /\ text'[j] = None => texted'[j] = 0 /\ \A e \in Call : ~Telling(e, j)'
                      /\ \A e, x \in Call : Telling(e, j)' /\ Telling(x, j)' => e = x
                      /\ \A e \in Call : Telling(e, j)' /\ call'[e].stage = "send" => texted'[j] = 0
    BY DEF OneTeller
  <2>1. /\ \A e \in Call : Telling(e, j)' => Telling(e, j)
        /\ \A e \in Call : Telling(e, j)' /\ call'[e].stage = "send" => call[e].stage = "send" /\ e # c
        /\ text' = text
    BY <1>1, <1>4, <1>5 DEF Telling, Proceeds, CallBecomes, SendText
  <2>2. CASE j = k
    BY <1>1, <1>6, <1>7, <2>1, <2>2 DEF OneTeller
  <2>3. CASE j # k
    BY <1>1, <1>7, <2>1, <2>3 DEF OneTeller
  <2> QED BY <2>2, <2>3
<1> QED BY <1>5, <1>8, <1>10, <1>11 DEF AlertsInv

\* A call records how its message went.
LEMMA RecordTextKeeps ==
  ASSUME AlertsInv, NEW c \in Call, RecordText(c)
  PROVE  AlertsInv'
<1>1. AlertsTypeOK /\ OneTeller /\ call[c] # None /\ call[c].stage \in {"told", "failed"}
      /\ \A d \in Device : call[c].ring[d] = "none"
  BY NoRings DEF AlertsInv, RecordText, At
<1> DEFINE k == call[c].key
<1>2. k \in Key
  BY <1>1, CallTyped
<1>3. Proceeds(c, None)
  BY <1>1, EndProceeds DEF RecordText, ghosts
<1>4. /\ RungInStage' /\ RingsAccounted' /\ call' \in [Call -> CallRow \cup {None}]
      /\ \A e \in Call : e # c => call'[e] = call[e]
  BY <1>3, ProceedsKeeps
<1>5. call'[c] = None
  BY <1>3 DEF Proceeds, CallBecomes
<1>6. RaisedFirst'
  BY <1>1, <1>3, ProceedsRaised DEF RecordText, ghosts
<1>7. /\ text' \in [Key -> Result \cup {None}] /\ text'[k] # None
      /\ \A j \in Key : j # k => text'[j] = text[j]
  BY <1>1, <1>2, AlertsAssumption DEF RecordText, TextResult, AlertsTypeOK, Result
<1>8. AlertsTypeOK'
  BY <1>1, <1>4, <1>7 DEF AlertsTypeOK, RecordText, ghosts, bounds
<1>9. OneTeller'
  <2> SUFFICES ASSUME NEW j \in Key
               PROVE  /\ texted'[j] <= 1
                      /\ text'[j] = None => texted'[j] = 0 /\ \A e \in Call : ~Telling(e, j)'
                      /\ \A e, x \in Call : Telling(e, j)' /\ Telling(x, j)' => e = x
                      /\ \A e \in Call : Telling(e, j)' /\ call'[e].stage = "send" => texted'[j] = 0
    BY DEF OneTeller
  <2>1. \A e \in Call : Telling(e, j)' => Telling(e, j) /\ call'[e] = call[e]
    BY <1>4, <1>5 DEF Telling
  <2>2. texted' = texted
    BY DEF RecordText, ghosts
  <2> QED BY <1>1, <1>7, <2>1, <2>2 DEF OneTeller
<1> QED BY <1>4, <1>6, <1>8, <1>9 DEF AlertsInv

\* A record that throws is made or not, and a success is then recorded as a failure.
LEMMA RecordTextThrowsKeeps ==
  ASSUME AlertsInv, NEW c \in Call, NEW made \in BOOLEAN, RecordTextThrows(c, made)
  PROVE  AlertsInv'
<1>1. AlertsTypeOK /\ OneTeller /\ call[c] # None /\ call[c].stage \in {"told", "failed"}
      /\ \A d \in Device : call[c].ring[d] = "none"
  BY NoRings DEF AlertsInv, RecordTextThrows, At
<1> DEFINE k == call[c].key
<1>2. k \in Key /\ Telling(c, k)
  BY <1>1, CallTyped DEF Telling
<1>3. PICK row : Proceeds(c, row) /\ (row # None => row.stage = "failed")
  <2>1. CASE Go(c, "failed")
    BY <1>1, <2>1, GoProceeds DEF RecordTextThrows, Stage
  <2>2. CASE End(c)
    BY <1>1, <2>2, EndProceeds DEF RecordTextThrows
  <2> QED BY <2>1, <2>2 DEF RecordTextThrows
<1>4. /\ RungInStage' /\ RingsAccounted' /\ call' \in [Call -> CallRow \cup {None}]
      /\ \A e \in Call : e # c => call'[e] = call[e]
      /\ call'[c] # None => call'[c].key = k
  BY <1>3, ProceedsKeeps
<1>5. call'[c] # None => call'[c].stage = "failed"
  BY <1>3 DEF Proceeds, CallBecomes
<1>6. RaisedFirst'
  BY <1>1, <1>3, ProceedsRaised DEF RecordTextThrows
<1>7. /\ text' \in [Key -> Result \cup {None}] /\ \A j \in Key : text'[j] = None => text[j] = None
  BY <1>1, <1>2, AlertsAssumption DEF RecordTextThrows, TextResult, AlertsTypeOK, Result
<1>8. faults' \in 0..MaxFaults /\ dropped' \subseteq Key
  BY <1>1, <1>2, AlertsAssumption DEF RecordTextThrows, Fault, AlertsTypeOK
<1>9. AlertsTypeOK'
  BY <1>1, <1>4, <1>7, <1>8 DEF AlertsTypeOK, RecordTextThrows
<1>10. OneTeller'
  <2> SUFFICES ASSUME NEW j \in Key
               PROVE  /\ texted'[j] <= 1
                      /\ text'[j] = None => texted'[j] = 0 /\ \A e \in Call : ~Telling(e, j)'
                      /\ \A e, x \in Call : Telling(e, j)' /\ Telling(x, j)' => e = x
                      /\ \A e \in Call : Telling(e, j)' /\ call'[e].stage = "send" => texted'[j] = 0
    BY DEF OneTeller
  <2>1. \A e \in Call : Telling(e, j)' =>
          Telling(e, j) /\ (call'[e].stage = "send" => call[e].stage = "send")
    BY <1>2, <1>4, <1>5 DEF Telling
  <2>2. texted' = texted
    BY DEF RecordTextThrows
  <2> QED BY <1>1, <1>7, <2>1, <2>2 DEF OneTeller
<1> QED BY <1>4, <1>6, <1>9, <1>10 DEF AlertsInv

\* A call that ends before its message leaves at most an alert, or a claim nobody holds.
LEMMA CallThrowsKeeps ==
  ASSUME AlertsInv, NEW c \in Call, CallThrows(c)
  PROVE  AlertsInv'
<1>1. AlertsTypeOK /\ OneTeller /\ RaisedFirst /\ call[c] # None
      /\ call[c].stage \in {"raise", "devices", "look", "claim"}
      /\ \A d \in Device : call[c].ring[d] = "none"
  BY NoRings DEF AlertsInv, CallThrows, At
<1> DEFINE k == call[c].key
<1>2. k \in Key
  BY <1>1, CallTyped
<1>3. Proceeds(c, None)
  BY <1>1, EndProceeds DEF CallThrows
<1>4. /\ RungInStage' /\ RingsAccounted' /\ call' \in [Call -> CallRow \cup {None}]
      /\ \A e \in Call : e # c => call'[e] = call[e]
      /\ call'[c] = None
  BY <1>3, ProceedsKeeps DEF Proceeds, CallBecomes
<1>5. /\ alert' \in [Key -> BOOLEAN \cup {None}]
      /\ \A j \in Key : alert'[j] = None => alert[j] = None
  BY <1>1, <1>2, AlertsAssumption DEF CallThrows, Raised, AlertsTypeOK
<1>6. /\ text' \in [Key -> Result \cup {None}] /\ \A j \in Key : text'[j] = None => text[j] = None
  BY <1>1, <1>2, AlertsAssumption DEF CallThrows, AlertsTypeOK, Result
<1>7. faults' \in 0..MaxFaults /\ dropped' \subseteq Key /\ texted' = texted /\ rang' = rang
  BY <1>1, <1>2, AlertsAssumption DEF CallThrows, Fault, AlertsTypeOK
<1>8. AlertsTypeOK'
  BY <1>1, <1>4, <1>5, <1>6, <1>7 DEF AlertsTypeOK, CallThrows
<1>9. RaisedFirst'
  <2>1. ASSUME NEW e \in Call, call'[e] # None, call'[e].stage # "raise"
        PROVE  alert'[call'[e].key] # None
    <3>1. e # c /\ call'[e] = call[e]
      BY <1>4, <2>1
    <3>2. call[e].key \in Key
      BY <1>1, <2>1, <3>1, CallTyped
    <3> QED BY <1>1, <1>5, <2>1, <3>1, <3>2 DEF RaisedFirst
  <2> QED BY <1>1, <1>5, <1>7, <2>1 DEF RaisedFirst
<1>10. OneTeller'
  <2>1. ASSUME NEW e \in Call, NEW j \in Key, Telling(e, j)'
        PROVE  Telling(e, j) /\ call'[e] = call[e]
    BY <1>4, <2>1 DEF Telling
  <2> QED BY <1>1, <1>6, <1>7, <2>1 DEF OneTeller
<1> QED BY <1>4, <1>8, <1>9, <1>10 DEF AlertsInv

-----------------------------------------------------------------------------
(* Calls that begin, and what they read of the telephones.                 *)

\* A call begins.
LEMMA NotifyKeeps ==
  ASSUME AlertsInv, NEW c \in Call, NEW k \in Key, Notify(c, k)
  PROVE  AlertsInv'
<1>1. AlertsTypeOK /\ OneTeller /\ RaisedFirst /\ RungInStage /\ RingsAccounted /\ call[c] = None
  BY DEF AlertsInv, Notify
<1>2. PICK row : row = [key |-> k, whatsapp |-> settings.whatsapp,
                        stage |-> "raise", ring |-> [d \in Device |-> "none"]]
  OBVIOUS
<1>3. /\ row \in CallRow /\ row.key = k /\ row.stage = "raise"
      /\ \A d \in Device : row.ring[d] = "none"
  BY <1>1, <1>2 DEF CallRow, RingStep, AlertsTypeOK
<1>4. CallBecomes(c, row)
  BY <1>1, <1>2, <1>3 DEF Notify, AlertsTypeOK, CallBecomes
<1>5. /\ call' \in [Call -> CallRow \cup {None}]
      /\ call'[c] = row /\ \A e \in Call : e # c => call'[e] = call[e]
  BY <1>4 DEF CallBecomes
<1>6. AlertsTypeOK'
  BY <1>1, <1>5, AlertsAssumption DEF AlertsTypeOK, Notify, ghosts
<1>7. OneTeller'
  <2>1. Silent
    BY <1>3, <1>5 DEF Silent, Telling, Notify, ghosts
  <2> QED BY <1>1, <2>1, SilentTells
<1>8. RaisedFirst'
  <2>1. alert' = alert /\ texted' = texted /\ rang' = rang
    BY DEF Notify, ghosts
  <2> QED BY <1>1, <1>3, <1>5, <2>1 DEF RaisedFirst
<1>9. RungInStage'
  BY <1>1, <1>3, <1>5 DEF RungInStage
<1>10. RingsAccounted'
  <2>1. ASSUME NEW j \in Key, NEW d \in Device, NEW s \in {"send", "rung"}
        PROVE  (row # None /\ row.key = j /\ row.ring[d] = s) <=> c \in RingersAt(j, d, s)
    BY <1>1, <1>3 DEF RingersAt
  <2>2. Hushed
    BY <1>4, <2>1, SameRings DEF Notify, ghosts
  <2> QED BY <1>1, <2>2, HushedRings
<1> QED BY <1>6, <1>7, <1>8, <1>9, <1>10 DEF AlertsInv

\* A call reads the telephones to ring.
LEMMA ReadDevicesKeeps ==
  ASSUME AlertsInv, NEW c \in Call, ReadDevices(c)
  PROVE  AlertsInv'
<1>1. AlertsTypeOK /\ OneTeller /\ RaisedFirst /\ RungInStage /\ RingsAccounted
      /\ call[c] # None /\ call[c].stage = "devices" /\ call[c] \in CallRow /\ call[c].key \in Key
      /\ \A d \in Device : call[c].ring[d] = "none"
  BY NoRings, CallTyped DEF AlertsInv, ReadDevices, At
<1>2. PICK r : r = [d \in Device |-> IF active[d] = TRUE THEN "claim" ELSE "none"]
  OBVIOUS
<1>3. r \in [Device -> RingStep] /\ \A d \in Device : r[d] \notin {"send", "rung"}
  BY <1>2 DEF RingStep
<1>4. PICK row : row = [[call[c] EXCEPT !.stage = "push"] EXCEPT !.ring = r]
  OBVIOUS
<1>5. row \in CallRow /\ row.key = call[c].key /\ row.stage = "push" /\ row.ring = r
  BY <1>1, <1>3, <1>4 DEF CallRow
<1>6. call' = [call EXCEPT ![c] = row]
  BY <1>1, <1>2, <1>4 DEF ReadDevices, AlertsTypeOK, CallRow
<1>7. CallBecomes(c, row)
  BY <1>1, <1>5, <1>6 DEF AlertsTypeOK, CallBecomes
<1>8. /\ call' \in [Call -> CallRow \cup {None}]
      /\ call'[c] = row /\ \A e \in Call : e # c => call'[e] = call[e]
  BY <1>7 DEF CallBecomes
<1>9. AlertsTypeOK'
  BY <1>1, <1>8 DEF AlertsTypeOK, ReadDevices, ghosts, bounds
<1>10. OneTeller'
  <2>1. Silent
    BY <1>5, <1>8 DEF Silent, Telling, ReadDevices, ghosts
  <2> QED BY <1>1, <2>1, SilentTells
<1>11. RaisedFirst'
  <2>1. alert' = alert /\ texted' = texted /\ rang' = rang
    BY DEF ReadDevices, ghosts
  <2> QED BY <1>1, <1>5, <1>8, <2>1 DEF RaisedFirst
<1>12. RungInStage'
  BY <1>1, <1>5, <1>8 DEF RungInStage
<1>13. RingsAccounted'
  <2>1. ASSUME NEW j \in Key, NEW d \in Device, NEW s \in {"send", "rung"}
        PROVE  (row # None /\ row.key = j /\ row.ring[d] = s) <=> c \in RingersAt(j, d, s)
    BY <1>1, <1>3, <1>5 DEF RingersAt
  <2>2. Hushed
    BY <1>7, <2>1, SameRings DEF ReadDevices, ghosts
  <2> QED BY <1>1, <2>2, HushedRings
<1> QED BY <1>9, <1>10, <1>11, <1>12, <1>13 DEF AlertsInv

-----------------------------------------------------------------------------
(* One telephone.                                                          *)

\* A telephone is rung in the push stage only.
LEMMA RingInPush ==
  ASSUME AlertsInv, NEW c \in Call, NEW d \in Device, call[c] # None, call[c].ring[d] # "none"
  PROVE  At(c, "push")
BY DEF AlertsInv, RungInStage, At

\* A telephone APNs does not know any more is retired.
LEMMA RetireDeviceKeeps ==
  ASSUME AlertsInv, NEW c \in Call, NEW d \in Device, RetireDevice(c, d)
  PROVE  AlertsInv'
<1>1. AlertsTypeOK /\ RingsAccounted /\ Turns(c, d, "retire", "none") /\ At(c, "push")
  BY DEF AlertsInv, RetireDevice, RingAt, At, Turns, RingStep
<1>2. OneTeller' /\ RaisedFirst' /\ RungInStage'
  BY <1>1, TurnKeeps DEF RetireDevice, ghosts
<1> PICK k \in Key : k = call[c].key
  BY <1>1, CallTyped DEF At
<1>3. /\ call' \in [Call -> CallRow \cup {None}]
      /\ \A j \in Key, e \in Device, s \in {"send", "rung"} : j # k \/ e # d =>
           RingersAt(j, e, s)' = RingersAt(j, e, s)
      /\ \A s \in {"send", "rung"} :
           /\ c \notin RingersAt(k, d, s)
           /\ RingersAt(k, d, s)' = RingersAt(k, d, s) \ {c}
  BY <1>1, Turned
<1>4. Hushed
  <2>1. \A s \in {"send", "rung"} : RingersAt(k, d, s)' = RingersAt(k, d, s)
    BY <1>3
  <2>2. \A j \in Key, e \in Device, s \in {"send", "rung"} : RingersAt(j, e, s)' = RingersAt(j, e, s)
    <3> SUFFICES ASSUME NEW j \in Key, NEW e \in Device, NEW s \in {"send", "rung"}
                 PROVE  RingersAt(j, e, s)' = RingersAt(j, e, s)
      OBVIOUS
    <3>1. CASE j = k /\ e = d
      BY <2>1, <3>1 DEF RingersAt
    <3>2. CASE j # k \/ e # d
      BY <1>3, <3>2
    <3> QED BY <3>1, <3>2
  <2>3. UNCHANGED <<push, rang, doubts>>
    BY DEF RetireDevice, ghosts
  <2> QED BY <2>2, <2>3 DEF Hushed
<1>5. AlertsTypeOK'
  BY <1>1, <1>3, AlertsAssumption DEF AlertsTypeOK, RetireDevice, ghosts, bounds
<1> QED BY <1>1, <1>2, <1>4, <1>5, HushedRings DEF AlertsInv

\* What a turn towards one telephone has to show of that telephone.
LEMMA TurnAccounted ==
  ASSUME AlertsInv, NEW c, NEW d, NEW from, NEW to, Turns(c, d, from, to), NEW k, k = call[c].key,
         \A j \in Key, e \in Device : j # k \/ e # d =>
           /\ push'[j][e] = push[j][e] /\ rang'[j][e] = rang[j][e] /\ doubts'[j][e] = doubts[j][e],
         rang'[k][d] + Cardinality(RingersAt(k, d, "send")')
           <= doubts'[k][d] + (IF KnownOf(k, d)' THEN 1 ELSE 0)
  PROVE  RingsAccounted'
<1>1. k \in Key /\ d \in Device
  BY Turned DEF AlertsInv
<1>2. \A j \in Key, e \in Device, s \in {"send", "rung"} : j # k \/ e # d =>
              RingersAt(j, e, s)' = RingersAt(j, e, s)
  BY Turned DEF AlertsInv
<1>3. Elsewhere(k, d)
  BY <1>2 DEF Elsewhere
<1> QED BY <1>1, <1>3, AccountedAt DEF AlertsInv

\* A matrix of one row for each key and telephone, changed at one of them.
LEMMA CellSet ==
  ASSUME NEW S, NEW m \in [Key -> [Device -> S]], NEW n, NEW k \in Key, NEW d \in Device, NEW v \in S,
         n = [m EXCEPT ![k][d] = v]
  PROVE  /\ n \in [Key -> [Device -> S]] /\ n[k][d] = v
         /\ \A j \in Key, e \in Device : j # k \/ e # d => n[j][e] = m[j][e]
<1>1. PICK r : r = [m[k] EXCEPT ![d] = v]
  OBVIOUS
<1>2. r \in [Device -> S] /\ r[d] = v /\ \A e \in Device : e # d => r[e] = m[k][e]
  BY <1>1
<1>3. n = [m EXCEPT ![k] = r]
  BY <1>1
<1> QED BY <1>2, <1>3

\* A row that is not there is made; no other is changed.
LEMMA PushRowMade ==
  ASSUME AlertsTypeOK, NEW c, NEW d \in Device, ClaimPush(c, d), NEW k \in Key, k = call[c].key
  PROVE  /\ push' \in [Key -> [Device -> Result \cup {None}]]
         /\ push'[k][d] = "SENT" <=> push[k][d] = "SENT"
         /\ \A j \in Key, e \in Device : j # k \/ e # d => push'[j][e] = push[j][e]
<1>1. push \in [Key -> [Device -> Result \cup {None}]] /\ push[k][d] \in Result \cup {None}
  BY DEF AlertsTypeOK
<1>2. PICK v : v = IF push[k][d] = None THEN "PENDING" ELSE push[k][d]
  OBVIOUS
<1>3. v \in Result \cup {None} /\ (v = "SENT" <=> push[k][d] = "SENT")
  BY <1>1, <1>2, AlertsAssumption DEF Result
<1>4. push' = [push EXCEPT ![k][d] = v]
  BY <1>2 DEF ClaimPush
<1> QED BY <1>1, <1>3, <1>4, CellSet

\* A second ring is decided while another call may have rung: a doubt.
LEMMA ClaimPushKeeps ==
  ASSUME AlertsInv, NEW c \in Call, NEW d \in Device, ClaimPush(c, d)
  PROVE  AlertsInv'
<1>1. AlertsTypeOK /\ RingsAccounted /\ call[c] # None /\ call[c].ring[d] = "claim" /\ At(c, "push")
  BY DEF AlertsInv, ClaimPush, RingAt, At
<1>2. PICK k \in Key : k = call[c].key
  BY <1>1, CallTyped
<1> DEFINE sending == RingersAt(k, d, "send")
           ringing == RingersAt(k, d, "rung")
<1>3. /\ push' \in [Key -> [Device -> Result \cup {None}]]
      /\ push'[k][d] = "SENT" <=> push[k][d] = "SENT"
      /\ \A j \in Key, e \in Device : j # k \/ e # d => push'[j][e] = push[j][e]
  BY <1>1, <1>2, PushRowMade
<1>4. PICK to : /\ Turns(c, d, "claim", to)
                /\ \/ /\ to = "send" /\ push[k][d] # "SENT"
                      /\ IF Ringing(k, d, c) THEN Doubt(k, d) ELSE UNCHANGED doubts
                   \/ to = "none" /\ UNCHANGED doubts
  <2>1. CASE Unsent(k, d) /\ RingTo(c, d, "send") /\ (IF Ringing(k, d, c) THEN Doubt(k, d) ELSE UNCHANGED doubts)
    BY <1>1, <2>1 DEF Turns, RingStep, Unsent
  <2>2. CASE RingTo(c, d, "none") /\ UNCHANGED doubts
    BY <1>1, <2>2 DEF Turns, RingStep
  <2> QED BY <1>2, <2>1, <2>2 DEF ClaimPush
<1>5. rang' = rang
  BY DEF ClaimPush
<1>6. OneTeller' /\ RaisedFirst' /\ RungInStage'
  BY <1>1, <1>4, <1>5, TurnKeeps DEF ClaimPush
<1>7. /\ call' \in [Call -> CallRow \cup {None}]
      /\ \A s \in {"send", "rung"} :
           /\ c \notin RingersAt(k, d, s)
           /\ RingersAt(k, d, s)' = (RingersAt(k, d, s) \ {c}) \cup (IF to = s THEN {c} ELSE {})
  BY <1>1, <1>2, <1>4, Turned
<1>8. /\ doubts' \in [Key -> [Device -> Nat]]
      /\ \A j \in Key, e \in Device : j # k \/ e # d => doubts'[j][e] = doubts[j][e]
      /\ Doubt(k, d) => doubts'[k][d] = doubts[k][d] + 1
      /\ doubts'[k][d] >= doubts[k][d] /\ doubts[k][d] \in Nat /\ doubts'[k][d] \in Nat
  <2>1. Doubt(k, d) \/ UNCHANGED doubts
    BY <1>4
  <2> QED BY <1>1, <1>2, <2>1, DoubtRaised
<1>9. AlertsTypeOK'
  BY <1>1, <1>3, <1>7, <1>8 DEF AlertsTypeOK, ClaimPush, bounds
<1>10. rang[k][d] \in Nat /\ rang[k][d] + Cardinality(sending) <= doubts[k][d] + (IF KnownOf(k, d) THEN 1 ELSE 0)
  BY <1>1, <1>2 DEF AlertsTypeOK, RingsAccounted
<1>11. rang'[k][d] + Cardinality(sending') <= doubts'[k][d] + (IF KnownOf(k, d)' THEN 1 ELSE 0)
  <2>1. CASE to = "none"
    <3>1. sending' = sending /\ ringing' = ringing
      BY <1>7, <2>1
    <3>2. KnownOf(k, d)' <=> KnownOf(k, d)
      BY <1>3, <3>1 DEF KnownOf
    <3>3. doubts' = doubts
      BY <1>4, <2>1
    <3> QED BY <1>5, <1>10, <3>1, <3>2, <3>3
  <2>2. CASE to = "send"
    <3>1. /\ sending' = sending \cup {c} /\ ringing' = ringing
          /\ Cardinality(sending') = Cardinality(sending) + 1 /\ Cardinality(sending) \in Nat
      <4>1. c \notin sending /\ sending' = sending \cup {c} /\ ringing' = ringing
        BY <1>7, <2>2
      <4> QED BY <4>1, RingersCount
    <3>2. KnownOf(k, d)'
      BY <3>1 DEF KnownOf
    <3>3. CASE Ringing(k, d, c)
      <4>1. doubts'[k][d] = doubts[k][d] + 1
        BY <1>4, <1>8, <2>2, <3>3
      <4> QED BY <1>5, <1>8, <1>10, <3>1, <3>2, <4>1
    <3>4. CASE ~Ringing(k, d, c)
      <4>1. sending = {} /\ ringing = {}
        BY <1>7, <3>4 DEF Ringing, RingersAt
      <4>2. ~KnownOf(k, d)
        BY <1>4, <2>2, <4>1 DEF KnownOf
      <4> QED BY <1>5, <1>8, <1>10, <3>1, <3>2, <4>2
    <3> QED BY <3>3, <3>4
  <2> QED BY <1>4, <2>1, <2>2
<1>12. RingsAccounted'
  BY <1>2, <1>3, <1>4, <1>5, <1>8, <1>11, TurnAccounted
<1> QED BY <1>6, <1>9, <1>12 DEF AlertsInv

\* A ring that is answered is known of; one that is not is in doubt.
LEMMA SendPushKeeps ==
  ASSUME AlertsInv, NEW c \in Call, NEW d \in Device, NEW reached \in BOOLEAN, NEW answered \in BOOLEAN,
         SendPush(c, d, reached, answered)
  PROVE  AlertsInv'
<1>1. AlertsTypeOK /\ RingsAccounted /\ call[c] # None /\ call[c].ring[d] = "send" /\ At(c, "push")
  BY DEF AlertsInv, SendPush, RingAt, At
<1>2. PICK k \in Key : k = call[c].key
  BY <1>1, CallTyped
<1> DEFINE sending == RingersAt(k, d, "send")
           ringing == RingersAt(k, d, "rung")
<1>3. PICK to : Turns(c, d, "send", to) /\ to # "send" /\ (answered => to = "rung")
  BY <1>1 DEF SendPush, Turns, RingStep
<1>4. push' = push /\ alert' = alert /\ text' = text /\ texted' = texted
  BY DEF SendPush
<1>5. rang \in [Key -> [Device -> Nat]] /\ rang[k][d] \in Nat
  BY <1>1, <1>2 DEF AlertsTypeOK
<1>6. /\ rang' \in [Key -> [Device -> Nat]]
      /\ rang'[k][d] = rang[k][d] + (IF reached THEN 1 ELSE 0)
      /\ \A j \in Key, e \in Device : j # k \/ e # d => rang'[j][e] = rang[j][e]
  <2>1. CASE reached
    <3>1. rang' = [rang EXCEPT ![k][d] = rang[k][d] + 1]
      BY <1>2, <2>1 DEF SendPush
    <3>2. PICK v \in Nat : v = rang[k][d] + 1
      BY <1>5
    <3>3. rang' = [rang EXCEPT ![k][d] = v]
      BY <3>1, <3>2
    <3> QED BY <1>2, <1>5, <2>1, <3>2, <3>3, CellSet
  <2>2. CASE ~reached
    BY <1>5, <2>2 DEF SendPush
  <2> QED BY <2>1, <2>2
<1>7. OneTeller' /\ RaisedFirst' /\ RungInStage'
  <2>1. \A j \in Key, e \in Device : rang'[j][e] # rang[j][e] => j = k
    BY <1>6
  <2> QED BY <1>1, <1>2, <1>3, <1>4, <2>1, TurnKeeps
<1>8. /\ call' \in [Call -> CallRow \cup {None}]
      /\ c \in sending /\ sending' = sending \ {c}
      /\ ringing' = (ringing \ {c}) \cup (IF to = "rung" THEN {c} ELSE {})
  BY <1>1, <1>2, <1>3, Turned
<1>9. /\ doubts' \in [Key -> [Device -> Nat]]
      /\ \A j \in Key, e \in Device : j # k \/ e # d => doubts'[j][e] = doubts[j][e]
      /\ Doubt(k, d) => doubts'[k][d] = doubts[k][d] + 1
      /\ doubts'[k][d] >= doubts[k][d] /\ doubts[k][d] \in Nat /\ doubts'[k][d] \in Nat
  <2>1. Doubt(k, d) \/ UNCHANGED doubts
    BY <1>2 DEF SendPush
  <2> QED BY <1>1, <1>2, <2>1, DoubtRaised
<1>10. faults' \in 0..MaxFaults
  BY <1>1, AlertsAssumption DEF SendPush, Accepted, Fault, AlertsTypeOK
<1>11. AlertsTypeOK'
  BY <1>1, <1>4, <1>6, <1>8, <1>9, <1>10 DEF AlertsTypeOK, SendPush
<1>12. rang[k][d] + Cardinality(sending) <= doubts[k][d] + 1
  <2>1. rang[k][d] + Cardinality(sending) <= doubts[k][d] + (IF KnownOf(k, d) THEN 1 ELSE 0)
    BY <1>1, <1>2 DEF RingsAccounted
  <2>2. KnownOf(k, d)
    BY <1>8 DEF KnownOf
  <2> QED BY <2>1, <2>2
<1>13. Cardinality(sending') = Cardinality(sending) - 1 /\ Cardinality(sending) \in Nat
  BY <1>8, RingersCount
<1>14. rang'[k][d] + Cardinality(sending') <= doubts'[k][d] + (IF KnownOf(k, d)' THEN 1 ELSE 0)
  <2>1. CASE answered
    <3>1. KnownOf(k, d)'
      BY <1>3, <1>8, <2>1 DEF KnownOf
    <3> QED BY <1>5, <1>6, <1>9, <1>12, <1>13, <3>1
  <2>2. CASE ~answered /\ reached
    <3>1. doubts'[k][d] = doubts[k][d] + 1
      BY <1>2, <1>9, <2>2 DEF SendPush
    <3> QED BY <1>5, <1>6, <1>9, <1>12, <1>13, <2>2, <3>1
  <2>3. CASE ~reached
    BY <1>5, <1>6, <1>9, <1>12, <1>13, <2>3
  <2> QED BY <2>1, <2>2, <2>3
<1>15. RingsAccounted'
  BY <1>2, <1>3, <1>4, <1>6, <1>9, <1>14, TurnAccounted
<1> QED BY <1>7, <1>11, <1>15 DEF AlertsInv

\* A step towards a telephone that rings nobody, and forgets no ring without a doubt.
LEMMA RecordKeeps ==
  ASSUME AlertsInv, AlertsTypeOK', NEW c \in Call, NEW d \in Device, NEW from, NEW to,
         Turns(c, d, from, to), At(c, "push"), from # "send", to \notin {"send", "rung"},
         NEW k \in Key, k = call[c].key,
         \A j \in Key, e \in Device : j # k \/ e # d => push'[j][e] = push[j][e],
         UNCHANGED <<alert, text, rang, texted>>, Doubt(k, d) \/ UNCHANGED doubts,
         \/ Doubt(k, d)
         \/ push'[k][d] = "SENT"
         \/ from # "rung" /\ push[k][d] # "SENT"
  PROVE  AlertsInv'
<1> DEFINE sending == RingersAt(k, d, "send")
           ringing == RingersAt(k, d, "rung")
<1>1. AlertsTypeOK /\ RingsAccounted
  BY DEF AlertsInv
<1>2. OneTeller' /\ RaisedFirst' /\ RungInStage'
  BY TurnKeeps
<1>3. sending' = sending /\ (from # "rung" => ringing' = ringing)
  <2>1. /\ c \notin sending /\ sending' = (sending \ {c}) \cup (IF to = "send" THEN {c} ELSE {})
        /\ from = "rung" <=> c \in ringing
        /\ ringing' = (ringing \ {c}) \cup (IF to = "rung" THEN {c} ELSE {})
    BY <1>1, Turned
  <2>2. to # "send" /\ to # "rung"
    OBVIOUS
  <2> QED BY <2>1, <2>2
<1>4. /\ \A j \in Key, e \in Device : j # k \/ e # d => doubts'[j][e] = doubts[j][e]
      /\ Doubt(k, d) => doubts'[k][d] = doubts[k][d] + 1
      /\ doubts'[k][d] >= doubts[k][d] /\ doubts[k][d] \in Nat /\ doubts'[k][d] \in Nat
  BY <1>1, DoubtRaised
<1>5. /\ rang[k][d] \in Nat /\ Cardinality(sending) \in Nat
      /\ rang[k][d] + Cardinality(sending) <= doubts[k][d] + (IF KnownOf(k, d) THEN 1 ELSE 0)
  BY <1>1, RingersCount DEF AlertsTypeOK, RingsAccounted
<1>6. rang'[k][d] + Cardinality(sending') <= doubts'[k][d] + (IF KnownOf(k, d)' THEN 1 ELSE 0)
  <2>1. CASE Doubt(k, d)
    <3>1. doubts'[k][d] = doubts[k][d] + 1
      BY <1>4, <2>1
    <3> QED BY <1>3, <1>4, <1>5, <3>1
  <2>2. CASE push'[k][d] = "SENT"
    <3>1. KnownOf(k, d)'
      BY <2>2 DEF KnownOf
    <3> QED BY <1>3, <1>4, <1>5, <3>1
  <2>3. CASE from # "rung" /\ push[k][d] # "SENT"
    <3>1. KnownOf(k, d) => KnownOf(k, d)'
      BY <1>3, <2>3 DEF KnownOf
    <3> QED BY <1>3, <1>4, <1>5, <3>1
  <2> QED BY <2>1, <2>2, <2>3
<1>7. RingsAccounted'
  BY <1>4, <1>6, TurnAccounted
<1> QED BY <1>2, <1>7 DEF AlertsInv

\* A row that is set to a result.
LEMMA ResultSet ==
  ASSUME AlertsTypeOK, NEW k \in Key, NEW d \in Device, NEW step,
         push' = [push EXCEPT ![k][d] = Recorded(step)] \/ push' = push
  PROVE  /\ push' \in [Key -> [Device -> Result \cup {None}]]
         /\ push' # push /\ step = "rung" => push'[k][d] = "SENT"
         /\ push' = [push EXCEPT ![k][d] = Recorded(step)] /\ step = "rung" => push'[k][d] = "SENT"
         /\ \A j \in Key, e \in Device : j # k \/ e # d => push'[j][e] = push[j][e]
<1>1. push \in [Key -> [Device -> Result \cup {None}]]
  BY DEF AlertsTypeOK
<1>2. PICK v : v = Recorded(step)
  OBVIOUS
<1>3. v \in Result \cup {None} /\ (step = "rung" => v = "SENT")
  BY <1>2 DEF Recorded, Result
<1>4. CASE push' = [push EXCEPT ![k][d] = Recorded(step)]
  <2>1. push' = [push EXCEPT ![k][d] = v]
    BY <1>2, <1>4
  <2> QED BY <1>1, <1>3, <2>1, CellSet
<1>5. CASE push' = push /\ push' # [push EXCEPT ![k][d] = Recorded(step)]
  BY <1>1, <1>5
<1> QED BY <1>4, <1>5

\* A refusal written over a ring leaves a doubt.
LEMMA RecordPushKeeps ==
  ASSUME AlertsInv, NEW c \in Call, NEW d \in Device, RecordPush(c, d)
  PROVE  AlertsInv'
<1>1. AlertsTypeOK /\ call[c] # None
      /\ call[c].ring[d] \in {"rung", "refused", "gone"} /\ At(c, "push")
  BY RingInPush DEF AlertsInv, RecordPush, ToRecord
<1>2. PICK k \in Key : k = call[c].key
  BY <1>1, CallTyped
<1>3. PICK step : step = call[c].ring[d]
  OBVIOUS
<1>4. PICK to : to = IF step = "gone" THEN "retire" ELSE "none"
  OBVIOUS
<1>5. Turns(c, d, step, to) /\ step # "send" /\ to \notin {"send", "rung"}
  BY <1>1, <1>3, <1>4 DEF RecordPush, Turns, RingStep
<1>6. /\ UNCHANGED <<alert, text, rang, texted>>
      /\ push' = [push EXCEPT ![k][d] = Recorded(step)]
      /\ IF push[k][d] = "SENT" /\ step # "rung" THEN Doubt(k, d) ELSE UNCHANGED doubts
  BY <1>2, <1>3 DEF RecordPush
<1>7. /\ push' \in [Key -> [Device -> Result \cup {None}]]
      /\ step = "rung" => push'[k][d] = "SENT"
      /\ \A j \in Key, e \in Device : j # k \/ e # d => push'[j][e] = push[j][e]
  BY <1>1, <1>6, ResultSet
<1>8. Doubt(k, d) \/ UNCHANGED doubts
  BY <1>6
<1>9. call' \in [Call -> CallRow \cup {None}] /\ doubts' \in [Key -> [Device -> Nat]]
  BY <1>1, <1>2, <1>5, <1>8, Turned, DoubtRaised
<1>10. AlertsTypeOK'
  BY <1>1, <1>6, <1>7, <1>9 DEF AlertsTypeOK, RecordPush, bounds
<1> QED BY <1>1, <1>2, <1>5, <1>6, <1>7, <1>8, <1>10, RecordKeeps

\* A record that throws forgets a ring, or leaves its refusal on one: a doubt.
LEMMA RecordPushThrowsKeeps ==
  ASSUME AlertsInv, NEW c \in Call, NEW d \in Device, NEW made \in BOOLEAN,
         RecordPushThrows(c, d, made)
  PROVE  AlertsInv'
<1>1. AlertsTypeOK /\ call[c] # None
      /\ call[c].ring[d] \in {"rung", "refused", "gone"} /\ At(c, "push")
  BY RingInPush DEF AlertsInv, RecordPushThrows, ToRecord
<1>2. PICK k \in Key : k = call[c].key
  BY <1>1, CallTyped
<1>3. PICK step : step = call[c].ring[d]
  OBVIOUS
<1>4. PICK to : to = IF step = "rung" THEN "refused" ELSE "threw"
  OBVIOUS
<1>5. Turns(c, d, step, to) /\ step # "send" /\ to \notin {"send", "rung"}
  BY <1>1, <1>3, <1>4 DEF RecordPushThrows, Turns, RingStep
<1>6. /\ UNCHANGED <<alert, text, rang, texted>>
      /\ push' = IF made THEN [push EXCEPT ![k][d] = Recorded(step)] ELSE push
      /\ IF IF made THEN push[k][d] = "SENT" /\ step # "rung" ELSE step = "rung"
         THEN Doubt(k, d) ELSE UNCHANGED doubts
  BY <1>2, <1>3 DEF RecordPushThrows
<1>7. /\ push' \in [Key -> [Device -> Result \cup {None}]]
      /\ made /\ step = "rung" => push'[k][d] = "SENT"
      /\ \A j \in Key, e \in Device : j # k \/ e # d => push'[j][e] = push[j][e]
  BY <1>1, <1>6, ResultSet
<1>8. /\ Doubt(k, d) \/ UNCHANGED doubts
      /\ \/ Doubt(k, d)
         \/ push'[k][d] = "SENT"
         \/ step # "rung" /\ push[k][d] # "SENT"
  <2>1. CASE made
    BY <1>6, <1>7, <2>1
  <2>2. CASE ~made /\ step = "rung"
    BY <1>6, <2>2
  <2>3. CASE ~made /\ step # "rung"
    <3>1. push' = push /\ UNCHANGED doubts
      BY <1>6, <2>3
    <3> QED BY <2>3, <3>1
  <2> QED BY <2>1, <2>2, <2>3
<1>9. call' \in [Call -> CallRow \cup {None}] /\ doubts' \in [Key -> [Device -> Nat]]
  BY <1>1, <1>2, <1>5, <1>8, Turned, DoubtRaised
<1>10. faults' \in 0..MaxFaults
  BY <1>1, AlertsAssumption DEF RecordPushThrows, Fault, AlertsTypeOK
<1>11. AlertsTypeOK'
  BY <1>1, <1>6, <1>7, <1>9, <1>10 DEF AlertsTypeOK, RecordPushThrows
<1> QED BY <1>1, <1>2, <1>5, <1>6, <1>7, <1>8, <1>11, RecordKeeps

\* A claim or a retirement that throws rings nobody.
LEMMA DeviceThrowsKeeps ==
  ASSUME AlertsInv, NEW c \in Call, NEW d \in Device, DeviceThrows(c, d)
  PROVE  AlertsInv'
<1>1. AlertsTypeOK /\ call[c] # None
      /\ call[c].ring[d] \in {"claim", "retire"} /\ At(c, "push")
  BY DEF AlertsInv, DeviceThrows, RingAt, At
<1>2. PICK k \in Key : k = call[c].key
  BY <1>1, CallTyped
<1>3. PICK from : from = call[c].ring[d]
  OBVIOUS
<1>4. Turns(c, d, from, "threw") /\ from \notin {"send", "rung"}
  BY <1>1, <1>3 DEF DeviceThrows, Turns, RingStep
<1>5. UNCHANGED <<alert, text, rang, texted, doubts>>
  BY DEF DeviceThrows, ghosts
<1>6. /\ push' \in [Key -> [Device -> Result \cup {None}]]
      /\ push'[k][d] = "SENT" <=> push[k][d] = "SENT"
      /\ \A j \in Key, e \in Device : j # k \/ e # d => push'[j][e] = push[j][e]
  <2>1. push \in [Key -> [Device -> Result \cup {None}]] /\ push[k][d] \in Result \cup {None}
    BY <1>1 DEF AlertsTypeOK
  <2>2. CASE push' = push
    BY <2>1, <2>2
  <2>3. CASE push' = [push EXCEPT ![k][d] = IF push[k][d] = None THEN "PENDING" ELSE push[k][d]]
    <3>1. PICK v : v = IF push[k][d] = None THEN "PENDING" ELSE push[k][d]
      OBVIOUS
    <3>2. v \in Result \cup {None} /\ (v = "SENT" <=> push[k][d] = "SENT")
      BY <2>1, <3>1, AlertsAssumption DEF Result
    <3>3. push' = [push EXCEPT ![k][d] = v]
      BY <2>3, <3>1
    <3> QED BY <2>1, <3>2, <3>3, CellSet
  <2> QED BY <1>2, <2>2, <2>3 DEF DeviceThrows
<1>7. call' \in [Call -> CallRow \cup {None}]
  BY <1>1, <1>2, <1>4, Turned
<1>8. faults' \in 0..MaxFaults /\ active' \in [Device -> BOOLEAN \cup {None}]
  <2>1. faults < MaxFaults /\ faults' = faults + 1 /\ faults \in 0..MaxFaults /\ MaxFaults \in Nat
    BY <1>1, AlertsAssumption DEF DeviceThrows, Fault, AlertsTypeOK
  <2>2. active \in [Device -> BOOLEAN \cup {None}]
        /\ (active' = active \/ active' = [active EXCEPT ![d] = FALSE])
    BY <1>1 DEF DeviceThrows, AlertsTypeOK
  <2>3. faults' \in 0..MaxFaults
    BY <2>1
  <2>4. active' \in [Device -> BOOLEAN \cup {None}]
    BY <2>2
  <2> QED BY <2>3, <2>4
<1>9. AlertsTypeOK'
  BY <1>1, <1>5, <1>6, <1>7, <1>8 DEF AlertsTypeOK, DeviceThrows, ghosts
<1>10. push'[k][d] = "SENT" \/ (from # "rung" /\ push[k][d] # "SENT")
  BY <1>4, <1>6
<1> QED BY <1>1, <1>2, <1>4, <1>5, <1>6, <1>9, <1>10, RecordKeeps

\* Rings that were not recorded are in doubt when the API dies.
LEMMA CrashKeeps ==
  ASSUME AlertsInv, Crash
  PROVE  AlertsInv'
<1>1. AlertsTypeOK /\ OneTeller /\ RaisedFirst /\ RingsAccounted
  BY DEF AlertsInv
<1>2. /\ call' = [c \in Call |-> None] /\ \A c \in Call : call'[c] = None
      /\ UNCHANGED <<settings, alert, active, push, text, rang, texted, faults, touches, calls>>
  BY DEF Crash
<1>3. ASSUME NEW k \in Key, NEW d \in Device
      PROVE  /\ Cardinality(RingersAt(k, d, "rung")) \in Nat
             /\ doubts'[k][d] = doubts[k][d] + Cardinality(RingersAt(k, d, "rung"))
             /\ doubts[k][d] \in Nat
  <2>1. Rung(k, d) = RingersAt(k, d, "rung")
    BY DEF Rung, RingersAt
  <2>2. doubts'[k][d] = doubts[k][d] + Cardinality(Rung(k, d))
    BY DEF Crash
  <2> QED BY <1>1, <2>1, <2>2, RingersCount DEF AlertsTypeOK
<1>4. doubts' \in [Key -> [Device -> Nat]]
  <2>1. \A k \in Key, d \in Device : doubts[k][d] + Cardinality(Rung(k, d)) \in Nat
    BY <1>3 DEF Crash
  <2> QED BY <2>1 DEF Crash
<1>5. AlertsTypeOK'
  <2>1. dropped' \subseteq Key
    BY <1>1, CallTyped DEF Crash, Claimed, At, AlertsTypeOK
  <2> QED BY <1>1, <1>2, <1>4, <2>1, AlertsAssumption DEF AlertsTypeOK, Crash
<1>6. OneTeller'
  <2>1. Silent
    BY <1>2 DEF Silent, Telling
  <2> QED BY <1>1, <2>1, SilentTells
<1>7. RaisedFirst' /\ RungInStage'
  BY <1>1, <1>2 DEF RaisedFirst, RungInStage
<1>8. RingsAccounted'
  <2> SUFFICES ASSUME NEW k \in Key, NEW d \in Device
               PROVE  rang'[k][d] + Cardinality(RingersAt(k, d, "send")')
                        <= doubts'[k][d] + (IF KnownOf(k, d)' THEN 1 ELSE 0)
    BY DEF RingsAccounted
  <2>1. RingersAt(k, d, "send")' = {} /\ RingersAt(k, d, "rung")' = {}
    BY <1>2 DEF RingersAt
  <2>2. Cardinality(RingersAt(k, d, "send")') = 0
    BY <2>1, FS_EmptySet
  <2>3. KnownOf(k, d)' <=> push[k][d] = "SENT"
    BY <1>2, <2>1 DEF KnownOf
  <2>4. /\ rang[k][d] \in Nat /\ rang'[k][d] = rang[k][d]
        /\ rang[k][d] + Cardinality(RingersAt(k, d, "send")) <= doubts[k][d] + (IF KnownOf(k, d) THEN 1 ELSE 0)
    BY <1>1, <1>2 DEF AlertsTypeOK, RingsAccounted
  <2>5. Cardinality(RingersAt(k, d, "send")) \in Nat
        /\ (Cardinality(RingersAt(k, d, "send")) = 0 => RingersAt(k, d, "send") = {})
        /\ (Cardinality(RingersAt(k, d, "rung")) = 0 => RingersAt(k, d, "rung") = {})
    BY RingersCount
  <2>6. KnownOf(k, d) => \/ push[k][d] = "SENT" \/ Cardinality(RingersAt(k, d, "send")) > 0
                       \/ Cardinality(RingersAt(k, d, "rung")) > 0
    BY <1>3, <2>5 DEF KnownOf
  <2> QED BY <1>3, <2>2, <2>3, <2>4, <2>5, <2>6
<1> QED BY <1>5, <1>6, <1>7, <1>8 DEF AlertsInv

-----------------------------------------------------------------------------
\* Whatever is notified, however the providers answer and whenever the API dies:
\* messages are claimed by one call, alerts come first, and every ring but one is
\* accounted for by a doubt (notifications/service.ts:120-182).
THEOREM AlertsInvariant == AlertsSpec => []AlertsInv
<1>1. AlertsInit => AlertsInv
  <2> SUFFICES ASSUME AlertsInit PROVE AlertsInv
    OBVIOUS
  <2>1. AlertsTypeOK
    <3>1. settings \in [wanted : BOOLEAN, whatsapp : BOOLEAN] /\ active \in [Device -> BOOLEAN \cup {None}]
      BY DEF AlertsInit
    <3>2. /\ alert \in [Key -> BOOLEAN \cup {None}] /\ text \in [Key -> Result \cup {None}]
          /\ call \in [Call -> CallRow \cup {None}] /\ texted \in [Key -> Nat]
          /\ dropped \subseteq Key
      BY DEF AlertsInit
    <3>3. /\ push \in [Key -> [Device -> Result \cup {None}]] /\ rang \in [Key -> [Device -> Nat]]
          /\ doubts \in [Key -> [Device -> Nat]]
      BY DEF AlertsInit
    <3>4. faults \in 0..MaxFaults /\ crashes \in 0..MaxCrashes /\ touches \in 0..MaxTouches /\ calls \in 0..MaxCalls
      BY AlertsAssumption DEF AlertsInit
    <3> QED BY <3>1, <3>2, <3>3, <3>4 DEF AlertsTypeOK
  <2>2. OneTeller /\ RaisedFirst /\ RungInStage
    BY DEF AlertsInit, OneTeller, Telling, RaisedFirst, RungInStage
  <2>3. RingsAccounted
    <3>1. ASSUME NEW k \in Key, NEW d \in Device
          PROVE  rang[k][d] = 0 /\ doubts[k][d] = 0 /\ Cardinality(RingersAt(k, d, "send")) = 0
      <4>1. RingersAt(k, d, "send") = {}
        BY DEF AlertsInit, RingersAt
      <4> QED BY <4>1, FS_EmptySet DEF AlertsInit
    <3> QED BY <3>1 DEF RingsAccounted
  <2> QED BY <2>1, <2>2, <2>3 DEF AlertsInv
<1>2. AlertsInv /\ [AlertsNext]_alertVars => AlertsInv'
  <2> SUFFICES ASSUME AlertsInv, [AlertsNext]_alertVars PROVE AlertsInv'
    OBVIOUS
  <2>1. ASSUME NEW c \in Call, Step(c) PROVE AlertsInv'
    BY <2>1, RaiseAlertKeeps, ReadDevicesKeeps, EndPushKeeps, ClaimPushKeeps, RecordPushKeeps,
       RecordPushThrowsKeeps, RetireDeviceKeeps, DeviceThrowsKeeps, SendPushKeeps, LookTextKeeps,
       ClaimTextKeeps, RecordTextKeeps, RecordTextThrowsKeeps, CallThrowsKeeps, SendTextKeeps
       DEF Step
  <2>2. CASE UNCHANGED alertVars
    <3>1. AlertsTypeOK'
      BY <2>2 DEF alertVars, AlertsInv, AlertsTypeOK
    <3> QED BY <2>2, <3>1, AsideKeeps DEF alertVars
  <2> QED BY <2>1, <2>2, NotifyKeeps, AcknowledgeKeeps, ChangeSettingsKeeps, RegisterDeviceKeeps,
             UnregisterDeviceKeeps, CrashKeeps DEF AlertsNext
<1> QED BY <1>1, <1>2, PTL DEF AlertsSpec

\* However often an event is notified, WhatsApp accepts one message for it at most,
\* and nothing is sent before the alert is raised (notifications/service.ts:161-175).
THEOREM TextsOnce == AlertsSpec => []TextedOnce
<1>1. AlertsInv => TextedOnce
  <2> SUFFICES ASSUME AlertsInv, NEW k \in Key
               PROVE  /\ texted[k] <= 1
                      /\ texted[k] + Cardinality({d \in Device : rang[k][d] > 0}) > 0
                           => alert[k] # None
    BY DEF TextedOnce, AlertsInv
  <2>1. AlertsTypeOK /\ texted[k] <= 1
    BY DEF AlertsInv, OneTeller
  <2>2. ASSUME alert[k] = None
        PROVE  texted[k] = 0 /\ Cardinality({d \in Device : rang[k][d] > 0}) = 0
    <3>1. texted[k] = 0 /\ \A d \in Device : rang[k][d] = 0
      BY <2>2 DEF AlertsInv, RaisedFirst
    <3>2. {d \in Device : rang[k][d] > 0} = {}
      BY <3>1
    <3> QED BY <3>1, <3>2, FS_EmptySet
  <2> QED BY <2>1, <2>2
<1> QED BY <1>1, AlertsInvariant, PTL

\* A telephone rings again for one event only after a ring nobody could know of
\* (notifications/service.ts:132-144).
THEOREM RingsOnceUnlessInDoubt == AlertsSpec => []RingsAgainOnlyInDoubt
<1>1. AlertsInv => RingsAgainOnlyInDoubt
  <2> SUFFICES ASSUME AlertsInv, NEW k \in Key, NEW d \in Device
               PROVE  rang[k][d] <= 1 + doubts[k][d]
    BY DEF RingsAgainOnlyInDoubt
  <2>1. /\ rang[k][d] \in Nat /\ doubts[k][d] \in Nat
        /\ rang[k][d] + Cardinality(RingersAt(k, d, "send")) <= doubts[k][d] + (IF KnownOf(k, d) THEN 1 ELSE 0)
    BY DEF AlertsInv, AlertsTypeOK, RingsAccounted
  <2>2. Cardinality(RingersAt(k, d, "send")) \in Nat
    BY RingersCount
  <2> QED BY <2>1, <2>2
<1> QED BY <1>1, AlertsInvariant, PTL
================================================================================
