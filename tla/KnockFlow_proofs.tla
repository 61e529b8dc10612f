--------------------------- MODULE KnockFlow_proofs ---------------------------
(* The knock's safety properties, for any number of callers, workspaces    *)
(* and DIDs.                                                               *)
EXTENDS KnockFlow, TLAPS

(* What the place of a handler says of its call. *)
Job(h) ==
    /\ pc[h] = "idle" => op[h] = "none" /\ status[h] = None /\ reply[h] = None
    /\ pc[h] # "idle" => op[h] \in Endpoints /\ ws[h] \in Workspaces
    /\ pc[h] \in {"read", "first", "accept"} => op[h] \in {"create", "status"}
    /\ pc[h] = "set" => op[h] = "admin"
    /\ pc[h] = "put" => op[h] = "create"
    /\ pc[h] = "release" => (op[h] = "admin" /\ verdict[h] = "active") \/ autoAccept
    /\ pc[h] = "accept" => autoAccept
    /\ op[h] = "admin" => verdict[h] \in Verdicts
    /\ status[h] # None => pc[h] = "done" /\ op[h] = "create"
    /\ status[h] = "held" => ~autoAccept
    /\ autoAccept => reply[h] # "pending" /\ (pc[h] = "first" => op[h] = "create")

ControlInv == TypeOK /\ \A h \in Handlers : Job(h)

(* A handler's call is fixed when it arrives. *)
Arrival(h) == \E o \in Endpoints, w \in Workspaces, d \in Dids, place \in {"read", "put", "set"} :
    /\ Arrive(h, o, w, d, place)
    /\ o = "create" => place \in {"read", "put"} /\ (place = "put" => d = "")
    /\ o = "status" => place = "read"
    /\ IF o = "admin"
       THEN place = "set" /\ \E v \in Verdicts : verdict' = [verdict EXCEPT ![h] = v]
       ELSE UNCHANGED verdict

(* Each of the three calls puts an idle handler on its way. *)
LEMMA CallArrives ==
  ASSUME NEW h \in Handlers, Call(h) PROVE Arrival(h)
<1> PICK w \in Workspaces, d \in Dids :
       Create(h, w, d) \/ GetStatus(h, w, d) \/ \E v \in Verdicts : AdminKnock(h, w, d, v)
  BY DEF Call
<1>1. CASE Create(h, w, d)
  BY <1>1 DEF Create, Arrival, Endpoints
<1>2. CASE GetStatus(h, w, d)
  BY <1>2 DEF GetStatus, Arrival, Endpoints
<1>3. CASE \E v \in Verdicts : AdminKnock(h, w, d, v)
  BY <1>3 DEF AdminKnock, Arrival, Endpoints
<1> QED
  BY <1>1, <1>2, <1>3

(* A call under way looks up a knock of the map. *)
LEMMA KeyInKeys ==
  ASSUME ControlInv, NEW h \in Handlers, pc[h] # "idle" PROVE Key(h) \in Keys
  BY DEF ControlInv, TypeOK, Job, Key, Keys

(* The control invariant holds at the start. *)
LEMMA InitControl == Init => ControlInv
<1> SUFFICES ASSUME Init PROVE ControlInv
  OBVIOUS
<1>1. told \in [Handlers -> BOOLEAN]
  BY DEF Init
<1>2. did \in [Handlers -> Dids] /\ ws \in [Handlers -> Workspaces \cup {""}]
  BY KnockAssumption DEF Init
<1>3. TypeOK
  BY <1>1, <1>2 DEF Init, TypeOK, Places
<1>4. \A h \in Handlers : Job(h)
  BY KnockAssumption DEF Init, Job, Verdicts
<1> QED
  BY <1>3, <1>4 DEF ControlInv

(* The server's configuration does not change while it runs. *)
LEMMA ConfigFixed == [Next]_vars => autoAccept' = autoAccept
  BY DEF Next, vars

(* Every step keeps the types. *)
LEMMA NextType == ControlInv /\ [Next]_vars => TypeOK'
<1> SUFFICES ASSUME ControlInv, [Next]_vars PROVE TypeOK'
  OBVIOUS
<1>c. autoAccept' = autoAccept
  BY ConfigFixed
<1> USE <1>c
<1>1. ASSUME NEW h \in Handlers, Call(h) PROVE TypeOK'
  <2> PICK o \in Endpoints, w \in Workspaces, d \in Dids, place \in {"read", "put", "set"} :
        /\ Arrive(h, o, w, d, place)
        /\ UNCHANGED verdict \/ \E v \in Verdicts : verdict' = [verdict EXCEPT ![h] = v]
    <3>1. Arrival(h)
      BY <1>1, CallArrives
    <3> QED
      BY <3>1 DEF Arrival
  <2>3. verdict' \in [Handlers -> Verdicts \cup {None}]
    BY DEF ControlInv, TypeOK
  <2>1. ToldActive(<<KeyOf(w), d>>) \in BOOLEAN
    BY DEF ToldActive
  <2>2. told' \in [Handlers -> BOOLEAN]
    BY <2>1 DEF Arrive, ControlInv, TypeOK
  <2> QED
    BY <2>2, <2>3 DEF Arrive, Goto, stVars, ControlInv, TypeOK, Places
<1>2. ASSUME NEW h \in Handlers, Step(h) PROVE TypeOK'
  <2> USE KnockAssumption, KeyInKeys
      DEF TypeOK, Places, Endpoints, Verdicts, ControlInv, Job
  <2>1. CASE CheckKnock(h)
    BY <2>1 DEF CheckKnock, Goto, stVars, callVars
  <2>2. CASE ReadStatus(h)
    <3> DEFINE k == knock[Key(h)]
    <3>1. k \in Verdicts \cup {None}
      BY <2>2 DEF ReadStatus
    <3>2. saw' = [saw EXCEPT ![h] = k] /\ UNCHANGED <<stVars, callVars, late>>
      BY <2>2 DEF ReadStatus
    <3>3. reply' = reply \/ reply' = [reply EXCEPT ![h] = k]
      BY <2>2 DEF ReadStatus
    <3>4. \/ pc' = [pc EXCEPT ![h] = "accept"] \/ pc' = [pc EXCEPT ![h] = "first"]
          \/ pc' = [pc EXCEPT ![h] = "done"]
      BY <2>2 DEF ReadStatus, Goto
    <3> HIDE DEF k
    <3>5. reply' \in [Handlers -> Verdicts \cup {None}]
      BY <3>1, <3>3
    <3>6. pc' \in [Handlers -> Places]
      BY ZenonT(40), <3>4
    <3> QED
      BY <3>1, <3>2, <3>5, <3>6 DEF stVars, callVars
  <2>3. CASE FirstKnock(h)
    BY <2>3 DEF FirstKnock, Goto, callVars
  <2>4. CASE AutoAcceptKnock(h)
    BY <2>4 DEF AutoAcceptKnock, Goto, callVars
  <2>5. CASE Put(h)
    BY <2>5 DEF Put, Goto, callVars
  <2>6. CASE SetVerdict(h)
    BY <2>6 DEF SetVerdict, Goto, callVars
  <2>7. CASE Release(h)
    BY <2>7 DEF Release, Goto, callVars
  <2> QED
    BY <1>2, <2>1, <2>2, <2>3, <2>4, <2>5, <2>6, <2>7 DEF Step
<1>3. CASE UNCHANGED vars
  BY <1>3 DEF vars, stVars, callVars, ControlInv, TypeOK
<1> QED
  BY <1>1, <1>2, <1>3 DEF Next

(* Every step keeps what the places of the handlers imply. *)
LEMMA NextJob ==
  ControlInv /\ [Next]_vars => (\A x \in Handlers : Job(x))'
<1> SUFFICES ASSUME ControlInv, [Next]_vars, NEW x \in Handlers PROVE Job(x)'
  BY DEF ControlInv
<1>c. autoAccept' = autoAccept
  BY ConfigFixed
<1> USE <1>c
<1>0. TypeOK /\ Job(x)
  BY DEF ControlInv
<1>1. ASSUME NEW h \in Handlers, Call(h) PROVE Job(x)'
  <2>1. Arrival(h)
    BY <1>1, CallArrives
  <2>a. PICK o \in Endpoints, w \in Workspaces, d \in Dids, place \in {"read", "put", "set"} :
          /\ Arrive(h, o, w, d, place)
          /\ o = "create" => place \in {"read", "put"}
          /\ o = "status" => place = "read"
          /\ o = "admin" => place = "set" /\ \E v \in Verdicts : verdict' = [verdict EXCEPT ![h] = v]
          /\ o # "admin" => UNCHANGED verdict
    BY <2>1 DEF Arrival
  <2>b. verdict'[x] = verdict[x] \/ x = h
    BY <1>0, <2>a DEF TypeOK
  <2>2. CASE x # h
    BY <1>0, <2>a, <2>b, <2>2 DEF Arrive, Goto, stVars, TypeOK, Job
  <2>3. CASE x = h
    <3>1. /\ pc[h] = "idle" /\ pc'[h] = place
          /\ op'[h] = o /\ ws'[h] = w /\ UNCHANGED <<status, reply>>
      BY <1>0, <2>a DEF Arrive, Goto, stVars, TypeOK
    <3>2. o = "admin" => verdict'[h] \in Verdicts
      BY <1>0, <2>a DEF TypeOK
    <3> QED
      BY <1>0, <2>3, <2>a, <3>1, <3>2 DEF Job, Endpoints
  <2> QED
    BY <2>2, <2>3
<1>2. ASSUME NEW h \in Handlers, Step(h) PROVE Job(x)'
  <2>0. Job(h)
    BY DEF ControlInv
  <2>1. CASE CheckKnock(h)
    BY <1>0, <2>0, <2>1, KnockAssumption
       DEF CheckKnock, Goto, callVars, TypeOK, Job, stVars
  <2>2. CASE ReadStatus(h)
    BY ZenonT(40), <1>0, <2>0, <2>2, KnockAssumption
       DEF ReadStatus, Goto, callVars, TypeOK, Job, stVars
  <2>3. CASE FirstKnock(h)
    BY <1>0, <2>0, <2>3, KnockAssumption
       DEF FirstKnock, Goto, callVars, TypeOK, Job
  <2>4. CASE AutoAcceptKnock(h)
    BY <1>0, <2>0, <2>4, KnockAssumption
       DEF AutoAcceptKnock, Goto, callVars, TypeOK, Job
  <2>5. CASE Put(h)
    BY <1>0, <2>0, <2>5, KnockAssumption
       DEF Put, Goto, callVars, TypeOK, Job, Held
  <2>6. CASE SetVerdict(h)
    BY <1>0, <2>0, <2>6, KnockAssumption
       DEF SetVerdict, Goto, callVars, TypeOK, Job
  <2>7. CASE Release(h)
    BY <1>0, <2>0, <2>7, KnockAssumption
       DEF Release, Goto, callVars, TypeOK, Job
  <2> QED
    BY <1>2, <2>1, <2>2, <2>3, <2>4, <2>5, <2>6, <2>7 DEF Step
<1>3. CASE UNCHANGED vars
  BY <1>0, <1>3 DEF vars, stVars, callVars, Job
<1> QED
  BY <1>1, <1>2, <1>3 DEF Next

(* The handlers and the map stay well-formed.                              *)
THEOREM KnockControl == Spec => []ControlInv
<1>1. ControlInv /\ [Next]_vars => ControlInv'
  BY NextType, NextJob DEF ControlInv
<1> QED
  BY <1>1, InitControl, PTL DEF Spec

(* Type correctness of the knock.                                          *)
THEOREM KnockTypeCorrect == Spec => []TypeOK
<1>1. ControlInv => TypeOK
  BY DEF ControlInv
<1> QED
  BY <1>1, KnockControl, PTL

-----------------------------------------------------------------------------
(* Nobody gets in without an admin.                                        *)

(* What a step of h leaves as it is. *)
Frame(h) ==
    /\ \A x \in Handlers \ {h} : pc'[x] = pc[x] /\ saw'[x] = saw[x] /\ reply'[x] = reply[x]
    /\ UNCHANGED callVars
    /\ pc[h] \in {"read", "first", "accept", "put", "set", "release"}
    /\ pc'[h] \in Places \ {"idle", "read", "set"}

(* What a step of a handler leaves alone. *)
LEMMA StepFrame ==
  ASSUME ControlInv, NEW h \in Handlers, Step(h) PROVE Frame(h)
<1>0. TypeOK
  BY DEF ControlInv
<1>1. CASE CheckKnock(h)
  BY <1>0, <1>1 DEF CheckKnock, Goto, Frame, TypeOK, Places
<1>2. CASE ReadStatus(h)
  BY <1>0, <1>2 DEF ReadStatus, Goto, Frame, TypeOK, Places
<1>3. CASE FirstKnock(h)
  BY <1>0, <1>3 DEF FirstKnock, Goto, Frame, TypeOK, Places
<1>4. CASE AutoAcceptKnock(h)
  BY <1>0, <1>4 DEF AutoAcceptKnock, Goto, Frame, TypeOK, Places
<1>5. CASE Put(h)
  BY <1>0, <1>5 DEF Put, Goto, Frame, TypeOK, Places
<1>6. CASE SetVerdict(h)
  BY <1>0, <1>6 DEF SetVerdict, Goto, Frame, TypeOK, Places
<1>7. CASE Release(h)
  BY <1>0, <1>7 DEF Release, Goto, Frame, TypeOK, Places
<1> QED
  BY <1>1, <1>2, <1>3, <1>4, <1>5, <1>6, <1>7 DEF Step

(* What the arrival of h leaves as it is. *)
ArrivalFrame(h) ==
    /\ \A x \in Handlers \ {h} :
          /\ pc'[x] = pc[x] /\ op'[x] = op[x] /\ ws'[x] = ws[x] /\ did'[x] = did[x]
          /\ verdict'[x] = verdict[x]
    /\ UNCHANGED <<stVars, saw, reply, late>>
    /\ pc[h] = "idle"
    /\ op'[h] \in Endpoints
    /\ pc'[h] \in {"read", "put", "set"}
    /\ pc'[h] = "put" => did'[h] = ""
    /\ pc'[h] = "set" <=> op'[h] = "admin"

(* What the arrival of a call leaves alone. *)
LEMMA CallFrame ==
  ASSUME ControlInv, NEW h \in Handlers, Call(h) PROVE ArrivalFrame(h)
<1>0. TypeOK
  BY DEF ControlInv
<1>1. Arrival(h)
  BY CallArrives
<1> PICK o \in Endpoints, w \in Workspaces, d \in Dids, place \in {"read", "put", "set"} :
      /\ Arrive(h, o, w, d, place)
      /\ o = "create" => place \in {"read", "put"} /\ (place = "put" => d = "")
      /\ o = "status" => place = "read"
      /\ o = "admin" => place = "set" /\ \E v \in Verdicts : verdict' = [verdict EXCEPT ![h] = v]
      /\ o # "admin" => UNCHANGED verdict
  BY <1>1 DEF Arrival
<1>2. \A x \in Handlers \ {h} : verdict'[x] = verdict[x]
  BY <1>0 DEF TypeOK
<1>3. /\ pc[h] = "idle" /\ pc'[h] = place /\ op'[h] = o /\ did'[h] = d
      /\ UNCHANGED <<stVars, saw, reply, late>>
      /\ \A x \in Handlers \ {h} :
            pc'[x] = pc[x] /\ op'[x] = op[x] /\ ws'[x] = ws[x] /\ did'[x] = did[x]
  BY <1>0 DEF Arrive, Goto, TypeOK
<1> QED
  BY <1>2, <1>3 DEF ArrivalFrame, Endpoints

(* A verdict given stays given. *)
LEMMA JudgedStays ==
  ASSUME ControlInv, [Next]_vars, NEW k, NEW V, Judged(k, V) PROVE Judged(k, V)'
<1> PICK a \in Handlers : op[a] = "admin" /\ Key(a) = k /\ verdict[a] \in V /\ pc[a] # "set"
  BY DEF Judged
<1>0. pc[a] # "idle"
  BY DEF ControlInv, Job
<1> SUFFICES op'[a] = "admin" /\ Key(a)' = k /\ verdict'[a] \in V /\ pc'[a] # "set"
  BY DEF Judged
<1>1. ASSUME NEW h \in Handlers, Call(h) PROVE op'[a] = "admin" /\ Key(a)' = k /\ verdict'[a] \in V /\ pc'[a] # "set"
  BY <1>0, <1>1, CallFrame DEF ArrivalFrame, Key
<1>2. ASSUME NEW h \in Handlers, Step(h) PROVE op'[a] = "admin" /\ Key(a)' = k /\ verdict'[a] \in V /\ pc'[a] # "set"
  BY <1>0, <1>2, StepFrame DEF Frame, Key, callVars
<1>3. CASE UNCHANGED vars
  BY <1>3 DEF vars, stVars, callVars, Key
<1> QED
  BY <1>1, <1>2, <1>3 DEF Next

(* With AutoAcceptKnocks nobody is kept waiting: no request is held and no *)
(* status call is answered "pending", whatever admins and callers race to. *)
THEOREM AutoCorrect == Spec => []AutoNeverWaits
<1>1. ControlInv => AutoNeverWaits
  BY DEF ControlInv, Job, AutoNeverWaits
<1> QED
  BY <1>1, KnockControl, PTL

(* "active" is in the map, in a handler's hands or in a reply only when an *)
(* admin put it there.                                                     *)
Admitted(h) ==
    /\ saw[h] = "active" => pc[h] # "idle" /\ Judged(Key(h), {"active"})
    /\ status[h] = "pending" /\ did[h] # "" => Judged(Key(h), {"active"})
    /\ reply[h] = "active" => Judged(Key(h), {"active"})

AcceptInv ==
    ~autoAccept =>
        /\ \A k \in Keys : knock[k] = "active" => Judged(k, {"active"})
        /\ \A h \in Handlers : Admitted(h)

(* At the start nobody is accepted. *)
LEMMA InitAccept == Init => AcceptInv
<1> SUFFICES ASSUME Init PROVE AcceptInv
  OBVIOUS
<1>1. \A k \in Keys : knock[k] # "active"
  BY KnockAssumption DEF Init, Verdicts
<1>2. \A h \in Handlers : Admitted(h)
  BY KnockAssumption DEF Init, Admitted, Verdicts
<1> QED
  BY <1>1, <1>2 DEF AcceptInv

(* No step makes a knock active without an admin. *)
LEMMA NextAccept == ControlInv /\ AcceptInv /\ [Next]_vars => AcceptInv'
<1> SUFFICES ASSUME ControlInv, AcceptInv, [Next]_vars, ~autoAccept
             PROVE  (/\ \A k \in Keys : knock[k] = "active" => Judged(k, {"active"})
                     /\ \A h \in Handlers : Admitted(h))'
  BY ConfigFixed DEF AcceptInv
<1>c. autoAccept' = autoAccept
  BY ConfigFixed
<1> USE <1>c
<1>0. /\ TypeOK
      /\ \A k \in Keys : knock[k] = "active" => Judged(k, {"active"})
      /\ \A h \in Handlers : Admitted(h) /\ Job(h)
  BY DEF AcceptInv, ControlInv
<1>a. \A k : Judged(k, {"active"}) => Judged(k, {"active"})'
  BY JudgedStays
<1>1. ASSUME NEW h \in Handlers, Call(h)
      PROVE  (/\ \A k \in Keys : knock[k] = "active" => Judged(k, {"active"})
              /\ \A x \in Handlers : Admitted(x))'
  <2>1. ArrivalFrame(h)
    BY <1>1, CallFrame
  <2>2. \A x \in Handlers : Admitted(x)'
    BY <1>0, <1>a, <2>1, KnockAssumption DEF ArrivalFrame, Admitted, Job, Key, stVars, Verdicts
  <2> QED
    BY <1>0, <1>a, <2>1, <2>2 DEF ArrivalFrame, stVars, Keys
<1>2. ASSUME NEW h \in Handlers, Step(h)
      PROVE  (/\ \A k \in Keys : knock[k] = "active" => Judged(k, {"active"})
              /\ \A x \in Handlers : Admitted(x))'
  <2>0. Frame(h) /\ Key(h) \in Keys
    BY <1>2, StepFrame, KeyInKeys DEF Frame
  <2>k. UNCHANGED callVars /\ \A x \in Handlers : Key(x)' = Key(x)
    BY <2>0 DEF Frame, callVars, Key
  <2>1. \A k \in Keys : knock'[k] = "active" => Judged(k, {"active"})'
    <3>1. CASE SetVerdict(h)
      <4>1. verdict[h] = "active" => Judged(Key(h), {"active"})'
        BY ZenonT(40), <1>0, <2>0, <2>k, <3>1 DEF SetVerdict, Goto, Judged, Job, TypeOK, callVars, Frame
      <4> SUFFICES ASSUME NEW k \in Keys, knock'[k] = "active"
                   PROVE  Judged(k, {"active"})'
        OBVIOUS
      <4>2. knock'[k] = IF k = Key(h) THEN verdict[h] ELSE knock[k]
        BY <1>0, <2>0, <3>1 DEF SetVerdict, TypeOK
      <4> QED
        BY <1>0, <1>a, <2>k, <4>1, <4>2 DEF Judged
    <3>2. CASE ~SetVerdict(h)
      <4>1. ~AutoAcceptKnock(h)
        BY <1>0 DEF AutoAcceptKnock, Job
      <4>2. knock' = knock \/ knock' = [knock EXCEPT ![Key(h)] = "pending"]
        BY <1>2, <3>2, <4>1 DEF Step, CheckKnock, ReadStatus, FirstKnock, Put, Release, stVars
      <4> QED
        BY <1>0, <1>a, <4>2 DEF TypeOK
    <3> QED
      BY <3>1, <3>2
  <2>2. \A x \in Handlers : Admitted(x)'
    <3> SUFFICES ASSUME NEW x \in Handlers PROVE Admitted(x)'
      OBVIOUS
    <3>0. Admitted(x) /\ Job(x) /\ Job(h)
      BY <1>0
    <3>1. CASE CheckKnock(h)
      <4>1. /\ saw' = [saw EXCEPT ![h] = knock[Key(h)]]
            /\ UNCHANGED <<status, reply>>
        BY <3>1 DEF CheckKnock, stVars
      <4>2. saw'[x] = "active" => Judged(Key(x), {"active"})'
        BY <1>0, <1>a, <2>0, <2>k, <3>0, <4>1 DEF Admitted, TypeOK
      <4> QED
        BY <1>a, <2>0, <2>k, <3>0, <4>1, <4>2 DEF Admitted, Frame, callVars
    <3>2. CASE ReadStatus(h)
      <4>1. /\ saw' = [saw EXCEPT ![h] = knock[Key(h)]]
            /\ reply' = reply \/ reply' = [reply EXCEPT ![h] = knock[Key(h)]]
            /\ UNCHANGED status
        BY <3>2 DEF ReadStatus, stVars
      <4>2. saw'[x] = "active" => Judged(Key(x), {"active"})'
        BY <1>0, <1>a, <2>0, <2>k, <3>0, <4>1 DEF Admitted, TypeOK
      <4>3. reply'[x] = "active" => Judged(Key(x), {"active"})'
        BY <1>0, <1>a, <2>0, <2>k, <3>0, <4>1 DEF Admitted, TypeOK
      <4> QED
        BY <1>a, <2>0, <2>k, <3>0, <4>1, <4>2, <4>3 DEF Admitted, Frame, callVars
    <3>3. CASE FirstKnock(h)
      BY <1>0, <1>a, <2>0, <2>k, <3>0, <3>3
         DEF FirstKnock, Goto, Admitted, Frame, TypeOK, callVars, Places
    <3>4. CASE AutoAcceptKnock(h)
      BY <3>0, <3>4 DEF AutoAcceptKnock, Job
    <3>5. CASE Put(h)
      BY ZenonT(40), <1>0, <1>a, <2>0, <2>k, <3>0, <3>5, KnockAssumption
         DEF Put, Held, Goto, Admitted, Frame, TypeOK, callVars, Places
    <3>6. CASE SetVerdict(h)
      BY <1>0, <1>a, <2>0, <2>k, <3>0, <3>6
         DEF SetVerdict, Goto, Admitted, Frame, TypeOK, callVars, Places
    <3>7. CASE Release(h)
      <4>1. op[h] = "admin" /\ verdict[h] = "active" /\ pc[h] = "release"
        BY <3>0, <3>7 DEF Release, Job
      <4>2. Judged(Key(h), {"active"})
        BY <4>1 DEF Judged
      <4>3. status'[x] # status[x] => Key(x) = Key(h)
        BY <1>0, <3>7 DEF Release, Key, KeyOf, TypeOK
      <4>4. UNCHANGED <<saw, reply>>
        BY <3>7, <4>1 DEF Release
      <4> QED
        BY <1>a, <2>0, <2>k, <3>0, <4>2, <4>3, <4>4 DEF Admitted, Frame, callVars
    <3> QED
      BY <1>2, <3>1, <3>2, <3>3, <3>4, <3>5, <3>6, <3>7 DEF Step
  <2> QED
    BY <2>1, <2>2 DEF Keys
<1>3. CASE UNCHANGED vars
  BY <1>0, <1>a, <1>3 DEF vars, stVars, callVars, Admitted, Key, Keys
<1> QED
  BY <1>1, <1>2, <1>3 DEF Next

(* Without AutoAcceptKnocks, no DID's request is pending, and no DID is    *)
(* told "active", before an admin accepts it.                              *)
THEOREM PendingCorrect == Spec => []PendingWasAccepted
<1>1. AcceptInv => PendingWasAccepted
  BY DEF AcceptInv, Admitted, PendingWasAccepted
<1> QED
  BY <1>1, InitAccept, NextAccept, KnockControl, PTL DEF Spec

-----------------------------------------------------------------------------
(* Whoever is still held under an accepted knock raced with the release.   *)

(* h will store, or has stored, a held request that a release would find.  *)
Waits(h) ==
    \/ op[h] = "create" /\ pc[h] \in {"first", "put"} /\ Held(h)
    \/ status[h] = "held" /\ ws[h] # ""

Excused(h) == knock[Key(h)] # "active" \/ Releasing(Key(h)) \/ h \in late

HeldInv == \A h \in Handlers : Waits(h) => Excused(h)

(* At the start no request is held. *)
LEMMA InitHeld == Init => HeldInv
  BY KnockAssumption DEF Init, HeldInv, Waits

(* No step leaves a request held but those excepted. *)
LEMMA NextHeld == ControlInv /\ HeldInv /\ [Next]_vars => HeldInv'
<1> SUFFICES ASSUME ControlInv, HeldInv, [Next]_vars, NEW x \in Handlers, Waits(x)'
             PROVE  Excused(x)'
  BY DEF HeldInv
<1>c. autoAccept' = autoAccept
  BY ConfigFixed
<1> USE <1>c
<1>0. TypeOK /\ Job(x) /\ (Waits(x) => Excused(x))
  BY DEF HeldInv, ControlInv
<1>1. ASSUME NEW h \in Handlers, Call(h) PROVE Excused(x)'
  <2>1. ArrivalFrame(h) /\ Job(h)
    BY <1>1, CallFrame DEF ControlInv
  <2>2. x # h
    BY <2>1, KnockAssumption DEF ArrivalFrame, Waits, Held, Job, stVars
  <2>3. Waits(x) /\ Key(x)' = Key(x)
    BY <2>1, <2>2 DEF ArrivalFrame, Waits, Held, Key, stVars
  <2>4. ASSUME NEW y \in Handlers, pc[y] = "release" PROVE pc'[y] = "release" /\ Key(y)' = Key(y)
    BY <2>1, <2>4 DEF ArrivalFrame, Key
  <2> QED
    BY ZenonT(40), <1>0, <2>1, <2>3, <2>4 DEF ArrivalFrame, Excused, Releasing, stVars
<1>2. ASSUME NEW h \in Handlers, Step(h) PROVE Excused(x)'
  <2>0. Frame(h) /\ Job(h) /\ Key(h) \in Keys
    BY <1>2, StepFrame, KeyInKeys DEF ControlInv, Frame
  <2>k. UNCHANGED callVars /\ \A y \in Handlers : Key(y)' = Key(y)
    BY <2>0 DEF Frame, callVars, Key
  <2>a. ~autoAccept
    <3>1. CASE Put(h)
      BY <1>0, <2>0, <2>k, <3>1 DEF Put, Waits, Held, Frame, TypeOK, Job, callVars
    <3>2. CASE ~Put(h)
      <4>1. \A y \in Handlers : status'[y] = "held" => status[y] = "held"
        BY <1>0, <1>2, <3>2, KnockAssumption
           DEF Step, CheckKnock, ReadStatus, FirstKnock, AutoAcceptKnock, SetVerdict, Release,
               stVars, TypeOK
      <4> QED
        BY <1>0, <4>1 DEF Waits, Held, Job
    <3> QED
      BY <3>1, <3>2
  <2>b. Excused(x) /\ knock' = knock /\ late \subseteq late' /\ ~Release(h) => Excused(x)'
    <3> SUFFICES ASSUME Excused(x), knock' = knock, late \subseteq late', ~Release(h),
                        ~(knock[Key(x)] # "active"), ~(x \in late)
                 PROVE  Releasing(Key(x))'
      BY <2>k DEF Excused
    <3>1. PICK y \in Handlers : pc[y] = "release" /\ Key(y) = Key(x)
      BY DEF Excused, Releasing
    <3>2. y # h
      BY <1>2, <3>1 DEF Step, CheckKnock, ReadStatus, FirstKnock, AutoAcceptKnock, Put, SetVerdict
    <3> QED
      BY <2>0, <2>k, <3>1, <3>2 DEF Frame, Releasing
  <2>1. CASE CheckKnock(h)
    <3>1. CASE x = h
      <4>1. saw'[h] = knock[Key(h)] /\ knock' = knock
        BY <1>0, <2>1 DEF CheckKnock, TypeOK, stVars
      <4>2. status'[h] # "held"
        BY <2>0, <2>1, KnockAssumption DEF CheckKnock, Job, stVars
      <4> QED
        BY <2>k, <3>1, <4>1, <4>2 DEF Waits, Held, Excused
    <3>2. CASE x # h
      BY <1>0, <2>0, <2>b, <2>k, <2>1, <3>2
         DEF CheckKnock, Waits, Held, Frame, Release, stVars, callVars
    <3> QED
      BY <3>1, <3>2
  <2>2. CASE ReadStatus(h)
    BY <1>0, <2>0, <2>b, <2>k, <2>2
       DEF ReadStatus, Waits, Held, Frame, Release, stVars, callVars
  <2>3. CASE FirstKnock(h)
    <3>1. CASE Key(x) = Key(h)
      BY <1>0, <2>0, <2>k, <2>3, <3>1 DEF FirstKnock, Excused, TypeOK
    <3>2. CASE Key(x) # Key(h)
      <4>1. Waits(x)
        BY <2>0, <2>k, <2>3, <3>2 DEF FirstKnock, Waits, Held, Frame, callVars
      <4>2. knock'[Key(x)] = knock[Key(x)]
        <5>1. Key(x) \in Keys
          BY <1>0, <4>1, KeyInKeys, KnockAssumption DEF Waits, Job
        <5> QED
          BY <1>0, <2>3, <3>2, <5>1 DEF FirstKnock, TypeOK
      <4>3. \A y \in Handlers : pc[y] = "release" => pc'[y] = "release"
        BY <2>0, <2>3 DEF FirstKnock, Frame
      <4> QED
        BY <1>0, <2>k, <2>3, <4>1, <4>2, <4>3 DEF FirstKnock, Excused, Releasing
    <3> QED
      BY <3>1, <3>2
  <2>4. CASE AutoAcceptKnock(h)
    BY <2>0, <2>a, <2>4 DEF AutoAcceptKnock, Job
  <2>5. CASE Put(h)
    <3>1. Waits(x)
      BY <1>0, <2>0, <2>k, <2>5 DEF Put, Waits, Held, Frame, TypeOK, Job, callVars
    <3> QED
      BY <1>0, <2>b, <2>5, <3>1 DEF Put, Release
  <2>6. CASE SetVerdict(h)
    <3>1. Waits(x)
      BY <2>0, <2>k, <2>6 DEF SetVerdict, Waits, Held, Frame, callVars, Job
    <3>2. CASE Key(x) = Key(h)
      <4>1. knock'[Key(x)] = verdict[h]
        BY <1>0, <2>0, <2>6, <3>2 DEF SetVerdict, TypeOK
      <4>2. CASE verdict[h] = "active"
        <5>1. pc'[h] = "release"
          BY <1>0, <2>6, <4>2 DEF SetVerdict, Goto, TypeOK
        <5> QED
          BY <2>k, <3>2, <5>1 DEF Excused, Releasing
      <4>3. CASE verdict[h] # "active"
        BY <2>k, <4>1, <4>3 DEF Excused
      <4> QED
        BY <4>2, <4>3
    <3>3. CASE Key(x) # Key(h)
      <4>1. knock'[Key(x)] = knock[Key(x)]
        <5>1. Key(x) \in Keys
          BY <1>0, <3>1, KeyInKeys, KnockAssumption DEF Waits, Job
        <5> QED
          BY <1>0, <2>6, <3>3, <5>1 DEF SetVerdict, TypeOK
      <4>2. \A y \in Handlers : pc[y] = "release" => pc'[y] = "release"
        BY <2>0, <2>6 DEF SetVerdict, Frame
      <4> QED
        BY <1>0, <2>k, <2>6, <3>1, <4>1, <4>2 DEF SetVerdict, Excused, Releasing
    <3> QED
      BY <3>2, <3>3
  <2>7. CASE Release(h)
    <3>1. CASE Key(x) = Key(h)
      <4>1. ~(status'[x] = "held" /\ ws'[x] # "")
        BY <1>0, <2>k, <2>7, <3>1, KnockAssumption DEF Release, Key, KeyOf, TypeOK, callVars
      <4>2. pc'[x] \in {"first", "put"}
        BY <4>1 DEF Waits
      <4>3. x # h
        BY <1>0, <2>7, <4>2 DEF Release, Goto, TypeOK
      <4>4. x \in late'
        BY <2>0, <2>7, <3>1, <4>2, <4>3 DEF Release, Frame
      <4> QED
        BY <4>4 DEF Excused
    <3>2. CASE Key(x) # Key(h)
      <4>1. Waits(x)
        BY <1>0, <2>0, <2>k, <2>7, <3>2, KnockAssumption
           DEF Release, Waits, Held, Frame, callVars, TypeOK
      <4>2. \A y \in Handlers : pc[y] = "release" /\ Key(y) = Key(x) => pc'[y] = "release"
        BY <2>0, <3>2 DEF Frame
      <4> QED
        BY <1>0, <2>k, <2>7, <4>1, <4>2 DEF Release, Excused, Releasing
    <3> QED
      BY <3>1, <3>2
  <2> QED
    BY <1>2, <2>1, <2>2, <2>3, <2>4, <2>5, <2>6, <2>7 DEF Step
<1>3. CASE UNCHANGED vars
  <2>1. UNCHANGED <<knock, status, op, pc, ws, did, saw, late>>
    BY <1>3 DEF vars, stVars, callVars
  <2>2. Waits(x) /\ Key(x)' = Key(x)
    BY <2>1 DEF Waits, Held, Key
  <2>3. Releasing(Key(x)) => Releasing(Key(x))'
    BY <2>1, <2>2 DEF Releasing, Key
  <2> QED
    BY <1>0, <2>1, <2>2, <2>3 DEF Excused
<1> QED
  BY <1>1, <1>2, <1>3 DEF Next

(* A request stays held under an accepted knock only when it names no      *)
(* workspace or when a release ran between the check of its sender's knock *)
(* and its put, for any number of callers and admins.                      *)
THEOREM HeldCorrect == Spec => []OnlyRacersStayHeld
<1>1. HeldInv => OnlyRacersStayHeld
  BY DEF HeldInv, Waits, Excused, OnlyRacersStayHeld
<1> QED
  BY <1>1, InitHeld, NextHeld, KnockControl, PTL DEF Spec
=============================================================================
