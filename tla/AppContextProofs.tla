--------------------------- MODULE AppContextProofs ---------------------------
(***************************************************************************)
(* Proofs about AppContext, for any number of threads, cards, sessions and *)
(* registrations: the server uses the session manager as SessionManager    *)
(* says, types, what becomes of a registration, that it implements Kiosk,  *)
(* and that the bridge remembers the sessions whose end is untold.         *)
(***************************************************************************)
EXTENDS AppContext, SessionManagerProofs, FiniteSetTheorems

(***************************************************************************)
(* The bridge has a card in hand where it is going to enrol or to log in.  *)
(***************************************************************************)
Carrying == {"tap", "regTap", "enroll", "tapHas", "auth"}

BridgeRecord == [at : Places, had : BOOLEAN, card : People \cup {NoPerson},
                 pend : 0 .. MaxRegs]

BridgeOK ==
    /\ taps \in Seq(People \cup {Unplugged})
    /\ bridge \in BridgeRecord
    /\ bridge.at \in Carrying => bridge.card \in People
    /\ enrolled \subseteq People
    /\ told \in {"none", "auth_success", "session_ended", "session_timeout"}

JobRecord == [op : Endpoints \cup {"none"},
              at : {"none", "has", "current", "touch", "body", "ended",
                    "names", "panel"},
              adm : 0 .. MaxSessions]

RegRecord == [expired : BOOLEAN, cancelled : BOOLEAN, cards : SUBSET People]

\* A request that may start a registration has room for it.
Registrants == {p \in Pool : job[p].op \in Registering}

JobsOK ==
    /\ job \in [Pool -> JobRecord]
    /\ \A p \in Pool : job[p].at = "names" => job[p].op = "register"
    /\ regs \in Seq(RegRecord)
    /\ pending \in 0 .. Len(regs)
    /\ Len(regs) + Cardinality(Registrants) <= MaxRegs

\* A thread outside the manager's methods has no locals of theirs.
OutIsOut == \A t \in Threads : run[t].at = "out" => run[t] = Out

ContextInv == Inv /\ OutIsOut /\ BridgeOK /\ JobsOK

(***************************************************************************)
(* Every step is one of the session manager's, or none of its business.    *)
(***************************************************************************)
LEMMA LeaveStep ==
    ASSUME Inv, OutIsOut, NEW t \in Threads, Leave(t), UNCHANGED sessionVars,
           Returned(t) \/ Raised(t) \/ run[t].at = "out"
    PROVE  [SMNext]_smVars
<1>1. CASE Returned(t) \/ Raised(t)
    BY <1>1 DEF Finished, SMNext
<1>2. CASE run[t].at = "out"
    <2>1. run' = run
        BY <1>2 DEF OutIsOut, Leave, Inv, SMTypeOK
    <2>2. QED
        BY <2>1 DEF smVars, sessionVars
<1>3. QED
    BY <1>1, <1>2

LEMMA CallStep ==
    ASSUME NEW t \in Threads, UNCHANGED sessionVars,
           \/ CallCurrentSession(t)
           \/ CallEndSession(t)
           \/ \E u \in People : CallStartSession(t, u)
    PROVE  [SMNext]_smVars
    BY DEF AnyCall, SMNext

LEMMA BridgeSM ==
    ASSUME ContextInv, BridgeStep PROVE [SMNext]_smVars
<1>1. Loop \in Threads /\ Inv /\ OutIsOut
    BY ContextAssumption DEF ContextInv
<1>2. CASE SMStep(Loop)
    BY <1>1, <1>2 DEF SMNext
<1>3. CASE BridgeTop
    BY <1>1, <1>3, CallStep DEF BridgeTop
<1>4. CASE BridgeTopHas
    BY <1>1, <1>4, LeaveStep DEF BridgeTopHas, At
<1>5. CASE BridgePoll
    BY <1>1, <1>5, CallStep DEF BridgePoll, smVars, sessionVars
<1>6. CASE BridgeTap
    BY <1>1, <1>6, CallStep DEF BridgeTap, smVars, sessionVars
<1>7. CASE RegistrationTap \/ Enroll
    BY <1>7 DEF RegistrationTap, Enroll
<1>8. CASE TapHas
    BY <1>1, <1>8, CallStep, LeaveStep DEF TapHas, At
<1>9. CASE TapCurrent
    BY <1>1, <1>9, CallStep, LeaveStep DEF TapCurrent, At, BridgeDone
<1>10. CASE TapEnd \/ Login \/ UnplugEnd
    BY <1>1, <1>10, LeaveStep DEF TapEnd, Login, UnplugEnd, At, BridgeDone
<1>11. CASE Authenticate
    <2>1. bridge.card \in enrolled => bridge.card \in People
        BY DEF ContextInv, BridgeOK
    <2>2. QED
        BY <1>1, <1>11, <2>1, CallStep, LeaveStep DEF Authenticate, At, BridgeDone
<1>12. CASE UnplugHas
    BY <1>1, <1>12, CallStep, LeaveStep DEF UnplugHas, At, BridgeDone
<1>13. CASE BridgeRaised
    BY <1>1, <1>13, LeaveStep DEF BridgeRaised
<1>14. QED
    BY <1>2, <1>3, <1>4, <1>5, <1>6, <1>7, <1>8, <1>9, <1>10, <1>11, <1>12, <1>13
       DEF BridgeStep

LEMMA RequestSM ==
    ASSUME ContextInv, NEW p \in Pool,
           \/ RequestStep(p)
           \/ \E op \in Ops : Request(p, op)
           \/ PanelRequest(p)
    PROVE  [SMNext]_smVars
<1>1. p \in Threads /\ Inv /\ OutIsOut
    BY DEF ContextInv, Pool
<1>2. CASE SMStep(p)
    BY <1>1, <1>2 DEF SMNext
<1>3. CASE \E op \in Ops : Request(p, op)
    BY <1>1, <1>3, CallStep DEF Request
<1>4. CASE PanelRequest(p)
    <2>1. PanelAdmin \in People
        BY ContextAssumption
    <2>2. QED
        BY <1>1, <1>4, <2>1, CallStep DEF PanelRequest
<1>5. CASE RequestHas(p)
    BY <1>1, <1>5, CallStep, LeaveStep DEF RequestHas, JobAt, Reply
<1>6. CASE RequestCurrent(p)
    BY <1>1, <1>6, LeaveStep DEF RequestCurrent, JobAt, Reply, smVars, sessionVars
<1>7. CASE RequestTouch(p)
    BY <1>7 DEF RequestTouch, SMNext
<1>8. CASE RequestBody(p)
    BY <1>1, <1>8, CallStep, LeaveStep DEF RequestBody, JobAt, Reply
<1>9. CASE EndReply(p) \/ RegisterName(p) \/ PanelReply(p)
    BY <1>1, <1>9, LeaveStep DEF EndReply, RegisterName, PanelReply, JobAt, Reply
<1>10. CASE RequestRaised(p)
    BY <1>1, <1>10, LeaveStep DEF RequestRaised, Reply
<1>11. QED
    BY <1>2, <1>3, <1>4, <1>5, <1>6, <1>7, <1>8, <1>9, <1>10 DEF RequestStep

LEMMA StepSM == ASSUME ContextInv, [Next]_vars PROVE [SMNext]_smVars
<1>1. CASE \E e \in People \cup {Unplugged} : ReaderEvent(e)
    BY <1>1 DEF ReaderEvent
<1>2. CASE CancelRegistration \/ RegistrationTimeout
    BY <1>2 DEF CancelRegistration, RegistrationTimeout
<1>3. CASE SessionTimeout
    BY <1>3 DEF SessionTimeout, SMNext
<1>4. CASE UNCHANGED vars
    BY <1>4 DEF vars
<1>5. QED
    BY <1>1, <1>2, <1>3, <1>4, BridgeSM, RequestSM DEF Next

LEMMA OutStep == ASSUME Inv, OutIsOut, [SMNext]_smVars PROVE OutIsOut'
<1> SUFFICES ASSUME NEW t \in Threads, run'[t].at = "out" PROVE run'[t] = Out
    BY DEF OutIsOut
<1>1. ASSUME NEW s \in Threads, NEW frame, run' = [run EXCEPT ![s] = frame],
             frame.at = "out" => frame = Out
      PROVE  run'[t] = Out
    BY <1>1 DEF OutIsOut, Inv, SMTypeOK
<1>2. run[t] \in Frame
    BY DEF Inv, SMTypeOK
<1>3. CASE \E s \in Threads : SMStep(s)
    <2>1. PICK s \in Threads : SMStep(s)
        BY <1>3
    <2>2. ASSUME NEW g, Returns(s, g) PROVE run'[t] = Out
        BY <1>1, <2>2 DEF Returns, Back
    <2>3. ASSUME NEW at, GoTo(s, at), at # "out" PROVE run'[t] = Out
        <3>1. run[s] \in Frame
            BY DEF Inv, SMTypeOK
        <3>2. [run[s] EXCEPT !.at = at].at = at
            BY <3>1 DEF Frame
        <3>3. QED
            BY <1>1, <2>3, <3>2 DEF GoTo
    <2>4. CASE Look(s) \/ EndLook(s)
        <3>1. run[s] \in Frame
            BY DEF Inv, SMTypeOK
        <3>2. ASSUME NEW at, NEW obj, at # "out",
                     run' = [run EXCEPT ![s].at = at, ![s].obj = obj]
              PROVE  run'[t] = Out
            <4>1. [run[s] EXCEPT !.at = at, !.obj = obj].at = at
                BY <3>1 DEF Frame
            <4>2. run' = [run EXCEPT ![s] = [run[s] EXCEPT !.at = at, !.obj = obj]]
                BY <3>2
            <4>3. QED
                BY <1>1, <3>2, <4>1, <4>2
        <3>3. CASE Look(s)
            BY <2>2, <2>4, <3>2, <3>3 DEF Look
        <3>4. CASE EndLook(s)
            BY <2>2, <2>3, <3>2, <3>4 DEF EndLook, Ended
        <3>5. QED
            BY <2>4, <3>3, <3>4
    <2>5. CASE Judge(s) \/ Clear(s) \/ EndClear(s) \/ Store(s)
        BY <2>2, <2>3, <2>5 DEF Judge, Clear, EndClear, Ended, Store
    <2>6. CASE Log(s) \/ EndLog(s)
        BY <1>1, <2>3, <2>6 DEF Log, EndLog, Raises, Out
    <2>7. QED
        BY <2>1, <2>4, <2>5, <2>6 DEF SMStep
<1>4. CASE \E s \in Threads : AnyCall(s) \/ Finished(s)
    BY <1>1, <1>4 DEF AnyCall, Finished, Leave, Enter, CallCurrentSession,
                      CallEndSession, CallStartSession, Out
<1>5. CASE Touch
    <2>1. run'[t].at = run[t].at
        BY <1>2, <1>5 DEF Touch, Frame
    <2>2. run[t] = Out
        BY <2>1 DEF OutIsOut
    <2>3. QED
        BY <1>5, <2>2 DEF Touch, Out
<1>6. CASE TimePasses \/ UNCHANGED smVars
    BY <1>6 DEF TimePasses, smVars, OutIsOut
<1>7. QED
    BY <1>3, <1>4, <1>5, <1>6 DEF SMNext

(***************************************************************************)
(* Bounds.                                                                 *)
(***************************************************************************)
LEMMA CountTypes ==
    ASSUME JobsOK
    PROVE  /\ IsFiniteSet(Registrants)
           /\ Cardinality(Registrants) \in Nat
           /\ Len(regs) \in Nat
           /\ MaxRegs \in Nat
           /\ Len(regs) <= MaxRegs
           /\ pending \in 0 .. MaxRegs
<1>1. Registrants \subseteq Threads /\ IsFiniteSet(Threads) /\ MaxRegs \in Nat
    BY ContextAssumption DEF Registrants, Pool
<1>2. IsFiniteSet(Registrants)
    BY <1>1, FS_Subset
<1>3. Cardinality(Registrants) \in Nat
    BY <1>2, FS_CardinalityType
<1>4. Len(regs) \in Nat /\ pending \in 0 .. Len(regs)
          /\ Len(regs) + Cardinality(Registrants) <= MaxRegs
    BY DEF JobsOK
<1>5. QED
    BY <1>1, <1>2, <1>3, <1>4

(***************************************************************************)
(* What the bridge has.                                                    *)
(***************************************************************************)
LEMMA BridgeGoes ==
    ASSUME BridgeOK, NEW place \in Places, BridgeTo(place),
           place \in Carrying => bridge.card \in People
    PROVE  bridge' \in BridgeRecord /\ (bridge'.at \in Carrying => bridge'.card \in People)
    BY DEF BridgeTo, BridgeOK, BridgeRecord

LEMMA BridgeRests ==
    ASSUME BridgeOK, NextRound
    PROVE  bridge' \in BridgeRecord /\ bridge'.at \notin Carrying
<1>1. 0 \in 0 .. MaxRegs
    BY ContextAssumption
<1>2. QED
    BY <1>1 DEF NextRound, BridgeOK, BridgeRecord, Places, Carrying

LEMMA BridgeStepTypes == ASSUME BridgeOK, JobsOK, BridgeStep PROVE BridgeOK'
<1>1. CASE SMStep(Loop) /\ UNCHANGED contextVars
    BY <1>1 DEF BridgeOK, contextVars
<1>2. CASE BridgeTop
    BY <1>2, BridgeGoes DEF BridgeTop, BridgeOK, Places, Carrying
<1>3. CASE BridgeTopHas
    BY <1>3 DEF BridgeTopHas, BridgeOK, BridgeRecord, Places, Carrying
<1>4. CASE BridgePoll
    <2>1. ASSUME taps # <<>>
          PROVE  Tail(taps) \in Seq(People \cup {Unplugged})
                 /\ Head(taps) \in People \cup {Unplugged}
        BY <2>1, HeadTailProperties DEF BridgeOK
    <2>2. CASE NextRound /\ UNCHANGED <<run, taps>>
        BY <1>4, <2>2, BridgeRests DEF BridgePoll, BridgeOK
    <2>3. CASE taps # <<>> /\ Head(taps) = Unplugged /\ taps' = Tail(taps)
               /\ BridgeTo("unplugHas")
        BY <1>4, <2>1, <2>3, BridgeGoes DEF BridgePoll, BridgeOK, Places, Carrying
    <2>4. CASE taps # <<>> /\ Head(taps) # Unplugged /\ taps' = Tail(taps)
               /\ bridge' = [bridge EXCEPT !.at = "tap", !.card = Head(taps)]
        BY <1>4, <2>1, <2>4 DEF BridgePoll, BridgeOK, BridgeRecord, Places
    <2>5. QED
        BY <1>4, <2>2, <2>3, <2>4 DEF BridgePoll
<1>5. CASE BridgeTap
    BY <1>5, BridgeGoes DEF BridgeTap, At, BridgeOK, Places, Carrying
<1>6. CASE RegistrationTap
    <2>1. pending \in 0 .. MaxRegs
        BY CountTypes
    <2>2. bridge.card \in People
        BY <1>6 DEF RegistrationTap, At, BridgeOK, Carrying
    <2>3. CASE BridgeTo("dead")
        BY <1>6, <2>3, BridgeGoes DEF RegistrationTap, BridgeOK, Places, Carrying
    <2>4. CASE NextRound
        BY <1>6, <2>4, BridgeRests DEF RegistrationTap, BridgeOK
    <2>5. CASE bridge' = [bridge EXCEPT !.at = "enroll", !.pend = pending]
        BY <1>6, <2>1, <2>2, <2>5 DEF RegistrationTap, BridgeOK, BridgeRecord, Places
    <2>6. QED
        BY <1>6, <2>3, <2>4, <2>5 DEF RegistrationTap
<1>7. CASE Enroll
    BY <1>7, BridgeRests DEF Enroll, At, BridgeOK, Carrying
<1>8. CASE TapHas
    BY <1>8, BridgeGoes DEF TapHas, At, BridgeOK, Places, Carrying
<1>9. CASE TapCurrent \/ TapEnd \/ Login \/ UnplugEnd \/ UnplugHas
    BY <1>9, BridgeGoes, BridgeRests
       DEF TapCurrent, TapEnd, Login, UnplugEnd, UnplugHas, BridgeDone, BridgeOK,
           Places, Carrying
<1>10. CASE Authenticate \/ BridgeRaised
    BY <1>10, BridgeGoes, BridgeRests
       DEF Authenticate, BridgeRaised, BridgeDone, BridgeOK, Places, Carrying
<1>11. QED
    BY <1>1, <1>2, <1>3, <1>4, <1>5, <1>6, <1>7, <1>8, <1>9, <1>10 DEF BridgeStep

(***************************************************************************)
(* Requests and registrations.                                             *)
(***************************************************************************)

\* A request goes on, or is answered, without a registration.
LEMMA JobGoes ==
    ASSUME JobsOK, NEW p \in Pool, NEW new \in JobRecord,
           job' = [job EXCEPT ![p] = new],
           new.op \in {job[p].op, "none", "panel"},
           new.at = "names" => new.op = "register",
           UNCHANGED <<regs, pending>>
    PROVE  JobsOK'
<1>1. job' \in [Pool -> JobRecord]
    BY DEF JobsOK
<1>2. \A q \in Pool : job'[q] = IF q = p THEN new ELSE job[q]
    BY DEF JobsOK
<1>3. Registrants' \subseteq Registrants
    BY <1>2 DEF Registrants, Registering
<1>4. Cardinality(Registrants') <= Cardinality(Registrants)
      /\ Cardinality(Registrants') \in Nat
    BY <1>3, CountTypes, FS_Subset, FS_CardinalityType
<1>5. Len(regs) + Cardinality(Registrants') <= MaxRegs
    BY <1>4, CountTypes DEF JobsOK
<1>6. QED
    BY <1>1, <1>2, <1>5 DEF JobsOK

\* A request that had room for a registration starts one and is answered.
LEMMA JobRegisters ==
    ASSUME JobsOK, NEW p \in Pool, job[p].op \in Registering,
           job' = [job EXCEPT ![p] = Idle], StartRegistration
    PROVE  JobsOK'
<1>1. Idle \in JobRecord /\ Idle.op = "none" /\ Idle.at = "none"
    BY SessionAssumption DEF Idle, JobRecord
<1>2. /\ job' \in [Pool -> JobRecord]
      /\ \A q \in Pool : job'[q] = IF q = p THEN Idle ELSE job[q]
    BY <1>1 DEF JobsOK
<1>3. Registrants' = Registrants \ {p} /\ p \in Registrants
    BY <1>1, <1>2 DEF Registrants, Registering
<1>4. Cardinality(Registrants') = Cardinality(Registrants) - 1
    BY <1>3, CountTypes, FS_RemoveElement
<1>5. NewRegistration \in RegRecord
    BY DEF NewRegistration, RegRecord
<1>6. /\ regs' \in Seq(RegRecord)
      /\ Len(regs') = Len(regs) + 1
    BY <1>5, AppendProperties DEF StartRegistration, JobsOK
<1>7. pending' \in 0 .. Len(regs')
    BY <1>6, CountTypes DEF StartRegistration
<1>8. Len(regs') + Cardinality(Registrants') <= MaxRegs
    BY <1>4, <1>6, CountTypes DEF JobsOK
<1>9. QED
    BY <1>1, <1>2, <1>6, <1>7, <1>8 DEF JobsOK

\* A request that may start a registration is taken only if there is room.
LEMMA JobArrives ==
    ASSUME JobsOK, NEW p \in Pool, NEW new \in JobRecord,
           job' = [job EXCEPT ![p] = new], new.at # "names",
           new.op \in Registering => RoomToRegister,
           UNCHANGED <<regs, pending>>
    PROVE  JobsOK'
<1>1. /\ job' \in [Pool -> JobRecord]
      /\ \A q \in Pool : job'[q] = IF q = p THEN new ELSE job[q]
    BY DEF JobsOK
<1>2. CASE new.op \notin Registering
    <2>1. Registrants' \subseteq Registrants
        BY <1>1, <1>2 DEF Registrants
    <2>2. Cardinality(Registrants') <= Cardinality(Registrants)
          /\ Cardinality(Registrants') \in Nat
        BY <2>1, CountTypes, FS_Subset, FS_CardinalityType
    <2>3. Len(regs) + Cardinality(Registrants') <= MaxRegs
        BY <2>2, CountTypes DEF JobsOK
    <2>4. QED
        BY <1>1, <2>3 DEF JobsOK
<1>3. CASE new.op \in Registering
    <2>1. Registrants' \subseteq Registrants \cup {p}
        BY <1>1 DEF Registrants
    <2>2. /\ IsFiniteSet(Registrants \cup {p})
          /\ Cardinality(Registrants \cup {p}) <= Cardinality(Registrants) + 1
          /\ Cardinality(Registrants \cup {p}) \in Nat
        <3>1. IsFiniteSet(Registrants) /\ Cardinality(Registrants) \in Nat
            BY CountTypes
        <3>2. /\ IsFiniteSet(Registrants \cup {p})
              /\ Cardinality(Registrants \cup {p})
                    \in {Cardinality(Registrants), Cardinality(Registrants) + 1}
            BY <3>1, FS_AddElement
        <3>3. QED
            BY <3>1, <3>2
    <2>3. Cardinality(Registrants') <= Cardinality(Registrants \cup {p})
          /\ Cardinality(Registrants') \in Nat
        BY <2>1, <2>2, FS_Subset, FS_CardinalityType
    <2>4. Len(regs) + Cardinality(Registrants) < MaxRegs
        BY <1>3 DEF RoomToRegister, Registrants
    <2>5. Len(regs) + Cardinality(Registrants') <= MaxRegs
        BY <2>2, <2>3, <2>4, CountTypes
    <2>6. QED
        BY <1>1, <2>5 DEF JobsOK
<1>4. QED
    BY <1>2, <1>3

LEMMA RequestStepTypes ==
    ASSUME ContextInv, NEW p \in Pool, RequestStep(p) PROVE JobsOK'
<1> USE DEF ContextInv
<1>1. /\ Idle \in JobRecord /\ Idle.op = "none" /\ Idle.at = "none"
      /\ job[p] \in JobRecord
      /\ run[p] \in Frame
      /\ job[p].at = "names" => job[p].op = "register"
    BY SessionAssumption, FrameTypes DEF Idle, JobRecord, JobsOK, Pool
<1>2. ASSUME Reply(p), UNCHANGED <<regs, pending>> PROVE JobsOK'
    BY <1>1, <1>2, JobGoes DEF Reply
<1>3. ASSUME NEW place \in {"names", "current", "body", "ended"}, JobTo(p, place),
             place = "names" => job[p].op = "register", UNCHANGED <<regs, pending>>
      PROVE  JobsOK'
    <2> DEFINE new == [job[p] EXCEPT !.at = place]
    <2>1. new \in JobRecord /\ new.op = job[p].op /\ new.at = place
        BY <1>1 DEF JobRecord
    <2>2. job' = [job EXCEPT ![p] = new]
        BY <1>3 DEF JobTo
    <2> HIDE DEF new
    <2>3. QED
        BY <1>3, <2>1, <2>2, JobGoes
<1>4. CASE SMStep(p) /\ UNCHANGED contextVars
    BY <1>4 DEF JobsOK, contextVars, Registrants
<1>5. CASE RequestHas(p)
    BY <1>2, <1>3, <1>5 DEF RequestHas
<1>6. CASE RequestCurrent(p)
    <2>1. CASE Reply(p)
        BY <1>2, <1>6, <2>1 DEF RequestCurrent
    <2>2. CASE job' = [job EXCEPT ![p].at = "touch", ![p].adm = run[p].got]
        <3> DEFINE new == [job[p] EXCEPT !.at = "touch", !.adm = run[p].got]
        <3>1. new \in JobRecord /\ new.op = job[p].op /\ new.at = "touch"
            BY <1>1 DEF JobRecord, Frame
        <3>2. job' = [job EXCEPT ![p] = new]
            BY <2>2
        <3> HIDE DEF new
        <3>3. QED
            BY <1>6, <3>1, <3>2, JobGoes DEF RequestCurrent
    <2>3. QED
        BY <1>6, <2>1, <2>2 DEF RequestCurrent
<1>7. CASE RequestTouch(p)
    BY <1>3, <1>7 DEF RequestTouch
<1>8. CASE RequestBody(p)
    <2>1. CASE job[p].op = "enroll" /\ StartRegistration /\ Reply(p)
        BY <2>1, JobRegisters DEF Reply, Registering
    <2>2. QED
        BY <1>2, <1>3, <1>8, <2>1 DEF RequestBody
<1>9. CASE RegisterName(p)
    <2>1. CASE StartRegistration
        BY <1>1, <1>9, <2>1, JobRegisters DEF RegisterName, JobAt, Reply, Registering
    <2>2. QED
        BY <1>2, <1>9, <2>1 DEF RegisterName
<1>10. CASE EndReply(p) \/ PanelReply(p) \/ RequestRaised(p)
    BY <1>2, <1>10 DEF EndReply, PanelReply, RequestRaised
<1>11. QED
    BY <1>4, <1>5, <1>6, <1>7, <1>8, <1>9, <1>10 DEF RequestStep

LEMMA ArrivalTypes ==
    ASSUME ContextInv, NEW p \in Pool,
           (\E op \in Ops : Request(p, op)) \/ PanelRequest(p)
    PROVE  JobsOK'
<1>1. 0 \in 0 .. MaxSessions
    BY SessionAssumption
<1>2. ASSUME NEW op \in Ops, Request(p, op) PROVE JobsOK'
    <2> DEFINE new == [Idle EXCEPT !.op = op, !.at = "has"]
    <2>1. new \in JobRecord /\ new.op = op /\ new.at = "has"
        BY <1>1, ContextAssumption DEF Idle, JobRecord
    <2>2. job' = [job EXCEPT ![p] = new]
        BY <1>2 DEF Request
    <2> HIDE DEF new
    <2>3. QED
        BY <1>2, <2>1, <2>2, JobArrives DEF Request, ContextInv
<1>3. CASE PanelRequest(p)
    <2> DEFINE new == [Idle EXCEPT !.op = "panel", !.at = "panel"]
    <2>1. new \in JobRecord /\ new.op = "panel" /\ new.at = "panel"
        BY <1>1 DEF Idle, JobRecord, Endpoints
    <2>2. job' = [job EXCEPT ![p] = new]
        BY <1>3 DEF PanelRequest
    <2> HIDE DEF new
    <2>3. QED
        BY <1>3, <2>1, <2>2, JobArrives DEF PanelRequest, ContextInv, Registering
<1>4. QED
    BY <1>2, <1>3

\* The bridge and the clock change registrations, and no bound is touched.
LEMMA RegsTypes ==
    ASSUME ContextInv,
           BridgeStep \/ CancelRegistration \/ RegistrationTimeout
    PROVE  JobsOK'
<1> USE DEF ContextInv, JobsOK
<1>1. ASSUME NEW reg \in RegRecord, NEW r \in 1 .. Len(regs),
             regs' = [regs EXCEPT ![r] = reg], pending' \in {0, pending}, UNCHANGED job
      PROVE  JobsOK'
    <2>1. regs' \in Seq(RegRecord) /\ Len(regs') = Len(regs)
        BY <1>1, ExceptSeq
    <2>2. QED
        BY <1>1, <2>1, CountTypes DEF Registrants
<1>2. ASSUME pending' \in {0, pending}, UNCHANGED <<job, regs>> PROVE JobsOK'
    BY <1>2, CountTypes DEF Registrants
<1>3. CASE BridgeStep
    <2>1. CASE Enroll
        <3>1. CASE UNCHANGED <<regs, enrolled>>
            BY <1>2, <2>1, <3>1 DEF Enroll
        <3>2. CASE regs' = [regs EXCEPT ![bridge.pend].cards = @ \cup {bridge.card}]
            <4>1. CASE bridge.pend \in 1 .. Len(regs)
                <5> DEFINE reg == [regs[bridge.pend] EXCEPT !.cards = @ \cup {bridge.card}]
                <5>1. regs[bridge.pend] \in RegRecord
                    BY <4>1, ElementOfSeq
                <5>2. bridge.card \in People
                    BY <2>1 DEF Enroll, At, BridgeOK, Carrying
                <5>3. reg \in RegRecord
                    BY <5>1, <5>2 DEF RegRecord
                <5>4. regs' = [regs EXCEPT ![bridge.pend] = reg]
                    BY <3>2
                <5> HIDE DEF reg
                <5>5. QED
                    BY <1>1, <2>1, <4>1, <5>3, <5>4 DEF Enroll
            <4>2. CASE bridge.pend \notin 1 .. Len(regs)
                <5>1. regs' = regs
                    BY <3>2, <4>2, LenProperties
                <5>2. QED
                    BY <1>2, <2>1, <5>1 DEF Enroll
            <4>3. QED
                BY <4>1, <4>2
        <3>3. QED
            BY <2>1, <3>1, <3>2 DEF Enroll
    <2>2. CASE RegistrationTap
        BY <1>2, <2>2 DEF RegistrationTap
    <2>3. CASE SMStep(Loop) /\ UNCHANGED contextVars
        BY <1>2, <2>3 DEF contextVars
    <2>4. QED
        BY <1>2, <1>3, <2>1, <2>2, <2>3
           DEF BridgeStep, BridgeTop, BridgeTopHas, BridgePoll, BridgeTap, TapHas,
               TapCurrent, TapEnd, Authenticate, Login, UnplugHas, UnplugEnd,
               BridgeRaised
<1>4. ASSUME pending # 0
      PROVE  /\ pending \in 1 .. Len(regs)
             /\ [regs[pending] EXCEPT !.cancelled = TRUE] \in RegRecord
             /\ [regs[pending] EXCEPT !.expired = TRUE] \in RegRecord
    <2>1. pending \in 1 .. Len(regs)
        BY <1>4, CountTypes
    <2>2. regs[pending] \in RegRecord
        BY <2>1, ElementOfSeq
    <2>3. QED
        BY <2>1, <2>2 DEF RegRecord
<1>5. CASE CancelRegistration
    <2>1. regs' = [regs EXCEPT ![pending] = [regs[pending] EXCEPT !.cancelled = TRUE]]
        BY <1>5 DEF CancelRegistration
    <2>2. QED
        BY <1>1, <1>4, <1>5, <2>1 DEF CancelRegistration
<1>6. CASE RegistrationTimeout
    <2>1. regs' = [regs EXCEPT ![pending] = [regs[pending] EXCEPT !.expired = TRUE]]
        BY <1>6 DEF RegistrationTimeout
    <2>2. QED
        BY <1>1, <1>4, <1>6, <2>1 DEF RegistrationTimeout
<1>7. QED
    BY <1>3, <1>5, <1>6

LEMMA ContextInit == Init => ContextInv
<1> SUFFICES ASSUME Init PROVE ContextInv
    OBVIOUS
<1> USE DEF Init
<1>1. Inv /\ OutIsOut
    BY InvInit DEF SMInit, OutIsOut
<1>2. 0 \in 0 .. MaxRegs /\ 0 \in 0 .. MaxSessions /\ FirstUsers \subseteq People
    BY ContextAssumption, SessionAssumption
<1>3. BridgeOK
    BY <1>2 DEF BridgeOK, BridgeRecord, Places, Carrying
<1>4. Registrants = {}
    BY DEF Registrants, Idle, Registering
<1>5. JobsOK
    BY <1>2, <1>4, FS_EmptySet, ContextAssumption DEF JobsOK, JobRecord, Idle
<1>6. QED
    BY <1>1, <1>3, <1>5 DEF ContextInv

LEMMA ContextStep == ContextInv /\ [Next]_vars => ContextInv'
<1> SUFFICES ASSUME ContextInv, [Next]_vars PROVE ContextInv'
    OBVIOUS
<1>1. Inv' /\ OutIsOut'
    BY StepSM, InvStep, OutStep DEF ContextInv
<1>2. CASE BridgeStep
    BY <1>1, <1>2, BridgeStepTypes, RegsTypes DEF ContextInv
<1>3. CASE \E p \in Pool : \/ RequestStep(p)
                           \/ \E op \in Ops : Request(p, op)
                           \/ PanelRequest(p)
    <2>1. PICK p \in Pool : \/ RequestStep(p)
                            \/ \E op \in Ops : Request(p, op)
                            \/ PanelRequest(p)
        BY <1>3
    <2>2. JobsOK'
        BY <2>1, RequestStepTypes, ArrivalTypes
    <2>3. UNCHANGED <<taps, bridge, enrolled>> /\ told' \in {told, "session_ended"}
        BY <2>1 DEF RequestStep, contextVars, RequestHas, RequestCurrent, RequestTouch,
                    RequestBody, EndReply, RegisterName, PanelReply, RequestRaised,
                    Request, PanelRequest
    <2>4. BridgeOK'
        BY <2>3 DEF ContextInv, BridgeOK
    <2>5. QED
        BY <1>1, <2>2, <2>4 DEF ContextInv
<1>4. CASE \E e \in People \cup {Unplugged} : ReaderEvent(e)
    <2>1. PICK e \in People \cup {Unplugged} : ReaderEvent(e)
        BY <1>4
    <2>2. taps' \in Seq(People \cup {Unplugged})
        BY <2>1, AppendProperties DEF ReaderEvent, ContextInv, BridgeOK
    <2>3. BridgeOK' /\ JobsOK'
        BY <2>1, <2>2 DEF ReaderEvent, ContextInv, BridgeOK, JobsOK, Registrants
    <2>4. QED
        BY <1>1, <2>3 DEF ContextInv
<1>5. CASE CancelRegistration \/ RegistrationTimeout
    <2>1. BridgeOK'
        BY <1>5 DEF CancelRegistration, RegistrationTimeout, ContextInv, BridgeOK
    <2>2. QED
        BY <1>1, <1>5, <2>1, RegsTypes DEF ContextInv
<1>6. CASE SessionTimeout \/ UNCHANGED vars
    BY <1>1, <1>6 DEF SessionTimeout, vars, contextVars, ContextInv, BridgeOK, JobsOK,
                      Registrants
<1>7. QED
    BY <1>2, <1>3, <1>4, <1>5, <1>6 DEF Next

LEMMA ContextInvariance == Spec => []ContextInv
    BY ContextInit, ContextStep, PTL DEF Spec

\* The context, the bridge and the requests keep their types and bounds.
THEOREM TypeCorrect == Spec => []TypeOK
<1>1. ContextInv => TypeOK
    BY CountTypes DEF ContextInv, TypeOK, BridgeOK, BridgeRecord, JobsOK, JobRecord,
                      RegRecord, Inv
<1>2. QED
    BY <1>1, ContextInvariance, PTL

\* The bridge and the endpoints call the session manager as SessionManager
\* has it: whatever holds of any callers holds of the server.
THEOREM ImplementsSessionManager == Spec => SMSpec
<1>1. Init => SMInit
    BY DEF Init
<1>2. ContextInv /\ [Next]_vars => [SMNext]_smVars
    BY StepSM
<1>3. QED
    BY <1>1, <1>2, ContextInvariance, PTL DEF Spec, SMSpec

\* Neither the bridge nor a request is given a session that had expired when
\* it asked.
THEOREM ServerNeverStale == Spec => []NoStaleResult
    BY ImplementsSessionManager, NeverStale, PTL

(***************************************************************************)
(* Registrations.  One that is pending has enrolled nobody and is not      *)
(* cancelled; the one the bridge is enrolling a card for is no longer      *)
(* pending, so no cancellation reaches it, and none has.                   *)
(***************************************************************************)
Untouched(r) == regs[r].cards = {} /\ ~regs[r].cancelled

OneCard(r) == regs[r].cards = {} \/ \E c \in People : regs[r].cards = {c}

RegInv ==
    /\ \A r \in 1 .. Len(regs) :
          /\ OneCard(r)
          /\ regs[r].cancelled => regs[r].cards = {}
    /\ pending # 0 => Untouched(pending)
    /\ bridge.pend <= Len(regs)
    /\ bridge.at = "enroll" =>
          /\ bridge.pend # 0
          /\ bridge.pend # pending
          /\ Untouched(bridge.pend)

LEMMA RegInit == Init => RegInv
    BY DEF Init, RegInv

\* A step that leaves the registrations alone and enters no enrolment.
LEMMA RegSame ==
    ASSUME RegInv, UNCHANGED <<regs, pending>>, bridge'.pend \in {0, bridge.pend},
           bridge'.at = "enroll" => bridge' = bridge,
           Len(regs) \in Nat
    PROVE  RegInv'
    BY DEF RegInv, OneCard, Untouched

LEMMA RegBridge == ASSUME ContextInv, RegInv, BridgeStep PROVE RegInv'
<1>1. /\ Len(regs) \in Nat /\ pending \in 0 .. Len(regs)
      /\ regs \in Seq(RegRecord)
      /\ bridge \in BridgeRecord
    BY DEF ContextInv, JobsOK, BridgeOK
<1>2. ASSUME NextRound
      PROVE  bridge'.pend = 0 /\ bridge'.at = "top"
    BY <1>1, <1>2 DEF NextRound, BridgeRecord
<1>3. ASSUME NEW place, BridgeTo(place)
      PROVE  bridge'.pend = bridge.pend /\ bridge'.at = place
    BY <1>1, <1>3 DEF BridgeTo, BridgeRecord
<1>4. CASE SMStep(Loop) /\ UNCHANGED contextVars
    BY <1>1, <1>4, RegSame DEF contextVars
<1>5. CASE BridgeTop \/ BridgeTap \/ TapHas \/ TapCurrent \/ TapEnd \/ Authenticate
           \/ Login \/ UnplugHas \/ UnplugEnd \/ BridgeRaised
    <2>1. /\ UNCHANGED <<regs, pending>>
          /\ \/ NextRound
             \/ \E place : place # "enroll" /\ BridgeTo(place)
        BY <1>5 DEF BridgeTop, BridgeTap, TapHas, TapCurrent, TapEnd, Authenticate,
                    Login, UnplugHas, UnplugEnd, BridgeRaised, BridgeDone
    <2>2. QED
        BY <1>1, <1>2, <1>3, <2>1, RegSame
<1>6. CASE BridgeTopHas
    <2>1. bridge'.pend = bridge.pend /\ bridge'.at = "wait"
        BY <1>1, <1>6 DEF BridgeTopHas, BridgeRecord
    <2>2. QED
        BY <1>1, <1>6, <2>1, RegSame DEF BridgeTopHas
<1>7. CASE BridgePoll
    <2>1. CASE bridge' = [bridge EXCEPT !.at = "tap", !.card = Head(taps)]
        <3>1. bridge'.pend = bridge.pend /\ bridge'.at = "tap"
            BY <1>1, <2>1 DEF BridgeRecord
        <3>2. QED
            BY <1>1, <1>7, <3>1, RegSame DEF BridgePoll
    <2>2. CASE NextRound \/ BridgeTo("unplugHas")
        BY <1>1, <1>2, <1>3, <1>7, <2>2, RegSame DEF BridgePoll
    <2>3. QED
        BY <1>7, <2>1, <2>2 DEF BridgePoll
<1>8. CASE RegistrationTap
    <2>1. pending' = 0 /\ regs' = regs
        BY <1>8 DEF RegistrationTap
    <2>2. CASE bridge'.at # "enroll" /\ bridge'.pend \in {0, bridge.pend}
        BY <1>1, <2>1, <2>2 DEF RegInv, OneCard, Untouched
    <2>3. CASE pending # 0 /\ bridge' = [bridge EXCEPT !.at = "enroll", !.pend = pending]
        <3>1. bridge'.pend = pending
            BY <1>1, <2>3 DEF BridgeRecord
        <3>2. QED
            BY <1>1, <2>1, <2>3, <3>1 DEF RegInv, OneCard, Untouched
    <2>4. QED
        BY <1>2, <1>3, <1>8, <2>2, <2>3 DEF RegistrationTap
<1>9. CASE Enroll
    <2>1. /\ bridge.at = "enroll" /\ bridge.card \in People
          /\ bridge'.pend = 0 /\ bridge'.at = "top" /\ pending' = pending
        BY <1>2, <1>9 DEF Enroll, At, ContextInv, BridgeOK, Carrying
    <2>2. CASE UNCHANGED regs
        BY <1>1, <2>1, <2>2, RegSame
    <2>3. CASE regs' = [regs EXCEPT ![bridge.pend].cards = @ \cup {bridge.card}]
        <3>1. bridge.pend \in 1 .. Len(regs) /\ Untouched(bridge.pend)
            BY <1>1, <2>1 DEF RegInv, BridgeRecord
        <3> DEFINE reg == [regs[bridge.pend] EXCEPT !.cards = @ \cup {bridge.card}]
        <3>2. regs[bridge.pend] \in RegRecord
            BY <1>1, <3>1, ElementOfSeq
        <3>3. /\ reg.cards = {bridge.card} /\ ~reg.cancelled
              /\ reg \in RegRecord
            BY <2>1, <3>1, <3>2 DEF RegRecord, Untouched
        <3>4. regs' = [regs EXCEPT ![bridge.pend] = reg]
            BY <2>3
        <3> HIDE DEF reg
        <3>5. /\ Len(regs') = Len(regs)
              /\ \A r \in 1 .. Len(regs) :
                    regs'[r] = IF r = bridge.pend THEN reg ELSE regs[r]
            BY <1>1, <3>1, <3>3, <3>4, ExceptSeq
        <3>6. bridge.pend # pending
            BY <2>1 DEF RegInv
        <3>7. QED
            BY <1>1, <2>1, <3>1, <3>3, <3>5, <3>6 DEF RegInv, OneCard, Untouched
    <2>4. QED
        BY <1>9, <2>2, <2>3 DEF Enroll
<1>10. QED
    BY <1>4, <1>5, <1>6, <1>7, <1>8, <1>9 DEF BridgeStep

\* A new registration is another one than that in the bridge's hands.
LEMMA RegStarts ==
    ASSUME ContextInv, RegInv, StartRegistration, UNCHANGED bridge PROVE RegInv'
<1>1. /\ regs \in Seq(RegRecord) /\ NewRegistration \in RegRecord
      /\ bridge.pend \in Nat /\ Len(regs) \in Nat
    BY DEF ContextInv, JobsOK, BridgeOK, BridgeRecord, NewRegistration, RegRecord
<1>2. /\ Len(regs') = Len(regs) + 1
      /\ regs'[Len(regs) + 1] = NewRegistration
      /\ \A r \in 1 .. Len(regs) : regs'[r] = regs[r]
    BY <1>1, AppendProperties DEF StartRegistration
<1>3. pending' = Len(regs) + 1
    BY DEF StartRegistration
<1>4. NewRegistration.cards = {} /\ ~NewRegistration.cancelled
    BY DEF NewRegistration
<1>5. QED
    BY <1>1, <1>2, <1>3, <1>4 DEF RegInv, OneCard, Untouched

\* The cancellation and the clock change the pending one only.
LEMMA RegPending ==
    ASSUME ContextInv, RegInv, CancelRegistration \/ RegistrationTimeout PROVE RegInv'
<1>1. /\ regs \in Seq(RegRecord) /\ pending \in 1 .. Len(regs)
      /\ bridge.pend \in Nat /\ bridge' = bridge
    BY DEF ContextInv, JobsOK, BridgeOK, BridgeRecord, CancelRegistration,
           RegistrationTimeout
<1>2. regs[pending] \in RegRecord
    BY <1>1, ElementOfSeq
<1>3. regs[pending].cards = {} /\ ~regs[pending].cancelled
    <2>1. pending # 0
        BY <1>1
    <2>2. QED
        BY <2>1 DEF RegInv, Untouched
<1>4. ASSUME NEW reg \in RegRecord, reg.cards = {}, regs' = [regs EXCEPT ![pending] = reg],
             pending' = 0 \/ (pending' = pending /\ ~reg.cancelled)
      PROVE  RegInv'
    <2>1. /\ Len(regs') = Len(regs)
          /\ \A r \in 1 .. Len(regs) :
                regs'[r] = IF r = pending THEN reg ELSE regs[r]
        BY <1>1, <1>4, ExceptSeq
    <2>2. QED
        BY <1>1, <1>4, <2>1 DEF RegInv, OneCard, Untouched
<1>5. CASE CancelRegistration
    <2> DEFINE reg == [regs[pending] EXCEPT !.cancelled = TRUE]
    <2>1. reg \in RegRecord /\ reg.cards = {}
        BY <1>2, <1>3 DEF RegRecord
    <2>2. regs' = [regs EXCEPT ![pending] = reg] /\ pending' = 0
        BY <1>5 DEF CancelRegistration
    <2> HIDE DEF reg
    <2>3. QED
        BY <1>4, <2>1, <2>2
<1>6. CASE RegistrationTimeout
    <2> DEFINE reg == [regs[pending] EXCEPT !.expired = TRUE]
    <2>1. reg \in RegRecord /\ reg.cards = {} /\ ~reg.cancelled
        BY <1>2, <1>3 DEF RegRecord
    <2>2. regs' = [regs EXCEPT ![pending] = reg] /\ pending' = pending
        BY <1>6 DEF RegistrationTimeout
    <2> HIDE DEF reg
    <2>3. QED
        BY <1>4, <2>1, <2>2
<1>7. QED
    BY <1>5, <1>6

LEMMA RegStep == ContextInv /\ RegInv /\ [Next]_vars => RegInv'
<1> SUFFICES ASSUME ContextInv, RegInv, [Next]_vars PROVE RegInv'
    OBVIOUS
<1>1. Len(regs) \in Nat
    BY DEF ContextInv, JobsOK
<1>2. ASSUME UNCHANGED <<regs, pending, bridge>> PROVE RegInv'
    BY <1>1, <1>2, RegSame
<1>3. ASSUME NEW p \in Pool, RequestStep(p) PROVE RegInv'
    <2>1. UNCHANGED bridge /\ (StartRegistration \/ UNCHANGED <<regs, pending>>)
        BY <1>3 DEF RequestStep, contextVars, RequestHas, RequestCurrent, RequestTouch,
                    RequestBody, EndReply, RegisterName, PanelReply, RequestRaised
    <2>2. QED
        BY <1>2, <2>1, RegStarts
<1>4. ASSUME NEW p \in Pool, (\E op \in Ops : Request(p, op)) \/ PanelRequest(p)
      PROVE  RegInv'
    BY <1>2, <1>4 DEF Request, PanelRequest
<1>5. CASE (\E e \in People \cup {Unplugged} : ReaderEvent(e)) \/ SessionTimeout
           \/ UNCHANGED vars
    BY <1>2, <1>5 DEF ReaderEvent, SessionTimeout, vars, contextVars
<1>6. QED
    BY <1>3, <1>4, <1>5, RegBridge, RegPending DEF Next

LEMMA RegInvariance == Spec => []RegInv
    BY RegInit, RegStep, ContextInvariance, PTL DEF Spec

\* A registration enrols one card at most, for any number of registrations,
\* cards and threads.
THEOREM EnrolsOnce == Spec => []RegistrationOnce
<1>1. RegInv => RegistrationOnce
    <2> SUFFICES ASSUME RegInv, NEW r \in 1 .. Len(regs)
                 PROVE  Cardinality(regs[r].cards) <= 1
        BY DEF RegistrationOnce
    <2>1. OneCard(r)
        BY DEF RegInv
    <2>2. CASE regs[r].cards = {}
        BY <2>2, FS_EmptySet
    <2>3. CASE \E c \in People : regs[r].cards = {c}
        <3>1. PICK c \in People : regs[r].cards = {c}
            BY <2>3
        <3>2. Cardinality({c}) = 1
            BY FS_Singleton
        <3>3. QED
            BY <3>1, <3>2
    <2>4. QED
        BY <2>1, <2>2, <2>3 DEF OneCard
<1>2. QED
    BY <1>1, RegInvariance, PTL

\* A registration whose cancellation has been confirmed enrols no card.
THEOREM CancelledStaysOut == Spec => []CancelKeepsOut
<1>1. RegInv => CancelKeepsOut
    BY DEF RegInv, CancelKeepsOut
<1>2. QED
    BY <1>1, RegInvariance, PTL

(***************************************************************************)
(* The kiosk.  Only the bridge and the panel start sessions, of enrolled   *)
(* people, and the bridge only at its login.  So between the bridge's      *)
(* check that there is no session and the start of one nobody but the      *)
(* panel can have started one: the requests only clear what is current.    *)
(***************************************************************************)
Vacant == current = 0 \/ who[current] \in Panel

Starting == {"endLook", "endLog", "endClear", "store"}

EnteringInv ==
    /\ bridge.card \in enrolled
    /\ \/ run[Loop].at \in Starting /\ run[Loop].user = bridge.card
       \/ run[Loop].at \in {"back", "raised"}
    /\ ~Returned(Loop) => Vacant

KioskInv ==
    /\ \A s \in 1 .. Len(who) : who[s] \in enrolled
    /\ \A t \in Threads : run[t].user \in enrolled \cup {NoPerson}
    /\ \A p \in Pool : run[p].user \in Panel \cup {NoPerson}
    /\ bridge.at # "login" => run[Loop].user = NoPerson
    /\ bridge.at = "login" => EnteringInv
    /\ bridge.at = "tapHas" /\ run[Loop].at \in {"out", "back"} /\ run[Loop].got = 0
          => Vacant
    /\ bridge.at = "auth" => Vacant

LEMMA KioskInvInit == Init => KioskInv
    BY ContextAssumption DEF Init, SMInit, KioskInv, Out, Pool

\* What a step of a method of the manager does to its thread.
LEMMA MethodFrame ==
    ASSUME Inv, NEW t \in Threads, SMStep(t)
    PROVE  \E frame :
              /\ run' = [run EXCEPT ![t] = frame]
              /\ frame.user \in {run[t].user, NoPerson}
              /\ run[t].at \in Starting =>
                    \/ frame.at \in Starting /\ frame.user = run[t].user
                    \/ frame.at \in {"back", "raised"}
              /\ \/ Store(t) /\ frame.at = "back"
                 \/ /\ who' = who /\ current' \in {0, current}
                    /\ run[t].at \in Starting /\ run[t].user # NoPerson
                          => frame.at # "back"
                    /\ frame.at \in {"out", "back"} /\ frame.got = 0 => current' = 0
<1>1. run[t] \in Frame /\ run \in [Threads -> Frame]
    BY DEF Inv, SMTypeOK
<1>2. ASSUME NEW got, Returns(t, got)
      PROVE  \E frame : /\ run' = [run EXCEPT ![t] = frame]
                        /\ frame.user = NoPerson /\ frame.at = "back" /\ frame.got = got
    <2>1. /\ Back(t, got).user = NoPerson /\ Back(t, got).at = "back"
          /\ Back(t, got).got = got
        BY DEF Back
    <2>2. QED
        BY <1>2, <2>1 DEF Returns
<1>3. ASSUME NEW at, GoTo(t, at), at \notin {"out", "back"}
      PROVE  \E frame : /\ run' = [run EXCEPT ![t] = frame]
                        /\ frame.user = run[t].user /\ frame.at = at
    <2>1. /\ [run[t] EXCEPT !.at = at].user = run[t].user
          /\ [run[t] EXCEPT !.at = at].at = at
        BY <1>1 DEF Frame
    <2>2. QED
        BY <1>3, <2>1 DEF GoTo
<1>4. ASSUME NEW at, at \notin {"out", "back"},
             run' = [run EXCEPT ![t].at = at, ![t].obj = current]
      PROVE  \E frame : /\ run' = [run EXCEPT ![t] = frame]
                        /\ frame.user = run[t].user /\ frame.at = at
    <2> DEFINE frame == [run[t] EXCEPT !.at = at, !.obj = current]
    <2>1. frame.user = run[t].user /\ frame.at = at
        BY <1>1 DEF Frame
    <2>2. run' = [run EXCEPT ![t] = frame]
        BY <1>4
    <2> HIDE DEF frame
    <2>3. QED
        BY <1>4, <2>1, <2>2
<1>5. ASSUME Raises(t)
      PROVE  \E frame : /\ run' = [run EXCEPT ![t] = frame]
                        /\ frame.user = NoPerson /\ frame.at = "raised"
    <2>1. /\ [Out EXCEPT !.at = "raised"].user = NoPerson
          /\ [Out EXCEPT !.at = "raised"].at = "raised"
        BY DEF Out
    <2>2. QED
        BY <1>5, <2>1 DEF Raises
<1> USE DEF Starting
<1>6. CASE Look(t)
    BY <1>2, <1>4, <1>6 DEF Look, sessionVars
<1>7. CASE Judge(t)
    BY <1>2, <1>3, <1>7 DEF Judge, sessionVars
<1>8. CASE Log(t) \/ EndLog(t)
    BY <1>3, <1>5, <1>8 DEF Log, EndLog, sessionVars
<1>9. CASE Clear(t) \/ EndClear(t)
    BY <1>2, <1>3, <1>9 DEF Clear, EndClear, Ended
<1>10. CASE EndLook(t)
    BY <1>2, <1>3, <1>4, <1>10 DEF EndLook, Ended, sessionVars
<1>11. CASE Store(t)
    BY <1>2, <1>11 DEF Store
<1>12. QED
    BY <1>6, <1>7, <1>8, <1>9, <1>10, <1>11 DEF SMStep

LEMMA CallsFrame ==
    ASSUME NEW t \in Threads, CallCurrentSession(t) \/ CallEndSession(t)
    PROVE  \E frame : /\ run' = [run EXCEPT ![t] = frame]
                      /\ frame.user = NoPerson /\ frame.at \notin {"out", "back"}
<1>1. CASE CallCurrentSession(t)
    <2> DEFINE frame == [Out EXCEPT !.at = "look",
                                    !.stale = IF current \in idle THEN current ELSE 0]
    <2>1. frame.user = NoPerson /\ frame.at = "look"
        BY DEF Out
    <2>2. run' = [run EXCEPT ![t] = frame]
        BY <1>1 DEF CallCurrentSession, Enter
    <2> HIDE DEF frame
    <2>3. QED
        BY <2>1, <2>2
<1>2. CASE CallEndSession(t)
    <2>1. /\ [Out EXCEPT !.at = "endLook"].user = NoPerson
          /\ [Out EXCEPT !.at = "endLook"].at = "endLook"
        BY DEF Out
    <2>2. QED
        BY <1>2, <2>1 DEF CallEndSession, Enter
<1>3. QED
    BY <1>1, <1>2

LEMMA StartsFrame ==
    ASSUME NEW t \in Threads, NEW u, CallStartSession(t, u)
    PROVE  \E frame : /\ run' = [run EXCEPT ![t] = frame]
                      /\ frame.user = u /\ frame.at = "endLook"
<1>1. /\ [Out EXCEPT !.at = "endLook", !.user = u].user = u
      /\ [Out EXCEPT !.at = "endLook", !.user = u].at = "endLook"
    BY DEF Out
<1>2. QED
    BY <1>1 DEF CallStartSession, Enter

\* Whose session is stored.
LEMMA Stores ==
    ASSUME ContextInv, KioskInv, NEW t \in Threads, Store(t)
    PROVE  /\ Len(who') = Len(who) + 1 /\ Len(who) \in Nat
           /\ current' = Len(who) + 1
           /\ who'[current'] = run[t].user
           /\ \A s \in 1 .. Len(who) : who'[s] = who[s]
           /\ run[t].user \in enrolled /\ run[t].user \in People
           /\ t \in Pool => run[t].user \in Panel
           /\ t = Loop => bridge.at = "login" /\ run[t].user = bridge.card
<1>1. run[t].user \in People /\ run[t].user # NoPerson /\ who \in Seq(People)
    BY SessionAssumption DEF ContextInv, Inv, Holds, SMTypeOK, Store
<1>2. who' = Append(who, run[t].user) /\ current' = Len(who) + 1
    BY DEF Store
<1>3. /\ Len(who') = Len(who) + 1 /\ Len(who) \in Nat
      /\ who'[Len(who) + 1] = run[t].user
      /\ \A s \in 1 .. Len(who) : who'[s] = who[s]
    BY <1>1, <1>2, AppendProperties
<1>4. t = Loop => bridge.at = "login" /\ run[t].user = bridge.card
    BY <1>1 DEF KioskInv, EnteringInv, Store
<1>5. QED
    BY <1>1, <1>2, <1>3, <1>4 DEF KioskInv

\* A step of a thread of the pool in which it starts no session but the panel's.
LEMMA PoolFrame ==
    ASSUME ContextInv, KioskInv, NEW p \in Pool, NEW frame,
           run' = [run EXCEPT ![p] = frame],
           frame.user \in (Panel \cap enrolled) \cup {NoPerson},
           UNCHANGED <<bridge, enrolled>>,
           Store(p) \/ (who' = who /\ current' \in {0, current})
    PROVE  KioskInv'
<1>1. /\ Loop \in Threads /\ p \in Threads /\ p # Loop
      /\ run \in [Threads -> Frame]
    BY ContextAssumption DEF ContextInv, Inv, SMTypeOK, Pool
<1>2. /\ run'[Loop] = run[Loop] /\ run'[p] = frame
      /\ \A t \in Threads \ {p} : run'[t] = run[t]
    BY <1>1
<1>3. Vacant => Vacant'
    <2>1. CASE Store(p)
        BY <1>1, <2>1, Stores DEF Vacant
    <2>2. CASE who' = who /\ current' \in {0, current}
        BY <2>2 DEF Vacant
    <2>3. QED
        BY <2>1, <2>2
<1>4. \A s \in 1 .. Len(who') : who'[s] \in enrolled'
    <2>1. CASE Store(p)
        BY <1>1, <2>1, Stores DEF KioskInv
    <2>2. CASE who' = who
        BY <2>2 DEF KioskInv
    <2>3. QED
        BY <2>1, <2>2
<1>5. EnteringInv => EnteringInv'
    BY <1>2, <1>3 DEF EnteringInv, Returned
<1>6. \A t \in Threads : run'[t].user \in enrolled' \cup {NoPerson}
    BY <1>2 DEF KioskInv
<1>7. \A q \in Pool : run'[q].user \in Panel \cup {NoPerson}
    BY <1>2 DEF KioskInv, Pool
<1>8. QED
    BY <1>2, <1>3, <1>4, <1>5, <1>6, <1>7 DEF KioskInv

\* The bridge goes on with its own thread only, in a call or outside.
LEMMA BridgeKiosk == ASSUME ContextInv, KioskInv, BridgeStep PROVE KioskInv'
<1>1. /\ Loop \in Threads /\ Loop \notin Pool
      /\ run \in [Threads -> Frame]
      /\ bridge \in BridgeRecord /\ Inv
    BY ContextAssumption DEF ContextInv, Inv, SMTypeOK, BridgeOK, Pool
<1>2. ASSUME NEW frame, run' = [run EXCEPT ![Loop] = frame],
             frame.user \in enrolled' \cup {NoPerson}, enrolled \subseteq enrolled',
             Store(Loop) \/ who' = who
      PROVE  /\ run'[Loop] = frame
             /\ \A s \in 1 .. Len(who') : who'[s] \in enrolled'
             /\ \A t \in Threads : run'[t].user \in enrolled' \cup {NoPerson}
             /\ \A p \in Pool : run'[p].user \in Panel \cup {NoPerson}
    <2>1. run'[Loop] = frame /\ \A t \in Threads \ {Loop} : run'[t] = run[t]
        BY <1>1, <1>2
    <2>2. \A s \in 1 .. Len(who') : who'[s] \in enrolled'
        <3>1. CASE Store(Loop)
            BY <1>1, <1>2, <3>1, Stores DEF KioskInv
        <3>2. CASE who' = who
            BY <1>2, <3>2 DEF KioskInv
        <3>3. QED
            BY <1>2, <3>1, <3>2
    <2>3. QED
        BY <1>2, <2>1, <2>2 DEF KioskInv, Pool
<1>3. ASSUME NEW place, BridgeTo(place)
      PROVE  bridge'.at = place /\ bridge'.card = bridge.card
    BY <1>1, <1>3 DEF BridgeTo, BridgeRecord
<1>4. ASSUME NextRound PROVE bridge'.at = "top"
    BY <1>1, <1>4 DEF NextRound, BridgeRecord
<1>5. CASE SMStep(Loop) /\ UNCHANGED contextVars
    <2>1. PICK frame :
              /\ run' = [run EXCEPT ![Loop] = frame]
              /\ frame.user \in {run[Loop].user, NoPerson}
              /\ run[Loop].at \in Starting =>
                    \/ frame.at \in Starting /\ frame.user = run[Loop].user
                    \/ frame.at \in {"back", "raised"}
              /\ \/ Store(Loop) /\ frame.at = "back"
                 \/ /\ who' = who /\ current' \in {0, current}
                    /\ run[Loop].at \in Starting /\ run[Loop].user # NoPerson
                          => frame.at # "back"
                    /\ frame.at \in {"out", "back"} /\ frame.got = 0 => current' = 0
        BY <1>1, <1>5, MethodFrame
    <2>2. /\ UNCHANGED <<bridge, enrolled>>
          /\ run[Loop].at \notin {"back", "raised"}
        BY <1>5 DEF contextVars, SMStep, Look, Judge, Log, Clear, EndLook,
                    EndLog, EndClear, Store
    <2>3. frame.user \in enrolled \cup {NoPerson}
        BY <1>1, <2>1 DEF KioskInv
    <2>4. /\ run'[Loop] = frame
          /\ \A s \in 1 .. Len(who') : who'[s] \in enrolled'
          /\ \A t \in Threads : run'[t].user \in enrolled' \cup {NoPerson}
          /\ \A p \in Pool : run'[p].user \in Panel \cup {NoPerson}
        BY <1>2, <2>1, <2>2, <2>3
    <2>5. bridge.at # "login" => frame.user = NoPerson
        BY <2>1 DEF KioskInv
    <2>6. CASE Store(Loop) /\ frame.at = "back"
        <3>1. bridge.at = "login"
            BY <1>1, <2>6, Stores
        <3>2. QED
            BY <2>2, <2>4, <2>6, <3>1 DEF KioskInv, EnteringInv, Returned
    <2>7. CASE who' = who /\ current' \in {0, current}
               /\ (frame.at \in {"out", "back"} /\ frame.got = 0 => current' = 0)
        <3>1. Vacant => Vacant'
            BY <2>7 DEF Vacant
        <3>2. bridge.at = "login" => EnteringInv'
            BY <2>1, <2>2, <2>4, <3>1 DEF KioskInv, EnteringInv, Returned
        <3>3. current' = 0 => Vacant'
            BY DEF Vacant
        <3>4. QED
            BY <2>2, <2>4, <2>5, <2>7, <3>1, <3>2, <3>3 DEF KioskInv
    <2>8. QED
        BY <2>1, <2>6, <2>7
<1>6. ASSUME bridge'.at \notin {"tapHas", "auth", "login"}, who' = who, enrolled' = enrolled,
             \E frame : run' = [run EXCEPT ![Loop] = frame] /\ frame.user = NoPerson
      PROVE  KioskInv'
    BY <1>2, <1>6 DEF KioskInv
<1>7. ASSUME bridge'.at \notin {"tapHas", "auth", "login"}, bridge.at # "login",
             run' = run, who' = who, enrolled \subseteq enrolled'
      PROVE  KioskInv'
    BY <1>7 DEF KioskInv
<1>8. ASSUME CallCurrentSession(Loop) \/ CallEndSession(Loop)
      PROVE  \E frame : /\ run' = [run EXCEPT ![Loop] = frame]
                        /\ frame.user = NoPerson /\ frame.at \notin {"out", "back"}
    BY <1>1, <1>8, CallsFrame
<1>9. ASSUME Leave(Loop)
      PROVE  run' = [run EXCEPT ![Loop] = Out] /\ Out.user = NoPerson
    BY <1>9 DEF Leave, Out
<1>10. CASE BridgeTop \/ BridgeTopHas
    <2>1. bridge'.at \in {"topHas", "wait"}
        BY <1>1, <1>3, <1>10 DEF BridgeTop, BridgeTopHas, BridgeRecord
    <2>2. QED
        BY <1>6, <1>8, <1>9, <1>10, <2>1 DEF BridgeTop, BridgeTopHas, sessionVars
<1>11. CASE BridgePoll
    <2>1. bridge.at = "wait" /\ who' = who /\ enrolled' = enrolled
        BY <1>11 DEF BridgePoll, At, sessionVars
    <2>2. CASE BridgeTo("unplugHas") /\ CallCurrentSession(Loop)
        BY <1>3, <1>6, <1>8, <2>1, <2>2
    <2>3. CASE NextRound /\ run' = run
        BY <1>4, <1>7, <2>1, <2>3
    <2>4. CASE bridge' = [bridge EXCEPT !.at = "tap", !.card = Head(taps)] /\ run' = run
        <3>1. bridge'.at = "tap"
            BY <1>1, <2>4 DEF BridgeRecord
        <3>2. QED
            BY <1>7, <2>1, <2>4, <3>1
    <2>5. QED
        BY <1>11, <2>2, <2>3, <2>4 DEF BridgePoll
<1>12. CASE BridgeTap
    <2>1. bridge.at = "tap" /\ who' = who /\ enrolled' = enrolled
        BY <1>12 DEF BridgeTap, At, sessionVars
    <2>2. CASE BridgeTo("regTap") /\ run' = run
        BY <1>3, <1>7, <2>1, <2>2
    <2>3. CASE BridgeTo("tapHas") /\ CallCurrentSession(Loop)
        <3>1. PICK frame : /\ run' = [run EXCEPT ![Loop] = frame]
                           /\ frame.user = NoPerson /\ frame.at \notin {"out", "back"}
            BY <1>8, <2>3
        <3>2. /\ run'[Loop] = frame /\ bridge'.at = "tapHas"
              /\ \A s \in 1 .. Len(who') : who'[s] \in enrolled'
              /\ \A t \in Threads : run'[t].user \in enrolled' \cup {NoPerson}
              /\ \A p \in Pool : run'[p].user \in Panel \cup {NoPerson}
            BY <1>2, <1>3, <2>1, <2>3, <3>1
        <3>3. QED
            BY <3>1, <3>2 DEF KioskInv
    <2>4. QED
        BY <1>12, <2>2, <2>3 DEF BridgeTap
<1>13. CASE RegistrationTap \/ Enroll
    <2>1. /\ bridge'.at \in {"dead", "top", "enroll"} /\ bridge.at # "login" /\ run' = run
          /\ who' = who
        <3>1. ASSUME bridge' = [bridge EXCEPT !.at = "enroll", !.pend = pending]
              PROVE  bridge'.at = "enroll"
            BY <1>1, <3>1 DEF BridgeRecord
        <3>2. QED
            BY <1>3, <1>4, <1>13, <3>1 DEF RegistrationTap, Enroll, At, smVars
    <2>2. enrolled \subseteq enrolled'
        BY <1>13 DEF RegistrationTap, Enroll
    <2>3. QED
        BY <1>7, <2>1, <2>2
<1>14. CASE TapHas
    <2>1. /\ bridge.at = "tapHas" /\ run[Loop].at \in {"out", "back"}
          /\ current' = current /\ who' = who /\ enrolled' = enrolled
        BY <1>14 DEF TapHas, At, Returned, sessionVars
    <2>2. CASE run[Loop].got = 0 /\ BridgeTo("auth") /\ Leave(Loop)
        <3>1. Vacant /\ Vacant'
            BY <2>1, <2>2 DEF KioskInv, Vacant
        <3>2. QED
            BY <1>2, <1>3, <1>9, <2>1, <2>2, <3>1 DEF KioskInv
    <2>3. CASE BridgeTo("tapCurrent") /\ CallCurrentSession(Loop)
        BY <1>3, <1>6, <1>8, <2>1, <2>3
    <2>4. QED
        BY <1>14, <2>2, <2>3 DEF TapHas
<1>15. CASE TapCurrent \/ TapEnd \/ Login \/ UnplugHas \/ UnplugEnd \/ BridgeRaised
    <2>1. who' = who /\ enrolled' = enrolled
        BY <1>15 DEF TapCurrent, TapEnd, Login, UnplugHas, UnplugEnd, BridgeRaised,
                     sessionVars
    <2>2. CASE Leave(Loop) /\ (NextRound \/ BridgeTo("dead"))
        BY <1>3, <1>4, <1>6, <1>9, <2>1, <2>2
    <2>3. CASE CallEndSession(Loop) /\ (BridgeTo("tapEnd") \/ BridgeTo("unplugEnd"))
        BY <1>3, <1>6, <1>8, <2>1, <2>3
    <2>4. QED
        BY <1>15, <2>2, <2>3
           DEF TapCurrent, TapEnd, Login, UnplugHas, UnplugEnd, BridgeRaised, BridgeDone
<1>16. CASE Authenticate
    <2>1. Vacant' /\ who' = who /\ enrolled' = enrolled
        BY <1>16 DEF Authenticate, At, KioskInv, Vacant, sessionVars
    <2>2. CASE /\ bridge.card \in enrolled
               /\ BridgeTo("login") /\ CallStartSession(Loop, bridge.card)
        <3>1. PICK frame : /\ run' = [run EXCEPT ![Loop] = frame]
                           /\ frame.user = bridge.card /\ frame.at = "endLook"
            BY <1>1, <2>2, StartsFrame
        <3>2. QED
            BY <1>2, <1>3, <2>1, <2>2, <3>1 DEF KioskInv, EnteringInv, Starting
    <2>3. CASE BridgeDone
        BY <1>4, <1>6, <1>9, <2>1, <2>3 DEF BridgeDone
    <2>4. QED
        BY <1>16, <2>2, <2>3 DEF Authenticate
<1>17. QED
    BY <1>5, <1>10, <1>11, <1>12, <1>13, <1>14, <1>15, <1>16 DEF BridgeStep

\* A request moves its own thread, and only the panel's starts a session.
LEMMA RequestKiosk ==
    ASSUME ContextInv, KioskInv, NEW p \in Pool,
           \/ RequestStep(p)
           \/ \E op \in Ops : Request(p, op)
           \/ "panel" \in Ops /\ PanelRequest(p)
    PROVE  KioskInv'
<1>1. /\ Loop \in Threads /\ p \in Threads /\ p # Loop
      /\ run \in [Threads -> Frame] /\ Inv
    BY ContextAssumption DEF ContextInv, Inv, SMTypeOK, Pool
<1>2. UNCHANGED <<bridge, enrolled>>
    BY DEF RequestStep, Request, PanelRequest, contextVars, RequestHas, RequestCurrent,
           RequestTouch, RequestBody, EndReply, RegisterName, PanelReply, RequestRaised
<1>3. CASE SMStep(p)
    <2>1. PICK frame :
              /\ run' = [run EXCEPT ![p] = frame]
              /\ frame.user \in {run[p].user, NoPerson}
              /\ Store(p) \/ (who' = who /\ current' \in {0, current})
        BY <1>1, <1>3, MethodFrame
    <2>2. run[p].user \in (Panel \cap enrolled) \cup {NoPerson}
        BY <1>1 DEF KioskInv
    <2>3. QED
        BY <1>2, <2>1, <2>2, PoolFrame
<1>4. CASE "panel" \in Ops /\ PanelRequest(p)
    <2>1. PICK frame : run' = [run EXCEPT ![p] = frame] /\ frame.user = PanelAdmin
        BY <1>1, <1>4, StartsFrame DEF PanelRequest
    <2>2. PanelAdmin \in Panel \cap enrolled
        BY <1>4 DEF PanelRequest, Panel
    <2>3. QED
        BY <1>2, <1>4, <2>1, <2>2, PoolFrame DEF PanelRequest, sessionVars
<1>5. CASE RequestTouch(p)
    <2>1. ASSUME NEW t \in Threads
          PROVE  /\ run'[t].at = run[t].at /\ run'[t].user = run[t].user
                 /\ run'[t].got = run[t].got
        <3>1. run[t] \in Frame
            BY <1>1
        <3>2. run'[t] \in {run[t], [run[t] EXCEPT !.stale = 0]}
            BY <1>5 DEF RequestTouch, Touch
        <3>3. QED
            BY <3>1, <3>2 DEF Frame
    <2>2. UNCHANGED <<current, who>>
        BY <1>5 DEF RequestTouch, Touch
    <2>3. QED
        BY <1>1, <1>2, <2>1, <2>2 DEF KioskInv, EnteringInv, Vacant, Returned, Pool
<1>6. CASE run' = run /\ UNCHANGED <<current, who>>
    BY <1>2, <1>6 DEF KioskInv, EnteringInv, Vacant, Returned
<1>7. ASSUME UNCHANGED <<current, who>>,
             Leave(p) \/ CallCurrentSession(p) \/ CallEndSession(p)
      PROVE  KioskInv'
    <2>1. \E frame : run' = [run EXCEPT ![p] = frame] /\ frame.user = NoPerson
        BY <1>1, <1>7, CallsFrame DEF Leave, Out
    <2>2. QED
        BY <1>2, <1>7, <2>1, PoolFrame
<1>8. CASE \E op \in Ops : Request(p, op)
    BY <1>7, <1>8 DEF Request, sessionVars
<1>9. CASE RequestHas(p) \/ RequestCurrent(p) \/ RequestBody(p)
    BY <1>6, <1>7, <1>9 DEF RequestHas, RequestCurrent, RequestBody, Reply, sessionVars
<1>10. CASE EndReply(p) \/ RegisterName(p) \/ PanelReply(p) \/ RequestRaised(p)
    BY <1>7, <1>10 DEF EndReply, RegisterName, PanelReply, RequestRaised, Reply,
                       sessionVars
<1>11. QED
    BY <1>3, <1>4, <1>5, <1>8, <1>9, <1>10 DEF RequestStep

LEMMA KioskInvStep == ContextInv /\ KioskInv /\ [Next]_vars => KioskInv'
<1> SUFFICES ASSUME ContextInv, KioskInv, [Next]_vars PROVE KioskInv'
    OBVIOUS
<1>1. CASE UNCHANGED <<current, who, run, bridge, enrolled>>
    BY <1>1 DEF KioskInv, EnteringInv, Vacant, Returned
<1>2. CASE (\E e \in People \cup {Unplugged} : ReaderEvent(e)) \/ CancelRegistration
           \/ SessionTimeout \/ RegistrationTimeout \/ UNCHANGED vars
    BY <1>1, <1>2 DEF ReaderEvent, CancelRegistration, SessionTimeout, TimePasses,
                      RegistrationTimeout, vars, smVars, contextVars
<1>3. QED
    BY <1>2, BridgeKiosk, RequestKiosk DEF Next

-----------------------------------------------------------------------------
(***************************************************************************)
(* The server implements Kiosk: each of its steps changes at most one of   *)
(* what the kiosk promises about.                                          *)
(***************************************************************************)
User == IF current = 0 THEN NoPerson ELSE who[current]
Entering == IF bridge.at = "login" /\ ~Returned(Loop) THEN bridge.card ELSE NoPerson
Open == {r \in 1 .. Len(regs) :
            r = pending \/ (bridge.at = "enroll" /\ r = bridge.pend)}

KioskStep == TheKiosk!Next \/ UNCHANGED TheKiosk!kioskVars

LEMMA KioskLogout ==
    ASSUME User' \in {User, NoPerson}, Len(regs') = Len(regs),
           UNCHANGED <<Entering, enrolled, Open>>
    PROVE  KioskStep
BY DEF KioskStep, TheKiosk!Next, TheKiosk!Logout, TheKiosk!kioskVars, User, Entering, Open

LEMMA KioskGiveUp ==
    ASSUME Entering' \in {Entering, NoPerson}, Len(regs') = Len(regs),
           UNCHANGED <<User, enrolled, Open>>
    PROVE  KioskStep
BY DEF KioskStep, TheKiosk!Next, TheKiosk!GiveUp, TheKiosk!kioskVars, User, Entering, Open

LEMMA KioskWithdraw ==
    ASSUME Open' \subseteq Open, Len(regs') = Len(regs),
           UNCHANGED <<User, Entering, enrolled>>
    PROVE  KioskStep
BY DEF KioskStep, TheKiosk!Next, TheKiosk!Withdraw, User, Entering, Open

LEMMA KioskAsk ==
    ASSUME Len(regs') = Len(regs) + 1, Len(regs') \in Open',
           Open' \subseteq Open \cup {Len(regs')},
           UNCHANGED <<User, Entering, enrolled>>
    PROVE  KioskStep
BY DEF KioskStep, TheKiosk!Next, TheKiosk!Ask, User, Entering, Open

LEMMA KioskTakeCard ==
    ASSUME NEW p \in People, p \in enrolled, Entering = NoPerson,
           User \in Panel \cup {NoPerson},
           Entering' = p, Len(regs') = Len(regs), UNCHANGED <<User, enrolled, Open>>
    PROVE  KioskStep
BY DEF KioskStep, TheKiosk!Next, TheKiosk!TakeCard, TheKiosk!Free, User, Entering, Open

LEMMA KioskLogin ==
    ASSUME Entering # NoPerson, User \in Panel \cup {NoPerson},
           User' = Entering, Entering' = NoPerson,
           Len(regs') = Len(regs), UNCHANGED <<enrolled, Open>>
    PROVE  KioskStep
BY DEF KioskStep, TheKiosk!Next, TheKiosk!Login, TheKiosk!Free, User, Entering, Open

LEMMA KioskPanelLogin ==
    ASSUME NEW p \in Panel, p \in enrolled, User' = p,
           Len(regs') = Len(regs), UNCHANGED <<Entering, enrolled, Open>>
    PROVE  KioskStep
BY DEF KioskStep, TheKiosk!Next, TheKiosk!PanelLogin, User, Entering, Open

LEMMA KioskEnrol ==
    ASSUME NEW p \in People, p \notin enrolled, enrolled' = enrolled \cup {p},
           NEW r \in Open, Open' = Open \ {r},
           Len(regs') = Len(regs), UNCHANGED <<User, Entering>>
    PROVE  KioskStep
BY DEF KioskStep, TheKiosk!Next, TheKiosk!Enrol, User, Entering, Open

LEMMA VacantFrees == ASSUME Vacant PROVE User \in Panel \cup {NoPerson}
BY DEF Vacant, User

\* A thread in a method of the manager: somebody is logged out, or logged in.
LEMMA KioskMethod ==
    ASSUME ContextInv, KioskInv, NEW t \in Threads, SMStep(t), UNCHANGED contextVars
    PROVE  KioskStep
<1>1. PICK frame :
          /\ run' = [run EXCEPT ![t] = frame]
          /\ frame.user \in {run[t].user, NoPerson}
          /\ run[t].at \in Starting =>
                \/ frame.at \in Starting /\ frame.user = run[t].user
                \/ frame.at \in {"back", "raised"}
          /\ \/ Store(t) /\ frame.at = "back"
             \/ /\ who' = who /\ current' \in {0, current}
                /\ run[t].at \in Starting /\ run[t].user # NoPerson
                      => frame.at # "back"
                /\ frame.at \in {"out", "back"} /\ frame.got = 0 => current' = 0
    BY MethodFrame DEF ContextInv
<1>2. /\ UNCHANGED <<bridge, enrolled, regs, pending>>
      /\ run[t].at \notin {"back", "raised"}
      /\ Len(regs') = Len(regs) /\ Open' = Open
    BY DEF contextVars, Open, SMStep, Look, Judge, Log, Clear, EndLook, EndLog, EndClear,
           Store
<1>3. run \in [Threads -> Frame] /\ Loop \in Threads
    BY ContextAssumption DEF ContextInv, Inv, SMTypeOK
<1>4. run'[t] = frame /\ (t # Loop => run'[Loop] = run[Loop])
    BY <1>1, <1>3
<1>5. CASE Store(t) /\ frame.at = "back"
    <2>1. /\ User' = run[t].user
          /\ run[t].user \in enrolled /\ run[t].user \in People
        BY <1>5, Stores DEF User
    <2>2. CASE t = Loop
        <3>1. bridge.at = "login" /\ run[t].user = bridge.card /\ Vacant
            BY <1>2, <1>5, <2>2, Stores DEF KioskInv, EnteringInv, Returned
        <3>2. Entering = bridge.card /\ Entering' = NoPerson
            BY <1>2, <1>4, <1>5, <2>2, <3>1 DEF Entering, Returned
        <3>3. QED
            BY <1>2, <2>1, <3>1, <3>2, VacantFrees, KioskLogin, SessionAssumption
    <2>3. CASE t # Loop
        <3>1. run[t].user \in Panel
            BY <1>5, <2>3, Stores DEF Pool
        <3>2. Entering' = Entering
            BY <1>2, <1>4, <2>3 DEF Entering, Returned
        <3>3. QED
            BY <1>2, <2>1, <3>1, <3>2, KioskPanelLogin
    <2>4. QED
        BY <2>2, <2>3
<1>6. CASE /\ who' = who /\ current' \in {0, current}
           /\ run[t].at \in Starting /\ run[t].user # NoPerson => frame.at # "back"
    <2>1. User' \in {User, NoPerson}
        BY <1>6 DEF User
    <2>2. Entering' = Entering
        <3>1. CASE t = Loop /\ bridge.at = "login"
            <4>1. run[t].at \in Starting /\ run[t].user = bridge.card
                BY <1>2, <3>1 DEF KioskInv, EnteringInv
            <4>2. bridge.card # NoPerson
                BY <3>1, SessionAssumption DEF KioskInv, EnteringInv, ContextInv, BridgeOK
            <4>3. QED
                BY <1>2, <1>4, <1>6, <3>1, <4>1, <4>2 DEF Entering, Returned
        <3>2. CASE t # Loop \/ bridge.at # "login"
            BY <1>2, <1>4, <3>2 DEF Entering, Returned
        <3>3. QED
            BY <3>1, <3>2
    <2>3. QED
        BY <1>2, <2>1, <2>2, KioskLogout
<1>7. QED
    BY <1>1, <1>5, <1>6

\* The bridge between its calls.
LEMMA KioskBridge ==
    ASSUME ContextInv, RegInv, KioskInv, BridgeStep PROVE KioskStep
<1>1. /\ Loop \in Threads /\ run \in [Threads -> Frame]
      /\ bridge \in BridgeRecord /\ Len(regs) \in Nat
      /\ pending \in 0 .. Len(regs)
    BY ContextAssumption DEF ContextInv, Inv, SMTypeOK, BridgeOK, JobsOK
<1>2. ASSUME NEW place, BridgeTo(place)
      PROVE  /\ bridge'.at = place /\ bridge'.card = bridge.card
             /\ bridge'.pend = bridge.pend
    BY <1>1, <1>2 DEF BridgeTo, BridgeRecord
<1>3. ASSUME NextRound PROVE bridge'.at = "top" /\ bridge'.pend = 0
    BY <1>1, <1>3 DEF NextRound, BridgeRecord
<1>4. ASSUME UNCHANGED <<current, who, enrolled, regs, pending>>,
             bridge'.at \notin {"login", "enroll"}
      PROVE  KioskStep
    <2>1. Entering' = NoPerson /\ User' = User
        BY <1>4 DEF Entering, User
    <2>2. CASE bridge.at = "enroll"
        <3>1. Entering = NoPerson /\ Open' \subseteq Open
            BY <1>4, <2>2 DEF Entering, Open
        <3>2. QED
            BY <1>4, <2>1, <3>1, KioskWithdraw
    <2>3. CASE bridge.at # "enroll"
        <3>1. Open' = Open
            BY <1>4, <2>3 DEF Open
        <3>2. QED
            BY <1>4, <2>1, <3>1, KioskGiveUp
    <2>4. QED
        BY <2>2, <2>3
<1>5. CASE SMStep(Loop) /\ UNCHANGED contextVars
    BY <1>1, <1>5, KioskMethod
<1>6. CASE BridgeTop \/ BridgeTopHas
    <2>1. bridge'.at \in {"topHas", "wait"}
        BY <1>1, <1>2, <1>6 DEF BridgeTop, BridgeTopHas, BridgeRecord
    <2>2. QED
        BY <1>4, <1>6, <2>1 DEF BridgeTop, BridgeTopHas, sessionVars
<1>7. CASE BridgePoll
    <2>1. bridge'.at \in {"top", "unplugHas", "tap"}
        <3>1. ASSUME bridge' = [bridge EXCEPT !.at = "tap", !.card = Head(taps)]
              PROVE  bridge'.at = "tap"
            BY <1>1, <3>1 DEF BridgeRecord
        <3>2. QED
            BY <1>2, <1>3, <1>7, <3>1 DEF BridgePoll
    <2>2. QED
        BY <1>4, <1>7, <2>1 DEF BridgePoll, sessionVars
<1>8. CASE BridgeTap \/ TapHas \/ TapCurrent \/ TapEnd \/ Login \/ UnplugHas
           \/ UnplugEnd \/ BridgeRaised
    <2>1. bridge'.at \in {"regTap", "tapHas", "auth", "tapCurrent", "top", "tapEnd",
                          "unplugEnd", "dead"}
        BY <1>2, <1>3, <1>8 DEF BridgeTap, TapHas, TapCurrent, TapEnd, Login, UnplugHas,
                                UnplugEnd, BridgeRaised, BridgeDone
    <2>2. UNCHANGED <<current, who, enrolled, regs, pending>>
        BY <1>8 DEF BridgeTap, TapHas, TapCurrent, TapEnd, Login, UnplugHas, UnplugEnd,
                    BridgeRaised, sessionVars
    <2>3. QED
        BY <1>4, <2>1, <2>2
<1>9. CASE RegistrationTap
    <2>1. /\ bridge.at = "regTap" /\ bridge'.at # "login"
          /\ UNCHANGED <<current, who, enrolled, regs>> /\ pending' = 0
          /\ bridge'.at = "enroll" => bridge'.pend = pending
        <3>1. ASSUME bridge' = [bridge EXCEPT !.at = "enroll", !.pend = pending]
              PROVE  bridge'.at = "enroll" /\ bridge'.pend = pending
            BY <1>1, <3>1 DEF BridgeRecord
        <3>2. QED
            BY <1>2, <1>3, <1>9, <3>1 DEF RegistrationTap, At, smVars
    <2>2. Open' \subseteq Open
        BY <2>1 DEF Open
    <2>3. UNCHANGED <<User, Entering>>
        BY <2>1 DEF User, Entering
    <2>4. QED
        BY <2>1, <2>2, <2>3, KioskWithdraw
<1>10. CASE Enroll
    <2>1. /\ bridge.at = "enroll" /\ bridge'.at = "top"
          /\ UNCHANGED <<current, who, pending>>
          /\ bridge.card \in People
        BY <1>3, <1>10 DEF Enroll, At, smVars, ContextInv, BridgeOK, Carrying
    <2>2. UNCHANGED <<User, Entering>>
        BY <2>1 DEF User, Entering
    <2>3. CASE UNCHANGED <<regs, enrolled>>
        BY <1>4, <2>1, <2>3
    <2>4. CASE /\ bridge.card \notin enrolled
               /\ enrolled' = enrolled \cup {bridge.card}
               /\ regs' = [regs EXCEPT ![bridge.pend].cards = @ \cup {bridge.card}]
        <3>1. bridge.pend \in 1 .. Len(regs) /\ bridge.pend # pending
            BY <1>1, <2>1 DEF RegInv, BridgeRecord
        <3>2. Len(regs') = Len(regs)
            <4>1. regs \in Seq(RegRecord) /\ regs[bridge.pend] \in RegRecord
                BY <3>1, ElementOfSeq DEF ContextInv, JobsOK
            <4>2. [regs[bridge.pend] EXCEPT !.cards = @ \cup {bridge.card}] \in RegRecord
                BY <2>1, <4>1 DEF RegRecord
            <4>3. QED
                BY <2>4, <3>1, <4>1, <4>2, ExceptSeq
        <3>3. bridge.pend \in Open /\ Open' = Open \ {bridge.pend}
            BY <2>1, <3>1, <3>2 DEF Open
        <3>4. QED
            BY <2>1, <2>2, <2>4, <3>2, <3>3, KioskEnrol
    <2>5. QED
        BY <1>10, <2>3, <2>4 DEF Enroll
<1>11. CASE Authenticate
    <2>1. /\ bridge.at = "auth" /\ UNCHANGED <<current, who, enrolled, regs, pending>>
        BY <1>11 DEF Authenticate, At, sessionVars
    <2>2. CASE BridgeDone
        BY <1>3, <1>4, <2>1, <2>2 DEF BridgeDone
    <2>3. CASE /\ bridge.card \in enrolled
               /\ BridgeTo("login") /\ CallStartSession(Loop, bridge.card)
        <3>1. PICK frame : /\ run' = [run EXCEPT ![Loop] = frame]
                           /\ frame.user = bridge.card /\ frame.at = "endLook"
            BY <1>1, <2>3, StartsFrame
        <3>2. run'[Loop].at = "endLook"
            BY <1>1, <3>1
        <3>3. Entering = NoPerson /\ Entering' = bridge.card
            BY <1>2, <2>1, <2>3, <3>2 DEF Entering, Returned
        <3>4. UNCHANGED <<User, Open>>
            BY <1>2, <2>1, <2>3 DEF User, Open
        <3>5. Vacant /\ bridge.card \in People
            BY <2>1 DEF KioskInv, ContextInv, BridgeOK, Carrying
        <3>6. QED
            BY <2>1, <2>3, <3>3, <3>4, <3>5, VacantFrees, KioskTakeCard
    <2>4. QED
        BY <1>11, <2>2, <2>3 DEF Authenticate
<1>12. QED
    BY <1>5, <1>6, <1>7, <1>8, <1>9, <1>10, <1>11 DEF BridgeStep

\* A request outside the manager starts a registration, or nothing that counts.
LEMMA KioskRequest ==
    ASSUME ContextInv, KioskInv, NEW p \in Pool,
           \/ RequestStep(p)
           \/ \E op \in Ops : Request(p, op)
           \/ PanelRequest(p)
    PROVE  KioskStep
<1>1. /\ Loop \in Threads /\ p \in Threads /\ p # Loop
      /\ run \in [Threads -> Frame]
      /\ regs \in Seq(RegRecord) /\ Len(regs) \in Nat
    BY ContextAssumption DEF ContextInv, Inv, SMTypeOK, JobsOK, Pool
<1>2. CASE SMStep(p) /\ UNCHANGED contextVars
    BY <1>1, <1>2, KioskMethod
<1>3. ASSUME UNCHANGED <<current, who, bridge, enrolled>>,
             run'[Loop].at = run[Loop].at,
             StartRegistration \/ UNCHANGED <<pending, regs>>
      PROVE  KioskStep
    <2>1. UNCHANGED <<User, Entering>>
        BY <1>3 DEF User, Entering, Returned
    <2>2. CASE UNCHANGED <<pending, regs>>
        <3>1. Open' = Open /\ Len(regs') = Len(regs)
            BY <1>3, <2>2 DEF Open
        <3>2. QED
            BY <1>3, <2>1, <3>1, KioskLogout
    <2>3. CASE StartRegistration
        <3>1. Len(regs') = Len(regs) + 1 /\ pending' = Len(regs) + 1
            <4>1. NewRegistration \in RegRecord
                BY DEF NewRegistration, RegRecord
            <4>2. QED
                BY <1>1, <2>3, <4>1, AppendProperties DEF StartRegistration
        <3>2. Len(regs') \in Open' /\ Open' \subseteq Open \cup {Len(regs')}
            BY <1>1, <1>3, <3>1 DEF Open
        <3>3. QED
            BY <1>3, <2>1, <3>1, <3>2, KioskAsk
    <2>4. QED
        BY <1>3, <2>2, <2>3
<1>4. ASSUME NEW frame, run' = [run EXCEPT ![p] = frame]
      PROVE  run'[Loop].at = run[Loop].at
    BY <1>1, <1>4
<1>5. ASSUME \/ Leave(p) \/ CallCurrentSession(p) \/ CallEndSession(p)
             \/ CallStartSession(p, PanelAdmin) \/ run' = run
      PROVE  run'[Loop].at = run[Loop].at
    BY <1>4, <1>5 DEF Leave, CallCurrentSession, CallEndSession, CallStartSession, Enter
<1>6. CASE RequestTouch(p)
    <2>1. run[Loop] \in Frame
        BY <1>1
    <2>2. run'[Loop].at = run[Loop].at
        BY <1>1, <1>6, <2>1 DEF RequestTouch, Touch, Frame
    <2>3. QED
        BY <1>3, <1>6, <2>2 DEF RequestTouch, Touch
<1>7. CASE (\E op \in Ops : Request(p, op)) \/ PanelRequest(p)
    BY <1>3, <1>5, <1>7 DEF Request, PanelRequest, sessionVars
<1>8. CASE RequestHas(p) \/ RequestCurrent(p)
    BY <1>3, <1>5, <1>8 DEF RequestHas, RequestCurrent, Reply, sessionVars
<1>9. CASE RequestBody(p)
    BY <1>3, <1>5, <1>9 DEF RequestBody, Reply, sessionVars
<1>10. CASE EndReply(p) \/ RegisterName(p) \/ PanelReply(p) \/ RequestRaised(p)
    BY <1>3, <1>5, <1>10 DEF EndReply, RegisterName, PanelReply, RequestRaised, Reply,
                             sessionVars
<1>11. QED
    BY <1>2, <1>6, <1>7, <1>8, <1>9, <1>10 DEF RequestStep

\* The bridge, the requests and the clocks implement Kiosk, with any number of
\* threads, cards, sessions and registrations, with and without the panel: no
\* card takes over a session but the panel's, only enrolled people are logged
\* in, and a card is enrolled only by a registration that is open.
THEOREM ServerIsKiosk == Spec => ImplementsKiosk
<1>1. Init => TheKiosk!Init
    BY ContextAssumption DEF Init, SMInit, TheKiosk!Init
<1>2. ContextInv /\ RegInv /\ KioskInv /\ [Next]_vars
          => [TheKiosk!Next]_(TheKiosk!kioskVars)
    <2> SUFFICES ASSUME ContextInv, RegInv, KioskInv, [Next]_vars PROVE KioskStep
        BY DEF KioskStep
    <2>1. CASE UNCHANGED <<current, who, run, bridge, enrolled, regs, pending>>
        <3>1. UNCHANGED <<User, Entering, Open>> /\ Len(regs') = Len(regs)
            BY <2>1 DEF User, Entering, Open, Returned
        <3>2. QED
            BY <2>1, <3>1, KioskLogout
    <2>2. CASE (\E e \in People \cup {Unplugged} : ReaderEvent(e)) \/ SessionTimeout
               \/ UNCHANGED vars
        BY <2>1, <2>2 DEF ReaderEvent, SessionTimeout, TimePasses, vars, smVars, contextVars
    <2>3. CASE CancelRegistration \/ RegistrationTimeout
        <3>1. /\ UNCHANGED <<current, who, run, bridge, enrolled>>
              /\ pending' \in {0, pending} /\ pending \in 1 .. Len(regs)
            BY <2>3 DEF CancelRegistration, RegistrationTimeout, smVars, ContextInv, JobsOK
        <3>2. Len(regs') = Len(regs)
            <4>1. regs \in Seq(RegRecord) /\ regs[pending] \in RegRecord
                BY <3>1, ElementOfSeq DEF ContextInv, JobsOK
            <4>2. /\ [regs[pending] EXCEPT !.cancelled = TRUE] \in RegRecord
                  /\ [regs[pending] EXCEPT !.expired = TRUE] \in RegRecord
                BY <4>1 DEF RegRecord
            <4>3. QED
                BY <2>3, <3>1, <4>1, <4>2, ExceptSeq
                   DEF CancelRegistration, RegistrationTimeout
        <3>3. Open' \subseteq Open /\ UNCHANGED <<User, Entering>>
            BY <3>1, <3>2 DEF Open, User, Entering, Returned
        <3>4. QED
            BY <3>1, <3>2, <3>3, KioskWithdraw
    <2>4. QED
        BY <2>2, <2>3, KioskBridge, KioskRequest DEF Next
<1>3. QED
    BY <1>1, <1>2, KioskInvInit, KioskInvStep, ContextInvariance, RegInvariance, PTL
       DEF Spec, ImplementsKiosk, TheKiosk!Spec

-----------------------------------------------------------------------------
(***************************************************************************)
(* What the bridge remembers.  Without the panel and the end button, a     *)
(* session that is over and has not been told of is one that the bridge    *)
(* has seen: had_session is still true, and its next round will tell of    *)
(* it.  For while had_session is false, either there is no session, or the *)
(* one there is has just been started by the bridge and cannot have        *)
(* expired; so whoever clears it has expired another one in hand, and the  *)
(* session is lost.                                                        *)
(***************************************************************************)
Kept == current # 0 \/ fate[Len(fate)] = "lost"

\* Between the poll and the end of the round.
Round == {"wait", "tap", "regTap", "enroll", "tapHas", "tapCurrent", "tapEnd", "auth",
          "unplugHas", "unplugEnd"}

Ending == {"tapEnd", "unplugEnd", "login"}

Unseen ==
    /\ current \notin idle
    /\ \A t \in Threads : run[t].at \in {"log", "clear"} => run[t].obj # current
    /\ told = "auth_success" => Kept
    /\ bridge.at \in Round => current = 0
    /\ bridge.at = "login" =>
          IF run[Loop].at \in {"out", "back"} THEN Kept
          ELSE run[Loop].at = "raised" \/ current = 0

MemoryInv ==
    /\ \A p \in Pool : job[p].op # "end" /\ run[p].at \notin Starting
    /\ run[Loop].at \in Starting => bridge.at \in Ending
    /\ bridge.at = "topHas" /\ run[Loop].at \in {"out", "back"} /\ run[Loop].got = 0
          => current = 0
    /\ bridge.at # "dead" /\ ~bridge.had => Unseen

LEMMA MemoryInit == Init => MemoryInv
<1> SUFFICES ASSUME Init PROVE MemoryInv
    OBVIOUS
<1>1. Loop \in Threads /\ \A t \in Threads : run[t] = Out
    BY ContextAssumption DEF Init, SMInit
<1>2. \A p \in Pool : job[p].op = "none" /\ p \in Threads
    BY DEF Init, Idle, Pool
<1>3. Out.at = "out"
    BY DEF Out
<1>4. QED
    BY <1>1, <1>2, <1>3 DEF Init, SMInit, MemoryInv, Unseen, Kept, Starting, Round

\* What a step of a method does to its thread and to the session.
LEMMA MethodSession ==
    ASSUME ContextInv, NEW t \in Threads, SMStep(t)
    PROVE  /\ idle' = idle
           /\ \A s \in Threads \ {t} : run'[s] = run[s]
           /\ run'[t].at \in {"log", "clear"} =>
                 /\ run'[t].obj = run[t].obj
                 /\ \/ run[t].at = "judge" /\ run[t].obj \in idle
                    \/ run[t].at = "log"
           /\ run'[t].at \in Starting => run[t].at \in Starting
           /\ run'[t].at # "out"
           /\ \/ UNCHANGED <<current, fate>>
              \/ /\ run[t].at = "clear" /\ current' = 0
                 /\ Gone(IF current = run[t].obj THEN "expired" ELSE "lost")
              \/ run[t].at \in Starting /\ current' = 0 /\ Gone("ended")
              \/ Store(t)
<1>1. run \in [Threads -> Frame] /\ run[t] \in Frame
    BY DEF ContextInv, Inv, SMTypeOK
<1>2. ASSUME NEW got, Returns(t, got)
      PROVE  /\ \A s \in Threads \ {t} : run'[s] = run[s]
             /\ run'[t].at = "back"
    BY <1>1, <1>2 DEF Returns, Back
<1>3. ASSUME NEW at, GoTo(t, at)
      PROVE  /\ \A s \in Threads \ {t} : run'[s] = run[s]
             /\ run'[t].at = at /\ run'[t].obj = run[t].obj
    <2>1. /\ [run[t] EXCEPT !.at = at].at = at
          /\ [run[t] EXCEPT !.at = at].obj = run[t].obj
        BY <1>1 DEF Frame
    <2>2. QED
        BY <1>1, <1>3, <2>1 DEF GoTo
<1>4. ASSUME NEW at, run' = [run EXCEPT ![t].at = at, ![t].obj = current]
      PROVE  /\ \A s \in Threads \ {t} : run'[s] = run[s]
             /\ run'[t].at = at
    <2> DEFINE frame == [run[t] EXCEPT !.at = at, !.obj = current]
    <2>1. frame.at = at
        BY <1>1 DEF Frame
    <2>2. run' = [run EXCEPT ![t] = frame]
        BY <1>4
    <2> HIDE DEF frame
    <2>3. QED
        BY <1>1, <2>1, <2>2
<1>5. ASSUME Raises(t)
      PROVE  /\ \A s \in Threads \ {t} : run'[s] = run[s]
             /\ run'[t].at = "raised"
    <2>1. [Out EXCEPT !.at = "raised"].at = "raised"
        BY DEF Out
    <2>2. QED
        BY <1>1, <1>5, <2>1 DEF Raises
<1> USE DEF Starting
<1>6. CASE Look(t)
    BY <1>2, <1>4, <1>6 DEF Look, sessionVars
<1>7. CASE Judge(t)
    BY <1>2, <1>3, <1>7 DEF Judge, sessionVars
<1>8. CASE Log(t) \/ EndLog(t)
    BY <1>3, <1>5, <1>8 DEF Log, EndLog, sessionVars
<1>9. CASE Clear(t) \/ EndClear(t)
    BY <1>2, <1>3, <1>9 DEF Clear, EndClear, Ended
<1>10. CASE EndLook(t)
    BY <1>2, <1>3, <1>4, <1>10 DEF EndLook, Ended, sessionVars
<1>11. CASE Store(t)
    BY <1>2, <1>11 DEF Store
<1>12. QED
    BY <1>6, <1>7, <1>8, <1>9, <1>10, <1>11 DEF SMStep

\* Methods of the manager: only one that has expired another session in hand
\* clears one that the bridge has not seen.
LEMMA MethodMemory ==
    ASSUME ContextInv, ContextInv', KioskInv, MemoryInv,
           NEW t \in Threads, SMStep(t), UNCHANGED contextVars
    PROVE  MemoryInv'
<1>1. /\ Loop \in Threads /\ Loop \notin Pool /\ Pool \subseteq Threads
      /\ UNCHANGED <<bridge, job, told>>
      /\ run[t].at \notin {"back", "raised"}
      /\ idle \subseteq 1 .. Len(who) /\ Len(who) \in Nat /\ Len(fate) = Len(who)
      /\ current \in {0, Len(who)} /\ fate \in Seq(Fates)
      /\ run \in [Threads -> Frame]
    BY ContextAssumption DEF Pool, contextVars, ContextInv, Inv, SMTypeOK, OneLiveSession,
       SMStep, Look, Judge, Log, Clear, EndLook, EndLog, EndClear, Store
<1>2. /\ idle' = idle
      /\ \A s \in Threads \ {t} : run'[s] = run[s]
      /\ run'[t].at \in {"log", "clear"} =>
            /\ run'[t].obj = run[t].obj
            /\ \/ run[t].at = "judge" /\ run[t].obj \in idle
               \/ run[t].at = "log"
      /\ run'[t].at \in Starting => run[t].at \in Starting
      /\ run'[t].at # "out"
      /\ \/ UNCHANGED <<current, fate>>
         \/ /\ run[t].at = "clear" /\ current' = 0
            /\ Gone(IF current = run[t].obj THEN "expired" ELSE "lost")
         \/ run[t].at \in Starting /\ current' = 0 /\ Gone("ended")
         \/ Store(t)
    BY MethodSession
<1>3. Store(t) => /\ t = Loop /\ bridge.at = "login" /\ current' = Len(who) + 1
    <2>1. Store(t) => run[t].at \in Starting
        BY DEF Store, Starting
    <2>2. t \notin Pool => t = Loop
        BY DEF Pool
    <2>3. QED
        BY <2>1, <2>2, Stores DEF MemoryInv
<1>4. \A p \in Pool : job'[p].op # "end" /\ run'[p].at \notin Starting
    BY <1>1, <1>2 DEF MemoryInv
<1>5. run'[Loop].at \in Starting => bridge'.at \in Ending
    BY <1>1, <1>2 DEF MemoryInv
<1>6. ASSUME bridge.at = "topHas", run'[Loop].at \in {"out", "back"}, run'[Loop].got = 0
      PROVE  current' = 0
    <2>1. ~Store(t)
        BY <1>3, <1>6
    <2>2. CASE t = Loop
        <3>1. PICK frame : /\ run' = [run EXCEPT ![t] = frame]
                           /\ \/ Store(t)
                              \/ frame.at \in {"out", "back"} /\ frame.got = 0 => current' = 0
            BY MethodFrame DEF ContextInv
        <3>2. run'[t] = frame
            BY <1>1, <3>1
        <3>3. QED
            BY <1>6, <2>1, <2>2, <3>1, <3>2
    <2>3. CASE t # Loop
        BY <1>1, <1>2, <1>6, <2>1, <2>3 DEF MemoryInv
    <2>4. QED
        BY <2>2, <2>3
<1>7. ASSUME bridge.at # "dead", ~bridge.had PROVE Unseen'
    <2>1. Unseen
        BY <1>7 DEF MemoryInv
    <2>2. current' \in {0, current} \/ Store(t)
        BY <1>2
    <2>3. run[t].at \in Starting => t = Loop /\ current = 0
        <3>1. SUFFICES ASSUME run[t].at \in Starting PROVE t = Loop /\ current = 0
            OBVIOUS
        <3>2. t = Loop /\ bridge.at \in Ending
            BY <3>1 DEF MemoryInv, Pool
        <3>3. QED
            BY <2>1, <3>1, <3>2 DEF Unseen, Ending, Round, Starting
    <2>4. Kept => Kept'
        <3>1. CASE UNCHANGED <<current, fate>>
            BY <3>1 DEF Kept
        <3>2. CASE /\ run[t].at = "clear" /\ current' = 0
                   /\ Gone(IF current = run[t].obj THEN "expired" ELSE "lost")
            <4>1. CASE current = 0
                BY <3>2, <4>1 DEF Gone, Kept
            <4>2. CASE current # 0
                <5>1. fate' = [fate EXCEPT ![current] = "lost"]
                    BY <2>1, <3>2, <4>2 DEF Gone, Unseen
                <5>2. current = Len(fate) /\ current \in 1 .. Len(fate) /\ "lost" \in Fates
                    BY <1>1, <4>2 DEF Fates
                <5>3. Len(fate') = Len(fate) /\ fate'[Len(fate)] = "lost"
                    BY <1>1, <5>1, <5>2, ExceptSeq
                <5>4. QED
                    BY <5>3 DEF Kept
            <4>3. QED
                BY <4>1, <4>2
        <3>3. CASE run[t].at \in Starting /\ current' = 0 /\ Gone("ended")
            BY <2>3, <3>3 DEF Gone, Kept
        <3>4. CASE Store(t)
            BY <1>1, <1>3, <3>4 DEF Kept
        <3>5. QED
            BY <1>2, <3>1, <3>2, <3>3, <3>4
    <2>5. current' \notin idle'
        BY <1>1, <1>2, <1>3, <2>1, <2>2 DEF Unseen
    <2>6. ASSUME NEW s \in Threads, run'[s].at \in {"log", "clear"}
          PROVE  run'[s].obj # current'
        <3>1. /\ run'[s].obj = run[s].obj /\ run[s].obj # current
              /\ run[s].at \in {"judge", "log", "clear"}
            BY <1>2, <2>1, <2>6 DEF Unseen
        <3>2. run[s].obj # 0 /\ run[s].obj <= Len(who)
            BY <3>1 DEF ContextInv, Inv, Holds
        <3>3. QED
            BY <1>1, <1>3, <2>2, <3>1, <3>2
    <2>7. bridge.at \in Round => current' = 0
        BY <1>3, <2>1, <2>2 DEF Unseen, Round
    <2>8. ASSUME bridge.at = "login"
          PROVE  IF run'[Loop].at \in {"out", "back"} THEN Kept'
                 ELSE run'[Loop].at = "raised" \/ current' = 0
        <3>1. CASE t = Loop
            <4>1. run[t].at \in Starting /\ run[t].user = bridge.card /\ bridge.card # NoPerson
                BY <1>1, <2>8, <3>1, SessionAssumption
                   DEF KioskInv, EnteringInv, ContextInv, BridgeOK
            <4>2. CASE Store(t)
                <5>1. Kept' /\ run'[t].at = "back"
                    BY <1>1, <1>3, <4>2 DEF Kept, Store, Returns, Back
                <5>2. QED
                    BY <3>1, <5>1
            <4>3. CASE ~Store(t)
                <5>1. PICK frame : /\ run' = [run EXCEPT ![t] = frame]
                                   /\ frame.at # "back"
                    BY <4>1, <4>3, MethodFrame DEF ContextInv
                <5>2. run'[t].at \notin {"out", "back"}
                    BY <1>1, <1>2, <5>1
                <5>3. current' = 0
                    BY <2>2, <2>3, <4>1, <4>3
                <5>4. QED
                    BY <3>1, <5>2, <5>3
            <4>4. QED
                BY <4>2, <4>3
        <3>2. CASE t # Loop
            <4>1. run'[Loop] = run[Loop] /\ current' \in {0, current}
                BY <1>1, <1>2, <1>3, <2>2, <3>2
            <4>2. QED
                BY <2>1, <2>4, <2>8, <4>1 DEF Unseen
        <3>3. QED
            BY <3>1, <3>2
    <2>9. QED
        BY <1>1, <2>1, <2>4, <2>5, <2>6, <2>7, <2>8 DEF Unseen
<1>8. QED
    BY <1>1, <1>4, <1>5, <1>6, <1>7 DEF MemoryInv

\* Where a call or a return leaves its thread.
LEMMA CallFrame ==
    ASSUME NEW t \in Threads
    PROVE  /\ Leave(t) => \E frame : run' = [run EXCEPT ![t] = frame] /\ frame.at = "out"
           /\ CallCurrentSession(t) =>
                 \E frame : run' = [run EXCEPT ![t] = frame] /\ frame.at = "look"
           /\ CallEndSession(t) =>
                 \E frame : run' = [run EXCEPT ![t] = frame] /\ frame.at = "endLook"
<1>1. ASSUME Leave(t)
      PROVE  \E frame : run' = [run EXCEPT ![t] = frame] /\ frame.at = "out"
    <2>1. Out.at = "out"
        BY DEF Out
    <2>2. QED
        BY <1>1, <2>1 DEF Leave
<1>2. ASSUME CallCurrentSession(t)
      PROVE  \E frame : run' = [run EXCEPT ![t] = frame] /\ frame.at = "look"
    <2> DEFINE frame == [Out EXCEPT !.at = "look",
                                    !.stale = IF current \in idle THEN current ELSE 0]
    <2>1. frame.at = "look"
        BY DEF Out
    <2>2. run' = [run EXCEPT ![t] = frame]
        BY <1>2 DEF CallCurrentSession, Enter
    <2> HIDE DEF frame
    <2>3. QED
        BY <2>1, <2>2
<1>3. ASSUME CallEndSession(t)
      PROVE  \E frame : run' = [run EXCEPT ![t] = frame] /\ frame.at = "endLook"
    <2>1. [Out EXCEPT !.at = "endLook"].at = "endLook"
        BY DEF Out
    <2>2. QED
        BY <1>3, <2>1 DEF CallEndSession, Enter
<1>4. QED
    BY <1>1, <1>2, <1>3

\* The bridge between two calls: it goes on in its round, or begins a new one.
LEMMA RoundMemory ==
    ASSUME ContextInv, MemoryInv, UNCHANGED <<sessionVars, job>>,
           told' \in {told, "session_ended", "session_timeout"},
           NEW frame, run' \in {run, [run EXCEPT ![Loop] = frame]},
           frame.at \notin {"log", "clear"},
           run'[Loop].at \in Starting => bridge'.at \in Ending,
           bridge'.at = "topHas" => run'[Loop].at = "look",
           bridge'.at # "dead" => bridge.at # "dead" /\ bridge'.had = bridge.had,
           bridge'.at \in Round => bridge.at \in Round,
           bridge'.at = "login" => bridge.at \in Round /\ run'[Loop].at \in Starting
    PROVE  MemoryInv'
<1>1. /\ Loop \in Threads /\ Loop \notin Pool /\ Pool \subseteq Threads
      /\ run \in [Threads -> Frame]
    BY ContextAssumption DEF Pool, ContextInv, Inv, SMTypeOK
<1>2. /\ \A s \in Threads \ {Loop} : run'[s] = run[s]
      /\ run'[Loop] \in {run[Loop], frame}
    BY <1>1
<1>3. Kept' <=> Kept
    BY DEF Kept, sessionVars
<1>4. ASSUME bridge'.at # "dead", ~bridge'.had PROVE Unseen'
    <2>1. Unseen
        BY <1>4 DEF MemoryInv
    <2>2. ASSUME NEW s \in Threads, run'[s].at \in {"log", "clear"}
          PROVE  run'[s].obj # current'
        BY <1>2, <2>1, <2>2 DEF Unseen, sessionVars
    <2>3. bridge'.at \in Round => current' = 0
        BY <2>1 DEF Unseen, sessionVars
    <2>4. bridge'.at = "login" =>
             run'[Loop].at \notin {"out", "back"} /\ current' = 0
        BY <2>1 DEF Unseen, sessionVars, Starting
    <2>5. QED
        BY <1>3, <2>1, <2>2, <2>3, <2>4 DEF Unseen, sessionVars
<1>5. QED
    BY <1>1, <1>2, <1>4 DEF MemoryInv

LEMMA BridgeMemory ==
    ASSUME ContextInv, ContextInv', KioskInv, MemoryInv, BridgeStep
    PROVE  MemoryInv'
<1>1. /\ Loop \in Threads /\ Loop \notin Pool /\ Pool \subseteq Threads
      /\ run \in [Threads -> Frame] /\ bridge \in BridgeRecord
    BY ContextAssumption DEF Pool, ContextInv, Inv, SMTypeOK, BridgeOK
<1>2. ASSUME NEW place, BridgeTo(place)
      PROVE  bridge'.at = place /\ bridge'.had = bridge.had
    BY <1>1, <1>2 DEF BridgeTo, BridgeRecord
<1>3. NextRound => bridge'.at = "top" /\ bridge'.had = bridge.had
    BY <1>1 DEF NextRound, BridgeRecord
<1>4. ASSUME NEW place, At(place)
      PROVE  bridge.at = place /\ run[Loop].at \in {"out", "back"}
    BY <1>4 DEF At, Returned
<1>5. CASE SMStep(Loop) /\ UNCHANGED contextVars
    BY <1>1, <1>5, MethodMemory
<1> DEFINE Ready(frame) ==
        /\ run' \in {run, [run EXCEPT ![Loop] = frame]}
        /\ frame.at \in {"out", "back", "look", "endLook"}
        /\ run'[Loop] = frame
<1>6. /\ CallCurrentSession(Loop) => \E frame : Ready(frame) /\ frame.at = "look"
      /\ CallEndSession(Loop) => \E frame : Ready(frame)
      /\ Leave(Loop) => \E frame : Ready(frame) /\ frame.at = "out"
    BY <1>1, CallFrame
<1>7. ASSUME bridge.card \in People, CallStartSession(Loop, bridge.card)
      PROVE  \E frame : Ready(frame) /\ frame.at = "endLook"
    BY <1>1, <1>7, StartsFrame
<1>8. ASSUME run' = run, run[Loop].at \in {"out", "back"}
      PROVE  Ready(run[Loop])
    BY <1>1, <1>8
<1> HIDE DEF Ready
<1>9. ASSUME NEW frame, Ready(frame), NEW place, bridge.at = place, place # "dead",
             UNCHANGED <<sessionVars, job>>,
             told' \in {told, "session_ended", "session_timeout"},
             bridge'.had = bridge.had,
             frame.at = "endLook" => bridge'.at \in Ending,
             bridge'.at = "topHas" => frame.at = "look",
             bridge'.at \in Round => place \in Round,
             bridge'.at = "login" => place \in Round /\ frame.at = "endLook"
      PROVE  MemoryInv'
    BY <1>9, RoundMemory DEF Ready, Starting
<1>10. CASE BridgeTop
    <2>1. At("top") /\ BridgeTo("topHas") /\ CallCurrentSession(Loop)
        BY <1>10 DEF BridgeTop
    <2>2. PICK frame : Ready(frame) /\ frame.at = "look"
        BY <1>6, <2>1
    <2>3. QED
        BY <1>2, <1>4, <1>9, <1>10, <2>1, <2>2 DEF BridgeTop, Round
<1>11. CASE BridgePoll
    <2>1. bridge.at = "wait" /\ run[Loop].at \in {"out", "back"}
        BY <1>4, <1>11 DEF BridgePoll
    <2>2. CASE NextRound /\ UNCHANGED run
        BY <1>3, <1>8, <1>9, <1>11, <2>1, <2>2 DEF BridgePoll, Round
    <2>3. CASE BridgeTo("unplugHas") /\ CallCurrentSession(Loop)
        <3>1. PICK frame : Ready(frame) /\ frame.at = "look"
            BY <1>6, <2>3
        <3>2. QED
            BY <1>2, <1>9, <1>11, <2>1, <2>3, <3>1 DEF BridgePoll, Round
    <2>4. CASE bridge' = [bridge EXCEPT !.at = "tap", !.card = Head(taps)] /\ UNCHANGED run
        <3>1. bridge'.at = "tap" /\ bridge'.had = bridge.had
            BY <1>1, <2>4 DEF BridgeRecord
        <3>2. QED
            BY <1>8, <1>9, <1>11, <2>1, <2>4, <3>1 DEF BridgePoll, Round
    <2>5. QED
        BY <1>11, <2>2, <2>3, <2>4 DEF BridgePoll
<1>12. CASE BridgeTap
    <2>1. bridge.at = "tap" /\ run[Loop].at \in {"out", "back"}
        BY <1>4, <1>12 DEF BridgeTap
    <2>2. CASE BridgeTo("regTap") /\ UNCHANGED run
        BY <1>2, <1>8, <1>9, <1>12, <2>1, <2>2 DEF BridgeTap, Round
    <2>3. CASE BridgeTo("tapHas") /\ CallCurrentSession(Loop)
        <3>1. PICK frame : Ready(frame) /\ frame.at = "look"
            BY <1>6, <2>3
        <3>2. QED
            BY <1>2, <1>9, <1>12, <2>1, <2>3, <3>1 DEF BridgeTap, Round
    <2>4. QED
        BY <1>12, <2>2, <2>3 DEF BridgeTap
<1>13. CASE RegistrationTap \/ Enroll
    <2>1. /\ bridge.at \in {"regTap", "enroll"} /\ run[Loop].at \in {"out", "back"}
          /\ run' = run
        BY <1>4, <1>13 DEF RegistrationTap, Enroll, smVars
    <2>2. bridge'.at \in {"dead", "top", "enroll"} /\ bridge'.had = bridge.had
        BY <1>1, <1>2, <1>3, <1>13 DEF RegistrationTap, Enroll, BridgeRecord
    <2>3. QED
        BY <1>8, <1>9, <1>13, <2>1, <2>2
           DEF RegistrationTap, Enroll, Round, smVars, sessionVars
<1>14. CASE TapHas \/ TapCurrent \/ UnplugHas
    <2>1. bridge.at \in {"tapHas", "tapCurrent", "unplugHas"}
        BY <1>4, <1>14 DEF TapHas, TapCurrent, UnplugHas
    <2>2. \/ (BridgeTo("auth") \/ NextRound) /\ Leave(Loop)
          \/ BridgeTo("tapCurrent") /\ CallCurrentSession(Loop)
          \/ (BridgeTo("tapEnd") \/ BridgeTo("unplugEnd")) /\ CallEndSession(Loop)
        BY <1>14 DEF TapHas, TapCurrent, UnplugHas, BridgeDone
    <2>3. PICK frame : /\ Ready(frame)
                       /\ frame.at = "endLook" => bridge'.at \in Ending
                       /\ bridge'.at \in {"auth", "top", "tapCurrent", "tapEnd", "unplugEnd"}
                       /\ bridge'.had = bridge.had
        BY <1>2, <1>3, <1>6, <2>2 DEF Ending
    <2>4. QED
        BY <1>9, <1>14, <2>1, <2>3 DEF TapHas, TapCurrent, UnplugHas, Round
<1>15. CASE TapEnd \/ UnplugEnd
    <2>1. PICK frame : Ready(frame) /\ frame.at = "out"
        BY <1>6, <1>15 DEF TapEnd, UnplugEnd, BridgeDone
    <2>2. bridge.at \in {"tapEnd", "unplugEnd"}
        BY <1>4, <1>15 DEF TapEnd, UnplugEnd
    <2>3. QED
        BY <1>3, <1>9, <1>15, <2>1, <2>2 DEF TapEnd, UnplugEnd, BridgeDone, Round
<1>16. CASE Authenticate
    <2>1. bridge.at = "auth" /\ bridge.card \in People
        BY <1>4, <1>16 DEF Authenticate, ContextInv, BridgeOK, Carrying
    <2>2. CASE BridgeTo("login") /\ CallStartSession(Loop, bridge.card)
        <3>1. PICK frame : Ready(frame) /\ frame.at = "endLook"
            BY <1>7, <2>1, <2>2
        <3>2. QED
            BY <1>2, <1>9, <1>16, <2>1, <2>2, <3>1 DEF Authenticate, Round, Ending
    <2>3. CASE BridgeDone
        <3>1. PICK frame : Ready(frame) /\ frame.at = "out"
            BY <1>6, <2>3 DEF BridgeDone
        <3>2. QED
            BY <1>3, <1>9, <1>16, <2>1, <2>3, <3>1 DEF Authenticate, BridgeDone, Round
    <2>4. QED
        BY <1>16, <2>2, <2>3 DEF Authenticate
<1>17. CASE BridgeRaised \/ Login \/ BridgeTopHas
    <2>1. /\ run'[Loop].at = "out" /\ UNCHANGED <<sessionVars, job>>
          /\ \A s \in Threads \ {Loop} : run'[s] = run[s]
          /\ Kept' <=> Kept
        BY <1>1, <1>17
           DEF BridgeRaised, Login, BridgeTopHas, BridgeDone, Leave, Out, Kept, sessionVars
    <2>2. CASE bridge'.at # "dead" /\ ~bridge'.had => Unseen'
        <3>1. bridge'.at \in {"dead", "top", "wait"}
            BY <1>1, <1>2, <1>3, <1>17
               DEF BridgeRaised, Login, BridgeTopHas, BridgeDone, BridgeRecord
        <3>2. QED
            BY <1>1, <2>1, <2>2, <3>1 DEF MemoryInv, Starting
    <2>3. CASE BridgeRaised
        BY <1>2, <2>2, <2>3 DEF BridgeRaised
    <2>4. CASE Login
        <3>1. /\ bridge.at = "login" /\ run[Loop].at \in {"out", "back"}
              /\ bridge'.at = "top" /\ bridge'.had = bridge.had
            BY <1>3, <1>4, <2>4 DEF Login, BridgeDone
        <3>2. ASSUME ~bridge'.had PROVE Unseen'
            <4>1. Unseen
                BY <3>1, <3>2 DEF MemoryInv
            <4>2. ASSUME NEW s \in Threads, run'[s].at \in {"log", "clear"}
                  PROVE  run'[s].obj # current'
                BY <2>1, <4>1, <4>2 DEF Unseen, sessionVars
            <4>3. QED
                BY <2>1, <3>1, <4>1, <4>2 DEF Unseen, Round, sessionVars
        <3>3. QED
            BY <2>2, <3>2
    <2>5. CASE BridgeTopHas
        <3>1. /\ bridge.at = "topHas" /\ run[Loop].at \in {"out", "back"}
              /\ bridge'.at = "wait" /\ bridge'.had = (run[Loop].got # 0)
            BY <1>1, <1>4, <2>5 DEF BridgeTopHas, BridgeRecord
        <3>2. ASSUME ~bridge'.had PROVE Unseen'
            <4>1. current = 0
                BY <3>1, <3>2 DEF MemoryInv
            <4>2. current \notin idle
                BY <4>1 DEF ContextInv, Inv, SMTypeOK
            <4>3. ASSUME NEW s \in Threads, run'[s].at \in {"log", "clear"}
                  PROVE  run'[s].obj # current'
                <5>1. run'[s] = run[s]
                    BY <2>1, <4>3
                <5>2. run[s].obj # 0
                    BY <4>3, <5>1 DEF ContextInv, Inv, Holds
                <5>3. QED
                    BY <2>1, <4>1, <5>1, <5>2 DEF sessionVars
            <4>4. told' = "auth_success" => Kept
                BY <2>5, <3>1, <3>2 DEF BridgeTopHas, MemoryInv, Unseen
            <4>5. QED
                BY <2>1, <3>1, <4>1, <4>2, <4>3, <4>4 DEF Unseen, sessionVars
        <3>3. QED
            BY <2>2, <3>2
    <2>6. QED
        BY <1>17, <2>3, <2>4, <2>5
<1>18. QED
    BY <1>5, <1>10, <1>11, <1>12, <1>13, <1>14, <1>15, <1>16, <1>17 DEF BridgeStep

\* The requests between two calls leave the session, and what the bridge and
\* the browsers know of it.
LEMMA PoolMemory ==
    ASSUME MemoryInv, UNCHANGED <<current, fate, bridge>>, idle' \subseteq idle,
           told' \in {told, "session_ended"},
           \A t \in Threads :
               \/ /\ run'[t].at = run[t].at /\ run'[t].obj = run[t].obj
                  /\ run'[t].got = run[t].got
               \/ t \in Pool /\ run'[t].at \in {"out", "look"},
           \A q \in Pool : job'[q].op # "end"
    PROVE  MemoryInv'
<1>1. Loop \in Threads /\ Loop \notin Pool /\ Pool \subseteq Threads
    BY ContextAssumption DEF Pool
<1>2. run'[Loop].at = run[Loop].at /\ run'[Loop].got = run[Loop].got
    BY <1>1
<1>3. Kept' <=> Kept
    BY DEF Kept
<1>4. Unseen => Unseen'
    <2> SUFFICES ASSUME Unseen PROVE Unseen'
        OBVIOUS
    <2>1. ASSUME NEW t \in Threads, run'[t].at \in {"log", "clear"}
          PROVE  run'[t].obj # current'
        BY <2>1 DEF Unseen
    <2>2. QED
        BY <1>2, <1>3, <2>1 DEF Unseen
<1>5. \A p \in Pool : run'[p].at \notin Starting
    BY <1>1 DEF MemoryInv, Starting
<1>6. QED
    BY <1>2, <1>4, <1>5 DEF MemoryInv

LEMMA RequestMemory ==
    ASSUME ContextInv, ContextInv', KioskInv, MemoryInv, "end" \notin Ops,
           NEW p \in Pool, RequestStep(p) \/ \E op \in Ops : Request(p, op)
    PROVE  MemoryInv'
<1>1. /\ p \in Threads /\ Pool \subseteq Threads
      /\ run \in [Threads -> Frame] /\ job \in [Pool -> JobRecord]
      /\ job[p].op # "end"
    BY DEF Pool, ContextInv, Inv, SMTypeOK, JobsOK, MemoryInv
<1>2. CASE SMStep(p) /\ UNCHANGED contextVars
    BY <1>1, <1>2, MethodMemory
<1> DEFINE Ran == \/ run' = run
                  \/ \E frame : /\ run' = [run EXCEPT ![p] = frame]
                                /\ frame.at \in {"out", "look"}
           Went == \E new : job' = [job EXCEPT ![p] = new] /\ new.op # "end"
<1>3. ASSUME UNCHANGED <<sessionVars, bridge>>, told' \in {told, "session_ended"},
             Ran, Went
      PROVE  MemoryInv'
    <2>1. \A t \in Threads :
             run'[t] = run[t] \/ (t \in Pool /\ run'[t].at \in {"out", "look"})
        BY <1>1, <1>3
    <2>2. \A q \in Pool : job'[q].op # "end"
        BY <1>1, <1>3 DEF MemoryInv
    <2>3. QED
        BY <1>3, <2>1, <2>2, PoolMemory DEF sessionVars
<1>4. ASSUME Leave(p) \/ CallCurrentSession(p) \/ run' = run
      PROVE  Ran
    BY <1>1, <1>4, CallFrame
<1>5. ASSUME NEW new, job' = [job EXCEPT ![p] = new], new.op # "end" PROVE Went
    BY <1>5
<1>6. Reply(p) => Went
    <2>1. Idle.op # "end"
        BY DEF Idle
    <2>2. QED
        BY <2>1 DEF Reply
<1>7. ASSUME NEW place, JobTo(p, place) PROVE Went
    <2>1. [job[p] EXCEPT !.at = place].op = job[p].op
        BY <1>1 DEF JobRecord
    <2>2. QED
        BY <1>1, <1>7, <2>1 DEF JobTo
<1> HIDE DEF Ran, Went
<1>8. CASE \E op \in Ops : Request(p, op)
    <2>1. PICK op \in Ops : Request(p, op)
        BY <1>8
    <2> DEFINE new == [Idle EXCEPT !.op = op, !.at = "has"]
    <2>2. new.op # "end"
        BY DEF Idle
    <2>3. job' = [job EXCEPT ![p] = new]
        BY <2>1 DEF Request
    <2> HIDE DEF new
    <2>4. CallCurrentSession(p) /\ UNCHANGED <<sessionVars, bridge, told>>
        BY <2>1 DEF Request
    <2>5. Ran /\ Went
        BY <1>4, <1>5, <2>2, <2>3, <2>4
    <2>6. QED
        BY <1>3, <2>4, <2>5
<1>9. CASE RequestHas(p) \/ RequestCurrent(p)
    <2>1. ASSUME NEW at, NEW adm, job' = [job EXCEPT ![p].at = at, ![p].adm = adm]
          PROVE  Went
        <3> DEFINE new == [job[p] EXCEPT !.at = at, !.adm = adm]
        <3>1. new.op # "end"
            BY <1>1 DEF JobRecord
        <3>2. job' = [job EXCEPT ![p] = new]
            BY <2>1
        <3> HIDE DEF new
        <3>3. QED
            BY <1>5, <3>1, <3>2
    <2>2. Went
        BY <1>6, <1>7, <1>9, <2>1 DEF RequestHas, RequestCurrent
    <2>3. Leave(p) \/ CallCurrentSession(p) \/ run' = run
        BY <1>9 DEF RequestHas, RequestCurrent, Reply
    <2>4. Ran
        BY <1>4, <2>3
    <2>5. UNCHANGED <<sessionVars, bridge, told>>
        BY <1>9 DEF RequestHas, RequestCurrent
    <2>6. QED
        BY <1>3, <2>2, <2>4, <2>5
<1>10. CASE RequestTouch(p)
    <2>1. \A t \in Threads : /\ run'[t].at = run[t].at /\ run'[t].obj = run[t].obj
                             /\ run'[t].got = run[t].got
        <3> SUFFICES ASSUME NEW t \in Threads
                     PROVE  /\ run'[t].at = run[t].at /\ run'[t].obj = run[t].obj
                            /\ run'[t].got = run[t].got
            OBVIOUS
        <3>1. run[t] \in Frame
            BY <1>1
        <3>2. QED
            BY <1>10, <3>1 DEF RequestTouch, Touch, Frame
    <2>2. \A q \in Pool : job'[q].op # "end"
        <3>1. Went
            BY <1>7, <1>10 DEF RequestTouch
        <3>2. QED
            BY <1>1, <3>1 DEF Went, MemoryInv
    <2>3. QED
        BY <1>10, <2>1, <2>2, PoolMemory DEF RequestTouch, Touch
<1>11. CASE RequestBody(p) \/ EndReply(p) \/ RegisterName(p) \/ PanelReply(p)
            \/ RequestRaised(p)
    <2>1. Reply(p)
        BY <1>1, <1>11 DEF RequestBody, EndReply, RegisterName, PanelReply, RequestRaised
    <2>2. Went
        BY <1>6, <2>1
    <2>3. Ran
        BY <1>4, <2>1 DEF Reply
    <2>4. UNCHANGED <<sessionVars, bridge>> /\ told' \in {told, "session_ended"}
        BY <1>11 DEF RequestBody, EndReply, RegisterName, PanelReply, RequestRaised
    <2>5. QED
        BY <1>3, <2>2, <2>3, <2>4
<1>12. QED
    BY <1>2, <1>8, <1>9, <1>10, <1>11 DEF RequestStep

LEMMA MemoryStep ==
    ASSUME Ops \cap {"panel", "end"} = {}
    PROVE  ContextInv /\ ContextInv' /\ KioskInv /\ MemoryInv /\ [Next]_vars => MemoryInv'
<1> SUFFICES ASSUME ContextInv, ContextInv', KioskInv, MemoryInv, [Next]_vars
             PROVE  MemoryInv'
    OBVIOUS
<1>1. CASE UNCHANGED <<smVars, bridge, job, told>>
    <2>1. \A p \in Pool : job'[p].op # "end"
        BY <1>1 DEF MemoryInv
    <2>2. QED
        BY <1>1, <2>1, PoolMemory DEF smVars
<1>2. CASE \/ \E e \in People \cup {Unplugged} : ReaderEvent(e)
           \/ CancelRegistration \/ RegistrationTimeout \/ UNCHANGED vars
    BY <1>1, <1>2 DEF ReaderEvent, CancelRegistration, RegistrationTimeout, vars, contextVars
<1>3. CASE SessionTimeout
    <2>1. bridge.had \/ bridge.at = "dead"
        BY <1>3 DEF SessionTimeout
    <2>2. UNCHANGED <<current, run, bridge, job>>
        BY <1>3 DEF SessionTimeout, TimePasses, contextVars
    <2>3. QED
        BY <2>1, <2>2 DEF MemoryInv
<1>4. QED
    BY <1>2, <1>3, BridgeMemory, RequestMemory DEF Next

\* The safety half of LogoutTold: as long as the browsers have not been told that
\* their session is over, the bridge remembers that there was one.
Remembered ==
    current = 0 /\ told = "auth_success" /\ fate[Len(fate)] # "lost"
        => bridge.had \/ bridge.at = "dead"

\* With any number of threads, cards and sessions, and every interleaving of the
\* bridge, the requests that judge and clear the session, and the clock: no
\* session ends without an event while the bridge has forgotten it.  (The panel
\* starts sessions, and the end button ends them, without the bridge.)
THEOREM EndsRemembered ==
    ASSUME Ops \cap {"panel", "end"} = {}
    PROVE  Spec => []Remembered
<1>1. MemoryInv => Remembered
    BY DEF MemoryInv, Unseen, Kept, Remembered
<1>2. ContextInv /\ ContextInv' /\ KioskInv /\ MemoryInv /\ [Next]_vars => MemoryInv'
    BY MemoryStep
<1>3. QED
    BY <1>1, <1>2, MemoryInit, KioskInvInit, KioskInvStep, ContextInvariance, PTL DEF Spec
=============================================================================
