------------------------ MODULE SessionManagerProofs ------------------------
(***************************************************************************)
(* Proofs about SessionManager, for any number of threads and sessions:    *)
(* types and no stale result.                                              *)
(***************************************************************************)
EXTENDS SessionManager, SequenceTheorems, TLAPS

(***************************************************************************)
(* What a thread inside a method knows.  A session it holds is one that    *)
(* has been started; if the current session had expired when it was called *)
(* then that session is still expired, and the object it judges is that    *)
(* one or a later one, since numbers are given out in order.  So a result  *)
(* that it returns is not the stale one.                                   *)
(***************************************************************************)
Holds(t) ==
    /\ run[t].obj <= Len(who)
    /\ run[t].stale <= Len(who)
    /\ run[t].stale # 0 => run[t].stale \in idle
    /\ run[t].at \in {"judge", "log", "clear"} =>
          /\ run[t].obj # 0
          /\ run[t].stale <= run[t].obj
    /\ run[t].at = "store" => run[t].user \in People
    /\ run[t].at = "back" /\ run[t].got # 0 => run[t].got # run[t].stale

\* Numbers are given out in order, and the current session has the last one.
OneLiveSession ==
    /\ current \in {0, Len(who)}
    /\ \A s \in 1 .. Len(fate) : fate[s] = "live" <=> s = current

Inv ==
    /\ SMTypeOK
    /\ OneLiveSession
    /\ \A t \in Threads : Holds(t)

LEMMA InvInit == SMInit => Inv
<1> SUFFICES ASSUME SMInit PROVE Inv
    OBVIOUS
<1> USE SessionAssumption DEF SMInit, Out
<1>1. SMTypeOK
    BY DEF SMTypeOK, Frame
<1>2. OneLiveSession
    BY DEF OneLiveSession
<1>3. ASSUME NEW t \in Threads PROVE Holds(t)
    <2>1. run[t] = Out
        OBVIOUS
    <2>2. Len(who) = 0
        OBVIOUS
    <2>3. QED
        BY <2>1, <2>2 DEF Holds
<1>4. QED
    BY <1>1, <1>2, <1>3 DEF Inv

\* A step that moves only one thread, within what that thread may know, and
\* leaves the sessions alone.
LEMMA MovesOne ==
    ASSUME Inv, NEW t \in Threads, NEW frame \in Frame,
           run' = [run EXCEPT ![t] = frame],
           UNCHANGED sessionVars, Holds(t)'
    PROVE  Inv'
<1>1. SMTypeOK'
    BY DEF Inv, SMTypeOK, sessionVars
<1>2. OneLiveSession'
    BY DEF Inv, OneLiveSession, sessionVars
<1>3. ASSUME NEW s \in Threads PROVE Holds(s)'
    <2>1. CASE s = t
        BY <2>1
    <2>2. CASE s # t
        <3>1. run'[s] = run[s]
            BY <2>2 DEF Inv, SMTypeOK
        <3>2. QED
            BY <3>1 DEF Inv, Holds, sessionVars
    <2>3. QED
        BY <2>1, <2>2
<1>4. QED
    BY <1>1, <1>2, <1>3 DEF Inv

\* The current session, if there is one, gets a fate other than live.
LEMMA GoneTypes ==
    ASSUME Inv, NEW how \in Fates \ {"live"}, Gone(how)
    PROVE  /\ fate' \in Seq(Fates)
           /\ Len(fate') = Len(fate)
           /\ \A s \in 1 .. Len(fate) : fate'[s] # "live"
<1>1. CASE current = 0
    BY <1>1 DEF Gone, Inv, SMTypeOK, OneLiveSession
<1>2. CASE current # 0
    <2>1. current \in 1 .. Len(fate)
        BY <1>2, SessionAssumption DEF Inv, SMTypeOK, OneLiveSession
    <2>2. fate' = [fate EXCEPT ![current] = how]
        BY <1>2 DEF Gone
    <2>3. fate \in Seq(Fates) /\ how \in Fates
        BY DEF Inv, SMTypeOK
    <2>4. /\ fate' \in Seq(Fates)
          /\ Len(fate') = Len(fate)
          /\ \A j \in 1 .. Len(fate) :
                fate'[j] = IF j = current THEN how ELSE fate[j]
        BY <2>1, <2>2, <2>3, ExceptSeq
    <2>5. \A s \in 1 .. Len(fate) : fate[s] = "live" <=> s = current
        BY DEF Inv, OneLiveSession
    <2>6. QED
        BY <2>4, <2>5
<1>3. QED
    BY <1>1, <1>2

\* A step that ends the current session and moves one thread.
LEMMA EndsOne ==
    ASSUME Inv, NEW t \in Threads, NEW frame \in Frame,
           run' = [run EXCEPT ![t] = frame],
           NEW how \in Fates \ {"live"}, Gone(how),
           current' = 0, UNCHANGED <<who, idle>>, Holds(t)'
    PROVE  Inv'
<1>1. SMTypeOK'
    BY GoneTypes, SessionAssumption DEF Inv, SMTypeOK
<1>2. OneLiveSession'
    BY GoneTypes DEF Inv, OneLiveSession
<1>3. ASSUME NEW s \in Threads PROVE Holds(s)'
    <2>1. CASE s = t
        BY <2>1
    <2>2. CASE s # t
        <3>1. run'[s] = run[s]
            BY <2>2 DEF Inv, SMTypeOK
        <3>2. QED
            BY <3>1 DEF Inv, Holds
    <2>3. QED
        BY <2>1, <2>2
<1>4. QED
    BY <1>1, <1>2, <1>3 DEF Inv

(***************************************************************************)
(* The steps of the methods.                                               *)
(***************************************************************************)
LEMMA FrameTypes ==
    ASSUME Inv, NEW t \in Threads
    PROVE  /\ run[t] \in Frame
           /\ current \in 0 .. MaxSessions
           /\ Len(who) \in Nat
           /\ Len(who) <= MaxSessions
           /\ MaxSessions \in Nat
           /\ current \in {0, Len(who)}
    BY SessionAssumption DEF Inv, SMTypeOK, OneLiveSession

LEMMA ReturnsFrame ==
    ASSUME Inv, NEW t \in Threads, NEW s \in 0 .. MaxSessions, Returns(t, s)
    PROVE  /\ Back(t, s) \in Frame
           /\ run' = [run EXCEPT ![t] = Back(t, s)]
           /\ run'[t] = Back(t, s)
<1>1. run[t].stale \in 0 .. MaxSessions
    BY FrameTypes DEF Frame
<1>2. Back(t, s) \in Frame
    BY <1>1, FrameTypes DEF Back, Frame
<1>3. QED
    BY <1>2 DEF Returns, Inv, SMTypeOK

LEMMA LookKeeps == ASSUME Inv, NEW t \in Threads, Look(t) PROVE Inv'
<1> USE FrameTypes DEF Frame
<1>1. CASE current = 0
    <2>1. Returns(t, 0)
        BY <1>1 DEF Look
    <2>2. run'[t] = Back(t, 0)
        BY <2>1, ReturnsFrame
    <2>3. Holds(t)'
        BY <2>2 DEF Holds, Inv, Look, sessionVars, Back
    <2>4. QED
        BY <2>1, <2>3, ReturnsFrame, MovesOne DEF Look
<1>2. CASE current # 0
    <2> DEFINE frame == [run[t] EXCEPT !.at = "judge", !.obj = current]
    <2>1. frame \in Frame /\ run' = [run EXCEPT ![t] = frame]
        BY <1>2 DEF Look
    <2>2. run'[t] = frame
        BY <2>1 DEF Inv, SMTypeOK
    <2>3. Holds(t)'
        BY <1>2, <2>2 DEF Holds, Inv, Look, sessionVars
    <2>4. QED
        BY <2>1, <2>3, MovesOne DEF Look
<1>3. QED
    BY <1>1, <1>2

\* The result is another session than the one judged only if it is later.
LEMMA JudgeKeeps == ASSUME Inv, NEW t \in Threads, Judge(t) PROVE Inv'
<1> USE FrameTypes DEF Frame
<1>1. CASE run[t].obj \in idle
    <2> DEFINE frame == [run[t] EXCEPT !.at = "log"]
    <2>1. frame \in Frame /\ run' = [run EXCEPT ![t] = frame]
        BY <1>1 DEF Judge, GoTo
    <2>2. run'[t] = frame
        BY <2>1 DEF Inv, SMTypeOK
    <2>3. Holds(t)'
        BY <2>2 DEF Holds, Inv, Judge, sessionVars
    <2>4. QED
        BY <2>1, <2>3, MovesOne DEF Judge
<1>2. CASE run[t].obj \notin idle
    <2>1. Returns(t, current)
        BY <1>2 DEF Judge
    <2>2. run'[t] = Back(t, current)
        BY <2>1, ReturnsFrame
    <2>3. current # 0 => current # run[t].stale
        BY <1>2 DEF Holds, Inv, Judge
    <2>4. Holds(t)'
        BY <2>2, <2>3 DEF Holds, Inv, Judge, sessionVars, Back
    <2>5. QED
        BY <2>1, <2>4, ReturnsFrame, MovesOne DEF Judge
<1>3. QED
    BY <1>1, <1>2

\* The steps that log, and those that enter or leave a method.
LEMMA GoToKeeps ==
    ASSUME Inv, NEW t \in Threads, UNCHANGED sessionVars,
           NEW at \in {"clear", "endClear"}, GoTo(t, at),
           at = "clear" => run[t].at = "log"
    PROVE  Inv'
<1> DEFINE frame == [run[t] EXCEPT !.at = at]
<1>1. frame \in Frame /\ run' = [run EXCEPT ![t] = frame]
    BY FrameTypes DEF GoTo, Frame
<1>2. run'[t] = frame
    BY <1>1 DEF Inv, SMTypeOK
<1>3. Holds(t)'
    BY <1>2, FrameTypes DEF Holds, Inv, sessionVars, Frame
<1>4. QED
    BY <1>1, <1>3, MovesOne

LEMMA FreshKeeps ==
    ASSUME Inv, NEW t \in Threads, UNCHANGED sessionVars,
           NEW frame \in Frame, run' = [run EXCEPT ![t] = frame],
           frame.obj = 0, frame.got = 0,
           frame.at \notin {"judge", "log", "clear", "store"},
           frame.stale \in {0} \cup idle
    PROVE  Inv'
<1>1. run'[t] = frame
    BY DEF Inv, SMTypeOK
<1>2. frame.stale <= Len(who)
    <2>1. CASE frame.stale = 0
        BY <2>1, FrameTypes
    <2>2. CASE frame.stale \in idle
        <3>1. idle \subseteq 1 .. Len(who)
            BY DEF Inv, SMTypeOK
        <3>2. frame.stale \in 1 .. Len(who)
            BY <2>2, <3>1
        <3>3. QED
            BY <3>2, FrameTypes
    <2>3. QED
        BY <2>1, <2>2
<1>3. Holds(t)'
    BY <1>1, <1>2, FrameTypes DEF Holds, sessionVars
<1>4. QED
    BY <1>3, MovesOne

LEMMA RaisesKeeps ==
    ASSUME Inv, NEW t \in Threads, UNCHANGED sessionVars, Raises(t)
    PROVE  Inv'
<1>1. [Out EXCEPT !.at = "raised"] \in Frame
    BY FrameTypes DEF Frame, Out
<1>2. QED
    BY <1>1, FreshKeeps DEF Raises, Out

LEMMA LogKeeps == ASSUME Inv, NEW t \in Threads, Log(t) PROVE Inv'
    BY GoToKeeps, RaisesKeeps DEF Log

LEMMA EndLogKeeps == ASSUME Inv, NEW t \in Threads, EndLog(t) PROVE Inv'
    BY GoToKeeps, RaisesKeeps DEF EndLog

LEMMA ClearKeeps == ASSUME Inv, NEW t \in Threads, Clear(t) PROVE Inv'
<1> USE FrameTypes DEF Frame
<1> DEFINE how == IF current = run[t].obj THEN "expired" ELSE "lost"
<1>1. Returns(t, 0)
    BY DEF Clear
<1>2. run'[t] = Back(t, 0)
    BY <1>1, ReturnsFrame
<1>3. Holds(t)'
    BY <1>2 DEF Holds, Inv, Clear, Back
<1>4. how \in Fates \ {"live"} /\ Gone(how)
    BY DEF Clear, Fates
<1>5. QED
    BY <1>1, <1>3, <1>4, ReturnsFrame, EndsOne DEF Clear

\* What follows the end of a session: the method returns, or stores the next.
LEMMA EndedFrame ==
    ASSUME Inv, NEW t \in Threads, Ended(t), Len(who') = Len(who), idle' = idle
    PROVE  /\ \E frame \in Frame : run' = [run EXCEPT ![t] = frame]
           /\ Holds(t)'
<1> USE FrameTypes DEF Frame
<1>1. CASE run[t].user = NoPerson
    <2>1. Returns(t, 0)
        BY <1>1 DEF Ended
    <2>2. run'[t] = Back(t, 0)
        BY <2>1, ReturnsFrame
    <2>3. Holds(t)'
        BY <2>2 DEF Holds, Inv, Back
    <2>4. QED
        BY <2>1, <2>3, ReturnsFrame
<1>2. CASE run[t].user # NoPerson
    <2> DEFINE frame == [run[t] EXCEPT !.at = "store"]
    <2>1. frame \in Frame /\ run' = [run EXCEPT ![t] = frame]
        BY <1>2 DEF Ended, GoTo
    <2>2. run'[t] = frame
        BY <2>1 DEF Inv, SMTypeOK
    <2>3. Holds(t)'
        BY <1>2, <2>2 DEF Holds, Inv
    <2>4. QED
        BY <2>1, <2>3
<1>3. QED
    BY <1>1, <1>2

LEMMA EndLookKeeps == ASSUME Inv, NEW t \in Threads, EndLook(t) PROVE Inv'
<1>1. CASE current = 0
    <2>1. Ended(t) /\ UNCHANGED sessionVars
        BY <1>1 DEF EndLook
    <2>2. Len(who') = Len(who) /\ idle' = idle
        BY <2>1 DEF sessionVars
    <2>3. QED
        BY <2>1, <2>2, EndedFrame, MovesOne
<1>2. CASE current # 0
    <2> DEFINE frame == [run[t] EXCEPT !.at = "endLog", !.obj = current]
    <2>1. frame \in Frame /\ run' = [run EXCEPT ![t] = frame]
        BY <1>2, FrameTypes DEF EndLook, Frame
    <2>2. run'[t] = frame
        BY <2>1 DEF Inv, SMTypeOK
    <2>3. Holds(t)'
        BY <1>2, <2>2, FrameTypes DEF Holds, Inv, EndLook, sessionVars, Frame
    <2>4. QED
        BY <2>1, <2>3, MovesOne DEF EndLook
<1>3. QED
    BY <1>1, <1>2

LEMMA EndClearKeeps == ASSUME Inv, NEW t \in Threads, EndClear(t) PROVE Inv'
<1>1. Ended(t) /\ Len(who') = Len(who) /\ idle' = idle
    BY DEF EndClear
<1>2. "ended" \in Fates \ {"live"}
    BY DEF Fates
<1>3. QED
    BY <1>1, <1>2, EndedFrame, EndsOne DEF EndClear

\* The new session is the one with the highest number, and whatever was
\* current has been replaced.
LEMMA StoreKeeps == ASSUME Inv, NEW t \in Threads, Store(t) PROVE Inv'
<1> DEFINE left == IF current = 0 THEN fate ELSE [fate EXCEPT ![current] = "replaced"]
<1>1. /\ who \in Seq(People) /\ fate \in Seq(Fates) /\ Len(fate) = Len(who)
      /\ current \in {0, Len(who)} /\ Len(who) \in Nat
      /\ run[t].user \in People
    BY FrameTypes DEF Inv, SMTypeOK, OneLiveSession, Holds, Store
<1>2. /\ left \in Seq(Fates)
      /\ Len(left) = Len(who)
      /\ \A s \in 1 .. Len(who) : left[s] # "live"
    <2>1. CASE current = 0
        BY <1>1, <2>1 DEF Inv, OneLiveSession
    <2>2. CASE current # 0
        <3>1. current \in 1 .. Len(fate)
            BY <1>1, <2>2
        <3>2. "replaced" \in Fates
            BY DEF Fates
        <3>3. /\ left \in Seq(Fates)
              /\ Len(left) = Len(fate)
              /\ \A j \in 1 .. Len(fate) :
                    left[j] = IF j = current THEN "replaced" ELSE fate[j]
            BY <1>1, <2>2, <3>1, <3>2, ExceptSeq
        <3>4. \A s \in 1 .. Len(fate) : fate[s] = "live" <=> s = current
            BY DEF Inv, OneLiveSession
        <3>5. QED
            BY <1>1, <3>3, <3>4
    <2>3. QED
        BY <2>1, <2>2
<1>3. /\ who' \in Seq(People)
      /\ Len(who') = Len(who) + 1
    BY <1>1, AppendProperties DEF Store
<1>4. "live" \in Fates /\ fate' = Append(left, "live")
    BY DEF Store, Fates
<1>5. /\ fate' \in Seq(Fates)
      /\ Len(fate') = Len(who')
      /\ fate'[Len(who')] = "live"
      /\ \A s \in 1 .. Len(who) : fate'[s] = left[s]
    <2> HIDE DEF left
    <2>1. QED
        BY <1>1, <1>2, <1>3, <1>4, AppendProperties
<1>6. current' = Len(who') /\ Len(who') <= MaxSessions /\ idle' = idle
    BY <1>1, <1>3, FrameTypes DEF Store
<1>7. 0 \in 0 .. MaxSessions /\ Returns(t, 0)
    BY FrameTypes DEF Store
<1>8. SMTypeOK'
    <2>1. run' \in [Threads -> Frame]
        BY <1>7, ReturnsFrame DEF Inv, SMTypeOK
    <2>2. idle' \subseteq 1 .. Len(who')
        <3>1. idle \subseteq 1 .. Len(who)
            BY DEF Inv, SMTypeOK
        <3>2. QED
            BY <1>1, <1>3, <1>6, <3>1
    <2>3. current' \in 0 .. MaxSessions
        BY <1>1, <1>3, <1>6, FrameTypes
    <2>4. QED
        BY <1>3, <1>5, <1>6, <2>1, <2>2, <2>3 DEF SMTypeOK
<1>9. OneLiveSession'
    <2> HIDE DEF left
    <2>1. ASSUME NEW s \in 1 .. Len(fate')
          PROVE  fate'[s] = "live" <=> s = current'
        <3>1. s \in 1 .. Len(who) \/ s = Len(who')
            BY <1>1, <1>3, <1>5
        <3>2. QED
            BY <1>1, <1>2, <1>3, <1>5, <1>6, <3>1
    <2>2. QED
        BY <1>6, <2>1 DEF OneLiveSession
<1>10. ASSUME NEW s \in Threads PROVE Holds(s)'
    <2>1. CASE s = t
        <3>1. run'[t] = Back(t, 0)
            BY <1>7, ReturnsFrame
        <3>2. QED
            BY <1>1, <1>3, <1>6, <2>1, <3>1, FrameTypes DEF Inv, Holds, Back, Frame
    <2>2. CASE s # t
        <3>1. run'[s] = run[s]
            BY <1>7, <2>2, ReturnsFrame DEF Inv, SMTypeOK
        <3>2. run[s] \in Frame
            BY FrameTypes
        <3>3. QED
            BY <1>1, <1>3, <1>6, <3>1, <3>2 DEF Inv, Holds, Frame
    <2>3. QED
        BY <2>1, <2>2
<1>11. QED
    BY <1>8, <1>9, <1>10 DEF Inv

\* A session that is touched is stale for nobody.
LEMMA TouchKeeps == ASSUME Inv, Touch PROVE Inv'
<1>1. ASSUME NEW t \in Threads
      PROVE  /\ run'[t] = [run[t] EXCEPT !.stale = run'[t].stale]
             /\ run'[t] \in Frame
             /\ run'[t].stale = IF run[t].stale = current THEN 0 ELSE run[t].stale
    <2>1. run[t] \in Frame /\ 0 \in 0 .. MaxSessions
        BY FrameTypes
    <2>2. run'[t] = IF run[t].stale = current THEN [run[t] EXCEPT !.stale = 0]
                                              ELSE run[t]
        BY DEF Touch
    <2>3. QED
        BY <2>1, <2>2 DEF Frame
<1>2. SMTypeOK'
    <2>1. run' \in [Threads -> Frame]
        BY <1>1 DEF Touch
    <2>2. QED
        BY <2>1 DEF Touch, Inv, SMTypeOK
<1>3. OneLiveSession'
    BY DEF Touch, Inv, OneLiveSession
<1>4. ASSUME NEW t \in Threads PROVE Holds(t)'
    <2>1. run[t] \in Frame
        BY FrameTypes
    <2>2. /\ run'[t].at = run[t].at
          /\ run'[t].obj = run[t].obj
          /\ run'[t].user = run[t].user
          /\ run'[t].got = run[t].got
        BY <1>1, <2>1 DEF Frame
    <2>3. Holds(t)
        BY DEF Inv
    <2>4. CASE run[t].stale = current
        BY <1>1, <2>1, <2>2, <2>3, <2>4, FrameTypes DEF Holds, Touch, Frame
    <2>5. CASE run[t].stale # current
        BY <1>1, <2>1, <2>2, <2>3, <2>5, FrameTypes DEF Holds, Touch, Frame
    <2>6. QED
        BY <2>4, <2>5
<1>5. QED
    BY <1>2, <1>3, <1>4 DEF Inv

LEMMA TimePassesKeeps == ASSUME Inv, TimePasses PROVE Inv'
<1>1. current \in 1 .. Len(who)
    BY FrameTypes, SessionAssumption DEF TimePasses, Inv, SMTypeOK, OneLiveSession
<1>2. SMTypeOK'
    BY <1>1 DEF TimePasses, Inv, SMTypeOK
<1>3. OneLiveSession'
    BY DEF TimePasses, Inv, OneLiveSession
<1>4. \A t \in Threads : Holds(t)'
    BY DEF TimePasses, Inv, Holds
<1>5. QED
    BY <1>2, <1>3, <1>4 DEF Inv

LEMMA OutTypes ==
    ASSUME Inv
    PROVE  /\ Out \in Frame
           /\ Out.obj = 0 /\ Out.got = 0 /\ Out.stale = 0 /\ Out.user = NoPerson
<1>1. 0 \in 0 .. MaxSessions
    BY SessionAssumption
<1>2. QED
    BY <1>1 DEF Out, Frame

\* A call starts with nothing in hand but the session it has found expired.
LEMMA CallKeeps == ASSUME Inv, NEW t \in Threads, AnyCall(t) PROVE Inv'
<1>1. UNCHANGED sessionVars
    BY DEF AnyCall
<1>2. CASE CallCurrentSession(t)
    <2> DEFINE seen == IF current \in idle THEN current ELSE 0
               frame == [Out EXCEPT !.at = "look", !.stale = seen]
    <2>1. seen \in 0 .. MaxSessions /\ seen \in {0} \cup idle
        BY FrameTypes
    <2> HIDE DEF seen
    <2>2. /\ frame \in Frame
          /\ frame.obj = 0 /\ frame.got = 0 /\ frame.at = "look"
          /\ frame.stale = seen
        BY <2>1, OutTypes DEF Frame
    <2>3. run' = [run EXCEPT ![t] = frame]
        BY <1>2 DEF CallCurrentSession, Enter, seen
    <2> HIDE DEF frame
    <2>4. QED
        BY <1>1, <2>1, <2>2, <2>3, FreshKeeps
<1>3. ASSUME NEW u \in People \cup {NoPerson},
             run' = [run EXCEPT ![t] = [Out EXCEPT !.at = "endLook", !.user = u]]
      PROVE  Inv'
    <2> DEFINE frame == [Out EXCEPT !.at = "endLook", !.user = u]
    <2>1. /\ frame \in Frame
          /\ frame.obj = 0 /\ frame.got = 0 /\ frame.at = "endLook"
          /\ frame.stale = 0
        BY OutTypes DEF Frame
    <2>2. QED
        BY <1>1, <1>3, <2>1, FreshKeeps
<1>4. CASE CallEndSession(t)
    <2>1. [Out EXCEPT !.at = "endLook"] = [Out EXCEPT !.at = "endLook", !.user = NoPerson]
        BY OutTypes DEF Frame
    <2>2. QED
        BY <1>3, <1>4, <2>1 DEF CallEndSession, Enter
<1>5. CASE \E u \in People : CallStartSession(t, u)
    BY <1>3, <1>5 DEF CallStartSession, Enter
<1>6. QED
    BY <1>2, <1>4, <1>5 DEF AnyCall

LEMMA FinishedKeeps == ASSUME Inv, NEW t \in Threads, Finished(t) PROVE Inv'
<1>1. Out \in Frame
    BY FrameTypes DEF Out, Frame
<1>2. QED
    BY <1>1, FreshKeeps DEF Finished, Leave, Out

LEMMA InvStep == Inv /\ [SMNext]_smVars => Inv'
<1> SUFFICES ASSUME Inv, [SMNext]_smVars PROVE Inv'
    OBVIOUS
<1>1. ASSUME NEW t \in Threads, SMStep(t) PROVE Inv'
    BY <1>1, LookKeeps, JudgeKeeps, LogKeeps, ClearKeeps, EndLookKeeps,
       EndLogKeeps, EndClearKeeps, StoreKeeps DEF SMStep
<1>2. CASE UNCHANGED smVars
    BY <1>2 DEF smVars, Inv, SMTypeOK, OneLiveSession, Holds
<1>3. QED
    BY <1>1, <1>2, CallKeeps, FinishedKeeps, TouchKeeps, TimePassesKeeps DEF SMNext

LEMMA Invariance == SMSpec => []Inv
    BY InvInit, InvStep, PTL DEF SMSpec

(***************************************************************************)
(* The theorems.                                                           *)
(***************************************************************************)

\* The attributes and locals of the session manager keep their types.
THEOREM SMTypeCorrect == SMSpec => []SMTypeOK
<1>1. Inv => SMTypeOK
    BY DEF Inv
<1>2. QED
    BY <1>1, Invariance, PTL

\* current_session never returns a session that had expired when it was
\* called and has not been touched since, on any number of threads.
THEOREM NeverStale == SMSpec => []NoStaleResult
<1>1. Inv => NoStaleResult
    BY DEF Inv, Holds, NoStaleResult, Returned
<1>2. QED
    BY <1>1, Invariance, PTL
=============================================================================
