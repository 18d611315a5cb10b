--------------------------- MODULE SessionManager ---------------------------
(***************************************************************************)
(* SessionManager, the holder of the kiosk's one session, as the event     *)
(* loop and the threads of the request pool use it at the same time.  The  *)
(* class has no lock.  A method is a few steps, and another thread may run *)
(* between two of them wherever CPython can switch threads: inside the     *)
(* calls of is_expired and elapsed_seconds, and while a line is logged.    *)
(*                                                                         *)
(* Sessions are numbered in the order in which they become current.        *)
(***************************************************************************)
EXTENDS Naturals, Sequences

CONSTANTS
    Threads,      \* callers: the event loop and the threads of the pool
    People,       \* users
    NoPerson,     \* "no session to be started"
    MaxSessions   \* bound: sessions started

ASSUME SessionAssumption ==
    /\ NoPerson \notin People
    /\ MaxSessions \in Nat

VARIABLES
    current,   \* _current: a session's number, or 0 for None
    who,       \* the user of each session
    idle,      \* sessions whose is_expired is true
    fate,      \* observation: how each session ceased to be current
    run        \* the method each thread is in

smVars == <<current, who, idle, fate, run>>
sessionVars == <<current, who, idle, fate>>

\* stale is an observation: the session that had expired, and was still
\* current, when the thread called current_session, unless touched since.
Frame == [at : {"out", "look", "judge", "log", "clear",
                "endLook", "endLog", "endClear", "store", "back", "raised"},
          obj : 0 .. MaxSessions,       \* the session object in hand
          user : People \cup {NoPerson},  \* whose session is being started
          got : 0 .. MaxSessions,       \* the method's result
          stale : 0 .. MaxSessions]

Out == [at |-> "out", obj |-> 0, user |-> NoPerson, got |-> 0, stale |-> 0]

SMInit ==
    /\ current = 0
    /\ who = <<>>
    /\ idle = {}
    /\ fate = <<>>
    /\ run = [t \in Threads |-> Out]

-----------------------------------------------------------------------------
(* Entering and leaving a method *)

Enter(t, frame) ==
    /\ run[t].at \in {"out", "back"}
    /\ run' = [run EXCEPT ![t] = frame]

CallCurrentSession(t) ==
    Enter(t, [Out EXCEPT !.at = "look",
                         !.stale = IF current \in idle THEN current ELSE 0])
CallEndSession(t) == Enter(t, [Out EXCEPT !.at = "endLook"])
CallStartSession(t, u) ==
    Enter(t, [Out EXCEPT !.at = "endLook", !.user = u])

Back(t, s) == [at |-> "back", obj |-> 0, user |-> NoPerson, got |-> s,
               stale |-> run[t].stale]
Returns(t, s) == run' = [run EXCEPT ![t] = Back(t, s)]
Raises(t) == run' = [run EXCEPT ![t] = [Out EXCEPT !.at = "raised"]]
Leave(t) == run' = [run EXCEPT ![t] = Out]

GoTo(t, at) == run' = [run EXCEPT ![t].at = at]
Returned(t) == run[t].at = "back"
Raised(t) == run[t].at = "raised"

\* The current session, if there is one, ceases to be current.
Gone(how) ==
    fate' = IF current = 0 THEN fate ELSE [fate EXCEPT ![current] = how]

-----------------------------------------------------------------------------
(* current_session *)

Look(t) ==
    /\ run[t].at = "look"
    /\ IF current = 0 THEN Returns(t, 0)
       ELSE run' = [run EXCEPT ![t].at = "judge", ![t].obj = current]
    /\ UNCHANGED sessionVars

\* Mutant: the session is not judged.
Judge_NeverExpired(t) ==
    run[t].at = "judge" /\ Returns(t, current) /\ UNCHANGED sessionVars

\* is_expired of the object in hand, and _current once more if it is not.
Judge(t) ==
    /\ run[t].at = "judge"
    /\ IF run[t].obj \in idle THEN GoTo(t, "log") ELSE Returns(t, current)
    /\ UNCHANGED sessionVars

\* The arguments of the log line read _current.user and _current.idle_seconds.
Log(t) ==
    /\ run[t].at = "log"
    /\ IF current = 0 THEN Raises(t) ELSE GoTo(t, "clear")
    /\ UNCHANGED sessionVars

\* _current may hold another session by now than the one that has expired.
Clear(t) ==
    /\ run[t].at = "clear"
    /\ current' = 0
    /\ Gone(IF current = run[t].obj THEN "expired" ELSE "lost")
    /\ Returns(t, 0)
    /\ UNCHANGED <<who, idle>>

-----------------------------------------------------------------------------
(* end_session, and start_session, which calls it *)

Ended(t) == IF run[t].user = NoPerson THEN Returns(t, 0) ELSE GoTo(t, "store")

EndLook(t) ==
    /\ run[t].at = "endLook"
    /\ IF current = 0 THEN Ended(t)
       ELSE run' = [run EXCEPT ![t].at = "endLog", ![t].obj = current]
    /\ UNCHANGED sessionVars

EndLog(t) ==
    /\ run[t].at = "endLog"
    /\ IF current = 0 THEN Raises(t) ELSE GoTo(t, "endClear")
    /\ UNCHANGED sessionVars

EndClear(t) ==
    /\ run[t].at = "endClear"
    /\ current' = 0
    /\ Gone("ended")
    /\ Ended(t)
    /\ UNCHANGED <<who, idle>>

\* The result is _current read again after a log line; no caller uses it.
Store(t) ==
    /\ run[t].at = "store"
    /\ Len(who) < MaxSessions
    /\ who' = Append(who, run[t].user)
    /\ current' = Len(who) + 1
    /\ fate' = Append(IF current = 0 THEN fate
                      ELSE [fate EXCEPT ![current] = "replaced"], "live")
    /\ Returns(t, 0)
    /\ UNCHANGED idle

-----------------------------------------------------------------------------
\* touch restarts the idle time of the session that is current, expired or
\* not; a session object bound before the switch of threads and replaced
\* since is nobody's concern any more.
Touch ==
    /\ idle' = idle \ {current}
    /\ run' = [t \in Threads |->
                 IF run[t].stale = current THEN [run[t] EXCEPT !.stale = 0]
                                           ELSE run[t]]
    /\ UNCHANGED <<current, who, fate>>

\* The inactivity timeout of the current session passes.  (That of a session
\* which is no longer current is looked at by no one who has not seen it pass
\* before.)
TimePasses ==
    /\ current # 0
    /\ idle' = idle \cup {current}
    /\ UNCHANGED <<current, who, fate, run>>

SMStep(t) ==
    \/ Look(t) \/ Judge(t) \/ Log(t) \/ Clear(t)
    \/ EndLook(t) \/ EndLog(t) \/ EndClear(t) \/ Store(t)

\* Callers of every kind, in any order: see AppContext for those there are.
AnyCall(t) ==
    /\ \/ CallCurrentSession(t)
       \/ CallEndSession(t)
       \/ \E u \in People : CallStartSession(t, u)
    /\ UNCHANGED sessionVars

Finished(t) ==
    /\ Returned(t) \/ Raised(t)
    /\ Leave(t)
    /\ UNCHANGED sessionVars

SMNext ==
    \/ \E t \in Threads : SMStep(t) \/ AnyCall(t) \/ Finished(t)
    \/ Touch
    \/ TimePasses

SMSpec == SMInit /\ [][SMNext]_smVars

-----------------------------------------------------------------------------
(* Properties *)

Fates == {"live", "expired", "ended", "replaced", "lost"}

\* The attributes of the manager and the locals of its methods have the
\* values their code can give them.
SMTypeOK ==
    /\ current \in 0 .. MaxSessions
    /\ who \in Seq(People)
    /\ Len(who) <= MaxSessions
    /\ idle \subseteq 1 .. Len(who)
    /\ fate \in Seq(Fates)
    /\ Len(fate) = Len(who)
    /\ run \in [Threads -> Frame]

\* "Sessions end via a second card tap, the "End Session" button, or an
\* inactivity timeout": no session ends because another one has expired.
EndsAsDocumented == \A s \in 1 .. Len(fate) : fate[s] # "lost"

\* "callers never see a stale session": current_session never returns a
\* session that had expired when it was called and has not been touched since,
\* whatever the other threads do to the manager meanwhile.
NoStaleResult ==
    \A t \in Threads :
        Returned(t) /\ run[t].got # 0 => run[t].got # run[t].stale
=============================================================================
