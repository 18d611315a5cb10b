----------------------------- MODULE AppContext -----------------------------
(***************************************************************************)
(* The context of the server: the NFC bridge, a task of the event loop,    *)
(* and the requests of the browsers, each on a thread of the pool, around  *)
(* one SessionManager, one pending registration and the users table.       *)
(*                                                                         *)
(* A card stands for its UID, and for the user it belongs to.  Card        *)
(* removals, taps whose UID could not be read, a reader that is plugged in *)
(* and polls that time out send the bridge back to the top of its loop.    *)
(***************************************************************************)
EXTENDS SessionManager, FiniteSets

CONSTANTS
    Loop,          \* the thread of the event loop
    Ops,           \* endpoints the browsers call
    PanelAdmin,    \* the first active admin, and the only one
    FirstUsers,    \* users enrolled from the command line
    MaxRegs,       \* bound: registrations started
    MaxTaps        \* bound: events waiting in the reader's queue

Pool == Threads \ {Loop}
Guarded == {"touch", "end", "enroll"}   \* endpoints behind require_session
Endpoints == Guarded \cup {"status", "register", "cancel", "panel"}

ASSUME ContextAssumption ==
    /\ Loop \in Threads
    /\ IsFiniteSet(Threads)
    /\ Ops \subseteq Endpoints
    /\ PanelAdmin \in FirstUsers
    /\ FirstUsers \subseteq People
    /\ MaxRegs \in Nat
    /\ MaxTaps \in Nat

VARIABLES
    taps,       \* the reader's queue of events
    bridge,     \* the bridge task: where it is and its locals
    job,        \* the request of each pool thread
    pending,    \* pending_registration: a registration's number, or 0
    regs,       \* the registrations
    enrolled,   \* the users table
    told        \* the last session event pushed to the browsers

contextVars == <<taps, bridge, job, pending, regs, enrolled, told>>
vars == <<smVars, contextVars>>

Idle == [op |-> "none", at |-> "none", adm |-> 0]

\* expired: its minute is over.  cancelled and cards are observations: whether
\* its cancellation was confirmed, and the cards it has enrolled.
NewRegistration == [expired |-> FALSE, cancelled |-> FALSE, cards |-> {}]

Init ==
    /\ SMInit
    /\ taps = <<>>
    /\ bridge = [at |-> "top", had |-> FALSE, card |-> NoPerson, pend |-> 0]
    /\ job = [p \in Pool |-> Idle]
    /\ pending = 0
    /\ regs = <<>>
    /\ enrolled = FirstUsers
    /\ told = "none"

-----------------------------------------------------------------------------
(* The reader *)

Unplugged == "unplugged"

\* Bounds: the panel is opened, and a card tapped for a login, only if the
\* session they may start is still within MaxSessions.  A card tapped for a
\* registration that is then cancelled waits for one at its login.
SessionLeft(waiting) ==
    Len(who) + Cardinality({p \in Pool : job[p].op = "panel"}) + waiting < MaxSessions

Room ==
    SessionLeft(Len(taps)
        + (IF bridge.at \in {"top", "topHas", "wait", "dead"} THEN 0 ELSE 1))

\* A card is put on the reader, or the reader is unplugged.
ReaderEvent(e) ==
    /\ Len(taps) < MaxTaps
    /\ e # Unplugged => Room \/ pending # 0
    /\ taps' = Append(taps, e)
    /\ UNCHANGED <<smVars, bridge, job, pending, regs, enrolled, told>>

-----------------------------------------------------------------------------
(* The bridge *)

At(place) == bridge.at = place /\ (Returned(Loop) \/ run[Loop].at = "out")
BridgeTo(place) == bridge' = [bridge EXCEPT !.at = place]
NextRound == bridge' = [bridge EXCEPT !.at = "top", !.card = NoPerson, !.pend = 0]
BridgeDone == NextRound /\ Leave(Loop)

BridgeTop ==
    /\ At("top")
    /\ BridgeTo("topHas")
    /\ CallCurrentSession(Loop)
    /\ UNCHANGED <<sessionVars, taps, job, pending, regs, enrolled, told>>

\* Mutant: the flag of the previous round is never set.
BridgeTopHas_Forgets ==
    /\ At("topHas")
    /\ BridgeTo("wait")
    /\ Leave(Loop)
    /\ UNCHANGED <<sessionVars, taps, job, pending, regs, enrolled, told>>

\* There was a session in the last round and there is none now.
BridgeTopHas ==
    /\ At("topHas")
    /\ told' = IF bridge.had /\ run[Loop].got = 0 THEN "session_timeout" ELSE told
    /\ bridge' = [bridge EXCEPT !.at = "wait", !.had = run[Loop].got # 0]
    /\ Leave(Loop)
    /\ UNCHANGED <<sessionVars, taps, job, pending, regs, enrolled>>

BridgePoll ==
    /\ At("wait")
    /\ \/ NextRound /\ UNCHANGED <<run, taps>>
       \/ /\ taps # <<>>
          /\ taps' = Tail(taps)
          /\ IF Head(taps) = Unplugged
             THEN BridgeTo("unplugHas") /\ CallCurrentSession(Loop)
             ELSE /\ bridge' = [bridge EXCEPT !.at = "tap", !.card = Head(taps)]
                  /\ UNCHANGED run
    /\ UNCHANGED <<sessionVars, job, pending, regs, enrolled, told>>

BridgeTap ==
    /\ At("tap")
    /\ IF pending # 0 THEN BridgeTo("regTap") /\ UNCHANGED run
                      ELSE BridgeTo("tapHas") /\ CallCurrentSession(Loop)
    /\ UNCHANGED <<sessionVars, taps, job, pending, regs, enrolled, told>>

\* Mutant: the registration stays pending.
RegistrationTap_Keeps ==
    /\ At("regTap")
    /\ bridge' = [bridge EXCEPT !.at = IF pending = 0 THEN "dead" ELSE "enroll",
                                !.pend = pending]
    /\ UNCHANGED <<smVars, taps, job, pending, regs, enrolled, told>>

\* _handle_registration_tap: the registration is read again, and if it has
\* been cancelled since, is_expired of None ends the bridge.
RegistrationTap ==
    /\ At("regTap")
    /\ IF pending = 0 THEN BridgeTo("dead")
       ELSE IF regs[pending].expired THEN NextRound
       ELSE bridge' = [bridge EXCEPT !.at = "enroll", !.pend = pending]
    /\ pending' = 0
    /\ UNCHANGED <<smVars, taps, job, regs, enrolled, told>>

\* A card that is enrolled already, a failed insert, or a new user.
Enroll ==
    /\ At("enroll")
    /\ NextRound
    /\ \/ UNCHANGED <<regs, enrolled>>
       \/ /\ bridge.card \notin enrolled
          /\ enrolled' = enrolled \cup {bridge.card}
          /\ regs' = [regs EXCEPT ![bridge.pend].cards = @ \cup {bridge.card}]
    /\ UNCHANGED <<smVars, taps, job, pending, told>>

\* Mutant: every tap is a login.
TapHas_AlwaysLogin ==
    /\ At("tapHas")
    /\ BridgeTo("auth") /\ Leave(Loop)
    /\ UNCHANGED <<sessionVars, taps, job, pending, regs, enrolled, told>>

TapHas ==
    /\ At("tapHas")
    /\ IF run[Loop].got = 0
       THEN BridgeTo("auth") /\ Leave(Loop)
       ELSE BridgeTo("tapCurrent") /\ CallCurrentSession(Loop)
    /\ UNCHANGED <<sessionVars, taps, job, pending, regs, enrolled, told>>

\* The second tap; it has no effect if the session has gone meanwhile.
TapCurrent ==
    /\ At("tapCurrent")
    /\ IF run[Loop].got = 0
       THEN BridgeDone
       ELSE BridgeTo("tapEnd") /\ CallEndSession(Loop)
    /\ UNCHANGED <<sessionVars, taps, job, pending, regs, enrolled, told>>

TapEnd ==
    /\ At("tapEnd")
    /\ told' = "session_ended"
    /\ BridgeDone
    /\ UNCHANGED <<sessionVars, taps, job, pending, regs, enrolled>>

Authenticate ==
    /\ At("auth")
    /\ SessionLeft(0)
    /\ IF bridge.card \in enrolled
       THEN BridgeTo("login") /\ CallStartSession(Loop, bridge.card)
       ELSE BridgeDone
    /\ UNCHANGED <<sessionVars, taps, job, pending, regs, enrolled, told>>

Login ==
    /\ At("login")
    /\ told' = "auth_success"
    /\ BridgeDone
    /\ UNCHANGED <<sessionVars, taps, job, pending, regs, enrolled>>

\* The reader has been unplugged: the session ends without an event of its own.
UnplugHas ==
    /\ At("unplugHas")
    /\ IF run[Loop].got = 0
       THEN BridgeDone
       ELSE BridgeTo("unplugEnd") /\ CallEndSession(Loop)
    /\ UNCHANGED <<sessionVars, taps, job, pending, regs, enrolled, told>>

UnplugEnd ==
    /\ At("unplugEnd")
    /\ BridgeDone
    /\ UNCHANGED <<sessionVars, taps, job, pending, regs, enrolled, told>>

\* Nothing catches what a method of the manager raises: the task is over.
BridgeRaised ==
    /\ Raised(Loop)
    /\ BridgeTo("dead")
    /\ Leave(Loop)
    /\ UNCHANGED <<sessionVars, taps, job, pending, regs, enrolled, told>>

BridgeStep ==
    \/ SMStep(Loop) /\ UNCHANGED contextVars
    \/ BridgeTop \/ BridgeTopHas \/ BridgePoll \/ BridgeTap \/ RegistrationTap
    \/ Enroll \/ TapHas \/ TapCurrent \/ TapEnd \/ Authenticate \/ Login
    \/ UnplugHas \/ UnplugEnd \/ BridgeRaised

-----------------------------------------------------------------------------
(* Requests *)

JobAt(p, place) == job[p].at = place /\ (Returned(p) \/ run[p].at = "out")
JobTo(p, place) == job' = [job EXCEPT ![p].at = place]
Reply(p) == job' = [job EXCEPT ![p] = Idle] /\ Leave(p)

\* Mutant: what is pending is not the new registration.
StartRegistration_Unmade ==
    /\ regs' = regs
    /\ pending' = Len(regs) + 1

\* The new registration takes the place of one that is pending.
StartRegistration ==
    /\ regs' = Append(regs, NewRegistration)
    /\ pending' = Len(regs) + 1

\* Bound: a request that may start a registration stays within MaxRegs.
Registering == {"register", "enroll"}
RoomToRegister ==
    Len(regs) + Cardinality({p \in Pool : job[p].op \in Registering}) < MaxRegs

\* has_active_session, in require_session and in the endpoints without it.
Request(p, op) ==
    /\ JobAt(p, "none")
    /\ op \in Guarded \cup {"status", "register"}
    /\ op \in Registering => RoomToRegister
    /\ job' = [job EXCEPT ![p] = [Idle EXCEPT !.op = op, !.at = "has"]]
    /\ CallCurrentSession(p)
    /\ UNCHANGED <<sessionVars, taps, bridge, pending, regs, enrolled, told>>

\* The hidden panel's session for the first active admin.
PanelRequest(p) ==
    /\ JobAt(p, "none")
    /\ PanelAdmin \in enrolled
    /\ Room
    /\ job' = [job EXCEPT ![p] = [Idle EXCEPT !.op = "panel", !.at = "panel"]]
    /\ CallStartSession(p, PanelAdmin)
    /\ UNCHANGED <<sessionVars, taps, bridge, pending, regs, enrolled, told>>

\* Mutant: the cancellation is confirmed and the registration kept.
CancelRegistration_Keeps ==
    /\ pending # 0
    /\ regs' = [regs EXCEPT ![pending].cancelled = TRUE]
    /\ UNCHANGED <<smVars, taps, bridge, job, pending, enrolled, told>>

\* Two statements with no call between them, so no other thread either.
CancelRegistration ==
    /\ pending # 0
    /\ regs' = [regs EXCEPT ![pending].cancelled = TRUE]
    /\ pending' = 0
    /\ UNCHANGED <<smVars, taps, bridge, job, enrolled, told>>

RequestHas(p) ==
    /\ JobAt(p, "has")
    /\ IF job[p].op = "register"
       THEN IF run[p].got # 0 THEN Reply(p)
            ELSE JobTo(p, "names") /\ Leave(p)
       ELSE IF run[p].got = 0 THEN Reply(p)
            ELSE JobTo(p, "current") /\ CallCurrentSession(p)
    /\ UNCHANGED <<sessionVars, taps, bridge, pending, regs, enrolled, told>>

RequestCurrent(p) ==
    /\ JobAt(p, "current")
    /\ IF job[p].op = "status" \/ run[p].got = 0
       THEN Reply(p)
       ELSE /\ job' = [job EXCEPT ![p].at = "touch", ![p].adm = run[p].got]
            /\ UNCHANGED run
    /\ UNCHANGED <<sessionVars, taps, bridge, pending, regs, enrolled, told>>

RequestTouch(p) ==
    /\ JobAt(p, "touch")
    /\ Touch
    /\ JobTo(p, "body")
    /\ UNCHANGED <<taps, bridge, pending, regs, enrolled, told>>

\* The endpoint behind require_session: nothing more, the end of whatever
\* session is current, or a registration by an admin.
RequestBody(p) ==
    /\ JobAt(p, "body")
    /\ \/ /\ job[p].op = "end"
          /\ JobTo(p, "ended") /\ CallEndSession(p)
          /\ UNCHANGED <<pending, regs>>
       \/ /\ job[p].op = "enroll"
          /\ who[job[p].adm] = PanelAdmin
          /\ StartRegistration
          /\ Reply(p)
       \/ /\ job[p].op # "end"
          /\ job[p].op = "enroll" => who[job[p].adm] # PanelAdmin
          /\ Reply(p)
          /\ UNCHANGED <<pending, regs>>
    /\ UNCHANGED <<sessionVars, taps, bridge, enrolled, told>>

EndReply(p) ==
    /\ JobAt(p, "ended")
    /\ told' = "session_ended"
    /\ Reply(p)
    /\ UNCHANGED <<sessionVars, taps, bridge, pending, regs, enrolled>>

\* The name is looked up in the registrants: refused, or it is pending now.
RegisterName(p) ==
    /\ JobAt(p, "names")
    /\ StartRegistration \/ UNCHANGED <<pending, regs>>
    /\ Reply(p)
    /\ UNCHANGED <<sessionVars, taps, bridge, enrolled, told>>

PanelReply(p) ==
    /\ JobAt(p, "panel") /\ Returned(p)
    /\ Reply(p)
    /\ UNCHANGED <<sessionVars, taps, bridge, pending, regs, enrolled, told>>

\* Status 500.
RequestRaised(p) ==
    /\ Raised(p)
    /\ Reply(p)
    /\ UNCHANGED <<sessionVars, taps, bridge, pending, regs, enrolled, told>>

RequestStep(p) ==
    \/ SMStep(p) /\ UNCHANGED contextVars
    \/ RequestHas(p) \/ RequestCurrent(p) \/ RequestTouch(p) \/ RequestBody(p)
    \/ EndReply(p) \/ RegisterName(p) \/ PanelReply(p) \/ RequestRaised(p)

-----------------------------------------------------------------------------
\* Timing: SESSION_TIMEOUT_SECONDS is much longer than a round of the bridge,
\* so a session is seen by the bridge once before it times out.
SessionTimeout ==
    /\ bridge.had \/ bridge.at = "dead"
    /\ TimePasses
    /\ UNCHANGED contextVars

RegistrationTimeout ==
    /\ pending # 0
    /\ regs' = [regs EXCEPT ![pending].expired = TRUE]
    /\ UNCHANGED <<smVars, taps, bridge, job, pending, enrolled, told>>

Next ==
    \/ \E e \in People \cup {Unplugged} : ReaderEvent(e)
    \/ BridgeStep
    \/ \E p \in Pool : RequestStep(p)
    \/ \E p \in Pool, op \in Ops : Request(p, op)
    \/ "panel" \in Ops /\ \E p \in Pool : PanelRequest(p)
    \/ "cancel" \in Ops /\ CancelRegistration
    \/ SessionTimeout
    \/ RegistrationTimeout

Spec == Init /\ [][Next]_vars

\* The loop's task and the pool's threads run; people and clocks owe nothing.
FairSpec ==
    /\ Spec
    /\ WF_vars(BridgeStep)
    /\ \A p \in Pool : WF_vars(RequestStep(p))

-----------------------------------------------------------------------------
(* Properties *)

Places == {"top", "topHas", "wait", "tap", "regTap", "enroll", "tapHas",
           "tapCurrent", "tapEnd", "auth", "login", "unplugHas", "unplugEnd",
           "dead"}

\* The context's attributes and the locals of the bridge and of the requests
\* have the values their code can give them.
TypeOK ==
    /\ SMTypeOK
    /\ taps \in Seq(People \cup {Unplugged})
    /\ bridge \in [at : Places, had : BOOLEAN, card : People \cup {NoPerson},
                    pend : 0 .. MaxRegs]
    /\ job \in [Pool -> [op : Endpoints \cup {"none"},
                         at : {"none", "has", "current", "touch", "body",
                               "ended", "names", "panel"},
                         adm : 0 .. MaxSessions]]
    /\ regs \in Seq([expired : BOOLEAN, cancelled : BOOLEAN,
                     cards : SUBSET People])
    /\ Len(regs) <= MaxRegs
    /\ pending \in 0 .. Len(regs)
    /\ enrolled \subseteq People
    /\ told \in {"none", "auth_success", "session_ended", "session_timeout"}

\* One started registration enrols one card at most, however taps, new
\* registrations and cancellations interleave with the bridge.
RegistrationOnce ==
    \A r \in 1 .. Len(regs) : Cardinality(regs[r].cards) <= 1

\* A registration whose cancellation has been confirmed ("cancelled": true)
\* enrols no card, not even one the bridge is handling already.
CancelKeepsOut ==
    \A r \in 1 .. Len(regs) : regs[r].cancelled => regs[r].cards = {}

\* What the people in front of the kiosk are promised.  The check that nobody is
\* logged in and the start of a session are many steps apart, as are the check
\* that a registration is pending and the enrolment; yet a card takes over no
\* session but the panel's, only enrolled people are logged in, and every
\* enrolment uses up a registration that nobody has cancelled.
Panel == IF "panel" \in Ops THEN {PanelAdmin} ELSE {}

TheKiosk == INSTANCE Kiosk WITH
    user <- IF current = 0 THEN NoPerson ELSE who[current],
    entering <- IF bridge.at = "login" /\ ~Returned(Loop) THEN bridge.card ELSE NoPerson,
    asked <- Len(regs),
    open <- {r \in 1 .. Len(regs) :
                r = pending \/ (bridge.at = "enroll" /\ r = bridge.pend)}

ImplementsKiosk == TheKiosk!Spec

\* When a session is over, for whatever reason of its own and on whatever
\* thread, the browsers are told, unless another one is started first or the
\* bridge has come to its end.  (Of a session that is lost to the expiry of an
\* earlier one they may not be told.)
LogoutTold ==
    (current = 0 /\ told = "auth_success" /\ fate[Len(fate)] # "lost")
        ~> (current # 0 \/ told # "auth_success" \/ bridge.at = "dead")

\* A session that times out ends although nobody asks for it: the bridge's
\* poll clears it.
IdleSessionEnds ==
    \A s \in 1 .. MaxSessions :
        (current = s /\ s \in idle)
            ~> (current # s \/ s \notin idle \/ bridge.at = "dead")

\* The bridge runs until it is cancelled.
BridgeRuns == bridge.at # "dead"
=============================================================================
