--------------------------- MODULE RequestSessions ---------------------------
(***************************************************************************)
(* Which SQLAlchemy session a request works with, and what overlapping     *)
(* requests do to each other.  The factory is a scoped_session: it has one *)
(* session per thread and makes it on demand.  get_session opens, commits  *)
(* and removes it on one thread; get_db is a generator whose two halves    *)
(* FastAPI runs on any thread of its pool, with the endpoint in between on *)
(* a third.  So a request of the pool may be given the session of another  *)
(* one, and the import of the admin's button, which is an endpoint that    *)
(* calls get_session on its pool thread, too.                              *)
(*                                                                         *)
(* The requests are those of one user: each borrows a device of its own or *)
(* returns one that the user has had from the start.  A request writes the *)
(* row, then the log; the two writes of an import or a tap stand for its   *)
(* first and its later rows.  A session is named after who has made it.    *)
(***************************************************************************)
EXTENDS Naturals, FiniteSets

CONSTANTS
    Requests,    \* borrow and return requests of one user, each made once
    Borrows,     \* those that borrow
    Buttons,     \* imports of the admin's button, on a thread of the pool
    Jobs,        \* other imports and taps, on a thread of their own
    Pool,        \* threads of FastAPI's pool
    MaxBorrows,
    NoSession    \* a thread without a session

Pooled == Requests \cup Buttons
Users == Pooled \cup Jobs
Threads == Pool \cup Jobs
Parts == Users \X {"row", "log"}

ASSUME SessionsAssumption ==
    /\ Requests \cap Buttons = {}
    /\ Pooled \cap Jobs = {}
    /\ Pool \cap Jobs = {}
    /\ NoSession \notin Users \cup Threads
    /\ IsFiniteSet(Requests)
    /\ Borrows \subseteq Requests
    /\ MaxBorrows \in Nat
    /\ Cardinality(Requests \ Borrows) <= MaxBorrows

VARIABLES
    registry,   \* scoped_session's sessions, by thread
    at,         \* where each request is
    on,         \* the thread it keeps: a request's from its leaving on
    mine,       \* the session it has been given
    attached,   \* its device is an object of that session
    flushed,    \* what each session's open transaction has written
    kept,       \* what has been committed
    answer,     \* what it has been told
    alone,      \* observation: nobody of the pool has overlapped it so far
    crowd       \* observation: so many requests at most have overlapped

vars == <<registry, at, on, mine, attached, flushed, kept, answer, alone, crowd>>

Init ==
    /\ registry = [t \in Threads |-> NoSession]
    /\ at = [r \in Users |-> "new"]
    /\ on = [r \in Users |-> NoSession]
    /\ mine = [r \in Users |-> NoSession]
    /\ attached = [r \in Users |-> FALSE]
    /\ flushed = [s \in Users |-> {}]
    /\ kept = {}
    /\ answer = [r \in Users |-> "none"]
    /\ alone = [r \in Pooled |-> TRUE]
    /\ crowd = 1

-----------------------------------------------------------------------------
(* get_db and get_session *)

\* Mutant: one session for all.
Key_Global(t) == CHOOSE k \in Threads : TRUE

\* The registry is keyed by the thread.
Key(t) == t

ThreadsOf(r) == IF r \in Jobs THEN {r} ELSE Pool

\* A thread runs one thing at a time.
Free(t) == \A r \in Users : on[r] # t

\* What is in progress on the threads of the pool.
Busy == {r \in Pooled : at[r] \notin {"new", "over"}}

\* Who enters while others are in progress overlaps them, and they it.
Meet(r) ==
    LET now == IF r \in Pooled THEN Busy \cup {r} ELSE {}
        requests == Cardinality(now \cap Requests)
    IN /\ alone' = [q \in Pooled |-> alone[q] /\ ~(q \in now /\ Busy # {})]
       /\ crowd' = IF requests > crowd THEN requests ELSE crowd

\* Mutant: the request is given the registry and has no session yet.
Enter_Lazy(r, t) ==
    /\ at[r] = "new"
    /\ Free(t)
    /\ at' = [at EXCEPT ![r] = "open"]
    /\ on' = [on EXCEPT ![r] = IF r \in Requests THEN NoSession ELSE t]
    /\ Meet(r)
    /\ UNCHANGED <<registry, mine, attached, flushed, kept, answer>>

\* factory(): the session the thread has, or a new one.  get_session keeps its
\* thread, get_db gives it back.
Enter(r, t) ==
    /\ at[r] = "new"
    /\ Free(t)
    /\ LET s == IF registry[Key(t)] = NoSession THEN r ELSE registry[Key(t)]
       IN /\ registry' = [registry EXCEPT ![Key(t)] = s]
          /\ mine' = [mine EXCEPT ![r] = s]
    /\ at' = [at EXCEPT ![r] = "open"]
    /\ on' = [on EXCEPT ![r] = IF r \in Requests THEN NoSession ELSE t]
    /\ Meet(r)
    /\ UNCHANGED <<attached, flushed, kept, answer>>

Leave(r, t, ans) ==
    /\ IF r \in Requests THEN Free(t) ELSE on[r] = t
    /\ at' = [at EXCEPT ![r] = "leaving"]
    /\ on' = [on EXCEPT ![r] = t]
    /\ answer' = [answer EXCEPT ![r] = ans]

\* session.commit() is that of the request's session, on whatever thread.  A
\* request that reads only, or that is refused, has nothing to commit.
Commit(r, t) ==
    /\ at[r] \in {"open", "loaded", "logged"}
    /\ kept' = kept \cup flushed[mine[r]]
    /\ flushed' = [flushed EXCEPT ![mine[r]] = {}]
    /\ Leave(r, t, IF at[r] = "logged" THEN "done" ELSE "refused")
    /\ UNCHANGED <<registry, mine, attached, alone, crowd>>

\* Mutant: the rollback is left to remove().
Rollback_Missing(r, t) ==
    /\ at[r] = "raised"
    /\ Leave(r, t, "error")
    /\ UNCHANGED <<registry, mine, attached, flushed, kept, alone, crowd>>

Rollback(r, t) ==
    /\ at[r] = "raised"
    /\ flushed' = [flushed EXCEPT ![mine[r]] = {}]
    /\ Leave(r, t, "error")
    /\ UNCHANGED <<registry, mine, attached, kept, alone, crowd>>

Over(r) ==
    /\ at' = [at EXCEPT ![r] = "over"]
    /\ on' = [on EXCEPT ![r] = NoSession]
    /\ mine' = [mine EXCEPT ![r] = NoSession]

\* factory.remove(): the session of the thread it runs on is closed, which
\* rolls its transaction back and detaches its objects, and is forgotten.
Remove(r) ==
    /\ at[r] = "leaving"
    /\ LET s == registry[Key(on[r])]
       IN /\ flushed' = [u \in Users |-> IF u = s THEN {} ELSE flushed[u]]
          /\ attached' = [q \in Users |-> attached[q] /\ q # r /\ mine[q] # s]
    /\ registry' = [registry EXCEPT ![Key(on[r])] = NoSession]
    /\ Over(r)
    /\ UNCHANGED <<kept, answer, alone, crowd>>

-----------------------------------------------------------------------------
(* The endpoint *)

\* SQLite's write lock: no other transaction has written.
CanWrite(s) == \A u \in Users \ {s} : flushed[u] = {}

Write(r, part) ==
    /\ CanWrite(mine[r])
    /\ flushed' = [flushed EXCEPT ![mine[r]] = @ \cup {<<r, part>>}]

Load(r) ==
    /\ at[r] = "open"
    /\ at' = [at EXCEPT ![r] = "loaded"]
    /\ attached' = [attached EXCEPT ![r] = TRUE]
    /\ UNCHANGED <<registry, on, mine, flushed, kept, answer, alone, crowd>>

\* The devices the user has, when the parts are those in the tables.
Held(parts) == {r \in Requests : (r \in Borrows) = (<<r, "row">> \in parts)}

\* Mutant: the limit compared with <=.
MayBorrow_LimitOffByOne(r) ==
    Cardinality(Held(kept \cup flushed[mine[r]])) <= MaxBorrows

\* The count sees what is committed and what its own session has written.
MayBorrow(r) == Cardinality(Held(kept \cup flushed[mine[r]])) < MaxBorrows

PassGuards(r) ==
    /\ at[r] = "loaded"
    /\ r \in Borrows => MayBorrow(r)
    /\ at' = [at EXCEPT ![r] = "passed"]
    /\ UNCHANGED <<registry, on, mine, attached, flushed, kept, answer, alone, crowd>>

\* The flush writes the device if it is still an object of the session; for a
\* detached one it does nothing, and says nothing.
FlushRow(r) ==
    /\ at[r] = "passed"
    /\ IF attached[r] THEN Write(r, "row") ELSE UNCHANGED flushed
    /\ at' = [at EXCEPT ![r] = "row"]
    /\ UNCHANGED <<registry, on, mine, attached, kept, answer, alone, crowd>>

\* The log entry is a new object: it is added to the session and written.
FlushLog(r) ==
    /\ at[r] = "row"
    /\ Write(r, "log")
    /\ at' = [at EXCEPT ![r] = "logged"]
    /\ UNCHANGED <<registry, on, mine, attached, kept, answer, alone, crowd>>

\* "database is locked", or any other exception of the endpoint.
Raise(r) ==
    /\ at[r] \in {"open", "loaded", "passed", "row", "logged"}
    /\ at' = [at EXCEPT ![r] = "raised"]
    /\ UNCHANGED <<registry, on, mine, attached, flushed, kept, answer, alone, crowd>>

Step(r) ==
    \/ \E t \in ThreadsOf(r) : Enter(r, t) \/ Commit(r, t) \/ Rollback(r, t)
    \/ Load(r) \/ PassGuards(r) \/ FlushRow(r) \/ FlushLog(r) \/ Raise(r)
    \/ Remove(r)

Next == \E r \in Users : Step(r)

Spec == Init /\ [][Next]_vars

-----------------------------------------------------------------------------
(* Properties *)

\* The registry and the requests have the values their code can give them;
\* whoever is past the first half of get_db or get_session has a session.
TypeOK ==
    /\ registry \in [Threads -> Users \cup {NoSession}]
    /\ at \in [Users -> {"new", "open", "loaded", "passed", "row", "logged",
                         "raised", "leaving", "over"}]
    /\ on \in [Users -> Threads \cup {NoSession}]
    /\ mine \in [Users -> Users \cup {NoSession}]
    /\ attached \in [Users -> BOOLEAN]
    /\ flushed \in [Users -> SUBSET Parts]
    /\ kept \subseteq Parts
    /\ answer \in [Users -> {"none", "done", "refused", "error"}]
    /\ alone \in [Pooled -> BOOLEAN]
    /\ crowd \in Nat \ {0}
    /\ \A r \in Users : at[r] \notin {"new", "over"} => mine[r] \in Users
    /\ \A r \in Users : at[r] = "leaving" => on[r] \in ThreadsOf(r)

\* Everything it has written is committed if r is told that it is done, and
\* nothing if not.
Whole(r) ==
    /\ answer[r] = "done" => {<<r, "row">>, <<r, "log">>} \subseteq kept
    /\ answer[r] # "done" => <<r, "row">> \notin kept /\ <<r, "log">> \notin kept

\* "a scoped_session for thread safety": what runs on a thread of its own,
\* with get_session, commits all or nothing, whatever the pool's threads do to
\* each other's sessions; and so does a request, or an import of the button,
\* that overlaps nobody of the pool, although it may be given a session that an
\* earlier one has left behind, and a request enters, works and leaves on three
\* threads.
AloneWhole == \A r \in Users : (r \in Jobs \/ alone[r]) => Whole(r)

\* Sessions that are shared, closed by others or left behind in the registry
\* never hold SQLite's write lock: it is held for somebody who is at work.
WriterIsAlive ==
    \A s \in Users : flushed[s] # {} =>
        \E r \in Users : mine[r] = s /\ at[r] \in {"row", "logged", "raised"}

\* "Enforces per-user borrow limits": the count is taken before the row is
\* written, and others commit or drop what a shared session has written.  n
\* requests that overlap take the user no further than n - 1 devices over the
\* limit, so requests one at a time keep it.
OverrunBounded == Cardinality(Held(kept)) < MaxBorrows + crowd

\* "Commits on success": a request that is told that its loan is done has
\* committed it, the row and the log.
DoneIsCommitted ==
    \A r \in Requests :
        answer[r] = "done" => {<<r, "row">>, <<r, "log">>} \subseteq kept
=============================================================================
