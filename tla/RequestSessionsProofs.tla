----------------------- MODULE RequestSessionsProofs -----------------------
(***************************************************************************)
(* Theorems about RequestSessions, for any number of requests, imports,    *)
(* jobs and threads: what runs on a thread of its own, and what overlaps   *)
(* nobody of the pool, commits all or nothing; no session is left with     *)
(* SQLite's write lock; and n overlapping requests overrun the limit by    *)
(* n - 1 at most.                                                          *)
(***************************************************************************)
EXTENDS RequestSessions, FiniteSetTheorems, TLAPS

\* A job runs on its own thread, everything else on one of the pool.
LEMMA OwnThread ==
    ASSUME NEW r \in Users, NEW t \in ThreadsOf(r)
    PROVE  /\ t \in Threads
           /\ r \in Jobs => t = r
           /\ \A j \in Jobs : r # j => t # j
BY SessionsAssumption DEF ThreadsOf, Users, Threads

LEMMA RequestsFinite ==
    ASSUME NEW S PROVE Cardinality(S \cap Requests) \in Nat
BY SessionsAssumption, FS_Subset, FS_CardinalityType

\* Entering is counted.
LEMMA MeetTypes ==
    ASSUME TypeOK, NEW r \in Users, Meet(r)
    PROVE  /\ alone' \in [Pooled -> BOOLEAN]
           /\ crowd' \in Nat \ {0} /\ crowd' >= crowd
<1> DEFINE now == IF r \in Pooled THEN Busy \cup {r} ELSE {}
           requests == Cardinality(now \cap Requests)
<1>1. requests \in Nat
    BY RequestsFinite
<1>2. /\ alone' = [q \in Pooled |-> alone[q] /\ ~(q \in now /\ Busy # {})]
      /\ crowd' = IF requests > crowd THEN requests ELSE crowd
    BY DEF Meet
<1> HIDE DEF requests, now
<1>3. QED
    BY <1>1, <1>2 DEF TypeOK

\* Registry and requests keep their types; whoever is past the first half of
\* get_db or get_session has a session.
THEOREM TypeCorrect == Spec => []TypeOK
<1>1. Init => TypeOK
    BY DEF Init, TypeOK
<1>2. TypeOK /\ [Next]_vars => TypeOK'
    <2> SUFFICES ASSUME TypeOK, [Next]_vars PROVE TypeOK'
        OBVIOUS
    <2>1. ASSUME NEW r \in Users, NEW t \in ThreadsOf(r), Enter(r, t) PROVE TypeOK'
        BY <2>1, OwnThread, MeetTypes DEF TypeOK, Enter, Key
    <2>2. ASSUME NEW r \in Users, NEW t \in ThreadsOf(r), Commit(r, t) PROVE TypeOK'
        BY <2>2, OwnThread DEF TypeOK, Commit, Leave, Parts
    <2>3. ASSUME NEW r \in Users, NEW t \in ThreadsOf(r), Rollback(r, t) PROVE TypeOK'
        BY <2>3, OwnThread DEF TypeOK, Rollback, Leave, Parts
    <2>4. ASSUME NEW r \in Users, Load(r) PROVE TypeOK'
        BY <2>4 DEF TypeOK, Load
    <2>5. ASSUME NEW r \in Users, FlushRow(r) PROVE TypeOK'
        BY <2>5 DEF TypeOK, FlushRow, Write, Parts
    <2>6. ASSUME NEW r \in Users, FlushLog(r) PROVE TypeOK'
        BY <2>6 DEF TypeOK, FlushLog, Write, Parts
    <2>7. ASSUME NEW r \in Users, Raise(r) PROVE TypeOK'
        BY <2>7 DEF TypeOK, Raise
    <2>8. ASSUME NEW r \in Users, Remove(r) PROVE TypeOK'
        <3>1. on[r] \in Threads
            BY <2>8, OwnThread DEF TypeOK, Remove
        <3>2. QED
            BY <2>8, <3>1 DEF TypeOK, Remove, Over, Key
    <2>9. ASSUME NEW r \in Users, PassGuards(r) PROVE TypeOK'
        BY <2>9 DEF TypeOK, PassGuards
    <2>10. CASE UNCHANGED vars
        BY <2>10 DEF TypeOK, vars
    <2>11. QED
        BY <2>1, <2>2, <2>3, <2>4, <2>5, <2>6, <2>7, <2>8, <2>9, <2>10 DEF Next, Step
<1>3. QED
    BY <1>1, <1>2, PTL DEF Spec

-----------------------------------------------------------------------------
\* A session that has written belongs to a request that is at work: what a
\* request leaves behind by its commit, its rollback or a remove of somebody
\* else's session holds no lock.
THEOREM WriterAlive == Spec => []WriterIsAlive
<1>1. Init => WriterIsAlive
    BY DEF Init, WriterIsAlive
<1>2. TypeOK /\ WriterIsAlive /\ [Next]_vars => WriterIsAlive'
    <2> SUFFICES ASSUME TypeOK, WriterIsAlive, [Next]_vars,
                        NEW s \in Users, flushed'[s] # {}
                 PROVE  \E r \in Users : /\ mine'[r] = s
                                         /\ at'[r] \in {"row", "logged", "raised"}
        BY DEF WriterIsAlive
    <2> DEFINE Works(r) == mine[r] = s /\ at[r] \in {"row", "logged", "raised"}
    <2>1. flushed[s] # {} => \E r \in Users : Works(r)
        BY DEF WriterIsAlive
    <2>2. ASSUME NEW r \in Users, NEW t \in ThreadsOf(r), Enter(r, t)
          PROVE  \E q \in Users : Works(q)'
        BY <2>1, <2>2 DEF TypeOK, Enter
    <2>3. ASSUME NEW r \in Users, NEW t \in ThreadsOf(r), Commit(r, t)
          PROVE  \E q \in Users : Works(q)'
        <3>1. s # mine[r]
            BY <2>3 DEF TypeOK, Commit
        <3>2. QED
            BY <2>1, <2>3, <3>1 DEF TypeOK, Commit, Leave
    <2>4. ASSUME NEW r \in Users, NEW t \in ThreadsOf(r), Rollback(r, t)
          PROVE  \E q \in Users : Works(q)'
        <3>1. s # mine[r]
            BY <2>4 DEF TypeOK, Rollback
        <3>2. QED
            BY <2>1, <2>4, <3>1 DEF TypeOK, Rollback, Leave
    <2>5. ASSUME NEW r \in Users, Load(r) \/ PassGuards(r)
          PROVE  \E q \in Users : Works(q)'
        BY <2>1, <2>5 DEF TypeOK, Load, PassGuards
    <2>6. ASSUME NEW r \in Users, FlushRow(r) \/ FlushLog(r)
          PROVE  \E q \in Users : Works(q)'
        <3>1. CASE s = mine[r]
            BY <2>6, <3>1 DEF TypeOK, FlushRow, FlushLog
        <3>2. CASE s # mine[r]
            <4>1. flushed[s] # {}
                BY <2>6, <3>2 DEF TypeOK, FlushRow, FlushLog, Write
            <4>2. QED
                BY <2>1, <2>6, <4>1 DEF TypeOK, FlushRow, FlushLog
        <3>3. QED
            BY <3>1, <3>2
    <2>7. ASSUME NEW r \in Users, Raise(r) PROVE \E q \in Users : Works(q)'
        BY <2>1, <2>7 DEF TypeOK, Raise
    <2>8. ASSUME NEW r \in Users, Remove(r) PROVE \E q \in Users : Works(q)'
        BY <2>1, <2>8 DEF TypeOK, Remove, Over
    <2>9. CASE UNCHANGED vars
        BY <2>1, <2>9 DEF vars
    <2>10. QED
        BY <2>2, <2>3, <2>4, <2>5, <2>6, <2>7, <2>8, <2>9 DEF Next, Step
<1>3. QED
    BY <1>1, <1>2, TypeCorrect, PTL DEF Spec

-----------------------------------------------------------------------------
(***************************************************************************)
(* All or nothing.  A job keeps its session to itself: no other thread's   *)
(* entry of the registry, and nobody else, ever names it.  A request, or   *)
(* an import of the button, that overlaps nobody of the pool may work with *)
(* a session that was made for an earlier one, but nobody else works with  *)
(* it meanwhile.  So nobody else commits, rolls back or closes the         *)
(* session, and what has been written is there until its own commit.       *)
(***************************************************************************)
Whose(u) == u \in Jobs \/ alone[u]

OwnParts(u) == {<<u, "row">>, <<u, "log">>}

Alone(j) ==
    /\ \A t \in Threads : registry[t] = j => t = j
    /\ registry[j] \in {j, NoSession}
    /\ \A r \in Users : mine[r] = j => r = j
    /\ mine[j] \in {j, NoSession}

Single == \A r, q \in Busy : alone[r] => r = q

Written(u) ==
    /\ at[u] \in {"loaded", "passed"} => attached[u]
    /\ at[u] \in {"row", "logged"} => <<u, "row">> \in flushed[mine[u]]
    /\ at[u] = "logged" => <<u, "log">> \in flushed[mine[u]]
    /\ at[u] \notin {"leaving", "over"} => answer[u] = "none"
    /\ \A s \in Users :
          \/ OwnParts(u) \cap flushed[s] = {}
          \/ at[u] \in {"row", "logged", "raised"} /\ s = mine[u]

SessionInv ==
    /\ \A j \in Jobs : Alone(j)
    /\ Single
    /\ \A u \in Users : Whose(u) => Written(u) /\ Whole(u)

LEMMA SessionInvInit == Init => SessionInv
BY SessionsAssumption DEF Init, SessionInv, Alone, Single, Busy, Whose, Written, Whole,
   Users, Threads, OwnParts

\* Whoever is to commit all or nothing shares its session with nobody at work.
LEMMA OwnSession ==
    ASSUME TypeOK, SessionInv, NEW u \in Users, NEW q \in Users, Whose(u), q # u,
           at[u] \notin {"new", "over"}, at[q] \notin {"new", "over"}
    PROVE  mine[u] \in Users /\ mine[q] \in Users /\ mine[q] # mine[u]
<1>1. mine[u] \in Users /\ mine[q] \in Users
    BY DEF TypeOK
<1>2. CASE u \in Jobs
    BY <1>1, <1>2, SessionsAssumption DEF SessionInv, Alone
<1>3. CASE q \in Jobs
    BY <1>1, <1>3, SessionsAssumption DEF SessionInv, Alone
<1>4. CASE u \in Pooled /\ q \in Pooled
    BY <1>4, SessionsAssumption DEF SessionInv, Single, Busy, Whose
<1>5. QED
    BY <1>1, <1>2, <1>3, <1>4 DEF Users

\* What has been alone until now was alone before, and is met by nobody.
LEMMA StaysAlone ==
    ASSUME TypeOK, SessionInv, [Next]_vars
    PROVE  Single' /\ \A u \in Users : Whose(u)' => Whose(u)
<1>1. CASE UNCHANGED alone /\ Busy' \subseteq Busy
    BY <1>1 DEF SessionInv, Single, Whose
<1>2. ASSUME NEW r \in Users, NEW t \in ThreadsOf(r), Enter(r, t)
      PROVE  Single' /\ \A u \in Users : Whose(u)' => Whose(u)
    <2>1. Busy' = IF r \in Pooled THEN Busy \cup {r} ELSE Busy
        BY <1>2 DEF Enter, Busy, TypeOK, Users
    <2>2. \A u \in Pooled : alone'[u] => alone[u]
        BY <1>2 DEF Enter, Meet
    <2>3. Single'
        BY <1>2, <2>1 DEF Enter, Meet, Single, SessionInv, Busy
    <2>4. QED
        BY <2>2, <2>3 DEF Whose, Users
<1>3. ASSUME NEW r \in Users, NEW t \in ThreadsOf(r), Commit(r, t) \/ Rollback(r, t)
      PROVE  UNCHANGED alone /\ Busy' \subseteq Busy
    BY <1>3 DEF Commit, Rollback, Leave, Busy, TypeOK, Users
<1>4. ASSUME NEW r \in Users, Load(r) \/ PassGuards(r) \/ FlushRow(r) \/ FlushLog(r) \/ Raise(r)
      PROVE  UNCHANGED alone /\ Busy' \subseteq Busy
    BY <1>4 DEF Load, PassGuards, FlushRow, FlushLog, Raise, Busy, TypeOK, Users
<1>5. ASSUME NEW r \in Users, Remove(r)
      PROVE  UNCHANGED alone /\ Busy' \subseteq Busy
    BY <1>5 DEF Remove, Over, Busy, TypeOK, Users
<1>6. CASE UNCHANGED vars
    BY <1>6 DEF vars, Busy, SessionInv, Single, Whose
<1>7. QED
    BY <1>1, <1>2, <1>3, <1>4, <1>5, <1>6 DEF Next, Step

LEMMA JobsStayAlone ==
    ASSUME TypeOK, SessionInv, Next, NEW j \in Jobs
    PROVE  Alone(j)'
<1> j \in Users /\ j \in Threads /\ j # NoSession
    BY SessionsAssumption DEF Users, Threads
<1>1. Alone(j)
    BY DEF SessionInv
<1>2. ASSUME NEW r \in Users, NEW t \in ThreadsOf(r), Enter(r, t) PROVE Alone(j)'
    <2> DEFINE s == IF registry[t] = NoSession THEN r ELSE registry[t]
    <2>1. t \in Threads /\ (r \in Jobs => t = r) /\ (r # j => t # j)
        BY OwnThread
    <2>2. /\ registry' = [registry EXCEPT ![t] = s]
          /\ mine' = [mine EXCEPT ![r] = s]
        BY <1>2 DEF Enter, Key
    <2>3. (s = j) <=> (r = j)
        BY <1>1, <2>1 DEF Alone, TypeOK
    <2>4. QED
        BY <1>1, <2>1, <2>2, <2>3 DEF Alone, TypeOK
<1>3. ASSUME NEW r \in Users, Remove(r) PROVE Alone(j)'
    <2>1. on[r] \in Threads /\ (r # j => on[r] # j)
        BY <1>3, OwnThread DEF TypeOK, Remove
    <2>2. QED
        BY <1>1, <1>3, <2>1 DEF Alone, Remove, Over, Key, TypeOK
<1>4. CASE UNCHANGED <<registry, mine>>
    BY <1>1, <1>4 DEF Alone
<1>5. QED
    BY <1>2, <1>3, <1>4 DEF Next, Step, Commit, Rollback, Load, PassGuards, FlushRow,
       FlushLog, Raise

LEMMA EnterKeepsWhole ==
    ASSUME TypeOK, SessionInv, NEW r \in Users, NEW t \in ThreadsOf(r), Enter(r, t),
           NEW u \in Users, Written(u), Whole(u)
    PROVE  (Written(u) /\ Whole(u))'
<1>1. /\ mine' = [mine EXCEPT ![r] = mine'[r]]
      /\ at' = [at EXCEPT ![r] = "open"] /\ at[r] = "new"
      /\ UNCHANGED <<attached, flushed, kept, answer>>
    BY DEF Enter, TypeOK
<1>2. Written(u)'
    <2>1. CASE u = r
        BY <1>1, <2>1 DEF Written, TypeOK, OwnParts
    <2>2. CASE u # r
        BY <1>1, <2>2 DEF Written, TypeOK, OwnParts
    <2>3. QED
        BY <2>1, <2>2
<1>3. Whole(u)'
    BY <1>1 DEF Whole, TypeOK
<1>4. QED
    BY <1>2, <1>3

LEMMA LeaveKeepsWhole ==
    ASSUME TypeOK, SessionInv, NEW r \in Users, NEW t \in ThreadsOf(r),
           Commit(r, t) \/ Rollback(r, t),
           NEW u \in Users, Whose(u), Written(u), Whole(u)
    PROVE  (Written(u) /\ Whole(u))'
<1>1. /\ at' = [at EXCEPT ![r] = "leaving"]
      /\ flushed' = [flushed EXCEPT ![mine[r]] = {}]
      /\ attached' = attached /\ mine' = mine
      /\ at[r] \in {"open", "loaded", "logged", "raised"}
      /\ mine[r] \in Users
    BY DEF Commit, Rollback, Leave, TypeOK
<1>2. answer' = [answer EXCEPT ![r] = answer'[r]] /\ answer'[r] # "none"
    BY DEF Commit, Rollback, Leave, TypeOK
<1>3. CASE r = u
    <2>1. Written(u)'
        BY <1>1, <1>2, <1>3 DEF Written, TypeOK, OwnParts
    <2>2. Whole(u)'
        <3>1. CASE Rollback(r, t)
            BY <1>1, <1>3, <3>1 DEF Whole, Written, Rollback, Leave, TypeOK
        <3>2. CASE Commit(r, t)
            BY <1>1, <1>3, <3>2 DEF Whole, Written, Commit, Leave, TypeOK, OwnParts
        <3>3. QED
            BY <3>1, <3>2
    <2>3. QED
        BY <2>1, <2>2
<1>4. CASE r # u
    <2>1. at[u] \in {"loaded", "passed", "row", "logged", "raised"} => mine[u] # mine[r]
        BY <1>1, <1>4, OwnSession
    <2>2. OwnParts(u) \cap flushed[mine[r]] = {}
        BY <1>1, <2>1 DEF Written
    <2>3. at'[u] = at[u] /\ answer'[u] = answer[u]
        BY <1>1, <1>2, <1>4 DEF TypeOK
    <2>4. Written(u)'
        BY <1>1, <2>1, <2>3 DEF Written, TypeOK, OwnParts
    <2>5. kept' = kept \/ kept' = kept \cup flushed[mine[r]]
        BY DEF Commit, Rollback
    <2>6. Whole(u)'
        BY <2>2, <2>3, <2>5 DEF Whole, OwnParts
    <2>7. QED
        BY <2>4, <2>6
<1>5. QED
    BY <1>3, <1>4

LEMMA RemoveKeepsWhole ==
    ASSUME TypeOK, SessionInv, NEW r \in Users, Remove(r),
           NEW u \in Users, Whose(u), Written(u), Whole(u)
    PROVE  (Written(u) /\ Whole(u))'
<1> DEFINE s == registry[on[r]]
<1>1. /\ at' = [at EXCEPT ![r] = "over"] /\ answer' = answer /\ at[r] = "leaving"
      /\ mine' = [mine EXCEPT ![r] = NoSession]
      /\ flushed' = [x \in Users |-> IF x = s THEN {} ELSE flushed[x]]
      /\ attached' = [q \in Users |-> attached[q] /\ q # r /\ mine[q] # s]
      /\ kept' = kept
    BY DEF Remove, Over, Key
<1>2. Whole(u)'
    BY <1>1 DEF Whole
<1>3. CASE r = u
    BY <1>1, <1>2, <1>3 DEF Written, TypeOK, OwnParts
<1>4. CASE r # u /\ at[u] \in {"new", "leaving", "over", "open"}
    BY <1>1, <1>2, <1>4 DEF Written, TypeOK, OwnParts
<1>5. CASE r # u /\ at[u] \in {"loaded", "passed", "row", "logged", "raised"}
    <2>1. mine[u] \in Users /\ mine[u] # NoSession
        BY <1>5, SessionsAssumption DEF TypeOK
    <2>2. mine[u] # s
        <3>1. on[r] \in Threads /\ (r # u /\ u \in Jobs => on[r] # u)
              /\ (r \in Jobs => on[r] = r)
            BY <1>1, OwnThread DEF TypeOK
        <3>2. CASE u \in Jobs
            BY <1>5, <2>1, <3>1, <3>2 DEF SessionInv, Alone
        <3>3. CASE r \in Jobs
            BY <1>5, <2>1, <3>1, <3>3 DEF SessionInv, Alone
        <3>4. CASE u \in Pooled /\ r \in Pooled
            BY <1>1, <1>5, <3>4, SessionsAssumption DEF SessionInv, Single, Busy, Whose
        <3>5. QED
            BY <3>2, <3>3, <3>4 DEF Users
    <2>3. /\ at'[u] = at[u] /\ mine'[u] = mine[u] /\ attached'[u] = attached[u]
          /\ flushed'[mine[u]] = flushed[mine[u]]
          /\ \A x \in Users : flushed'[x] = {} \/ flushed'[x] = flushed[x]
        BY <1>1, <1>5, <2>1, <2>2 DEF TypeOK
    <2>4. QED
        BY <1>1, <1>2, <2>3 DEF Written, OwnParts
<1>6. QED
    BY <1>3, <1>4, <1>5 DEF TypeOK

LEMMA EndpointKeepsWhole ==
    ASSUME TypeOK, SessionInv, NEW r \in Users,
           Load(r) \/ PassGuards(r) \/ FlushRow(r) \/ FlushLog(r) \/ Raise(r),
           NEW u \in Users, Whose(u), Written(u), Whole(u)
    PROVE  (Written(u) /\ Whole(u))'
<1>1. Whole(u)'
    BY DEF Whole, Load, PassGuards, FlushRow, FlushLog, Raise
<1>2. mine[r] \in Users /\ mine' = mine
    BY DEF TypeOK, Load, PassGuards, FlushRow, FlushLog, Raise
<1>3. Written(u)'
    <2>1. CASE Load(r)
        BY <2>1 DEF Written, Load, TypeOK, OwnParts
    <2>2. CASE Raise(r)
        BY <2>2 DEF Written, Raise, TypeOK, OwnParts
    <2>3. CASE FlushRow(r)
        BY <1>2, <2>3 DEF Written, FlushRow, Write, TypeOK, OwnParts
    <2>4. CASE FlushLog(r)
        BY <1>2, <2>4 DEF Written, FlushLog, Write, TypeOK, OwnParts
    <2>5. CASE PassGuards(r)
        BY <2>5 DEF Written, PassGuards, TypeOK, OwnParts
    <2>6. QED
        BY <2>1, <2>2, <2>3, <2>4, <2>5
<1>4. QED
    BY <1>1, <1>3

\* What runs with get_session on a thread of its own, and every request or
\* import of the button that overlaps nobody of the pool, commits all it has
\* written or nothing, and is told so, with any number of them whose sessions
\* the pool's threads mix up.
THEOREM AloneCorrect == Spec => []AloneWhole
<1>1. TypeOK /\ SessionInv /\ [Next]_vars => SessionInv'
    <2> SUFFICES ASSUME TypeOK, SessionInv, [Next]_vars PROVE SessionInv'
        OBVIOUS
    <2>1. CASE Next
        <3>1. ASSUME NEW u \in Users, Whose(u)' PROVE (Written(u) /\ Whole(u))'
            <4>1. Whose(u) /\ Written(u) /\ Whole(u)
                BY <3>1, StaysAlone DEF SessionInv
            <4>2. QED
                BY <2>1, <4>1, EnterKeepsWhole, LeaveKeepsWhole, RemoveKeepsWhole,
                   EndpointKeepsWhole DEF Next, Step
        <3>2. QED
            BY <2>1, <3>1, StaysAlone, JobsStayAlone DEF SessionInv
    <2>2. CASE UNCHANGED vars
        BY <2>2 DEF vars, SessionInv, Alone, Single, Busy, Whose, Written, Whole
    <2>3. QED
        BY <2>1, <2>2
<1>2. SessionInv => AloneWhole
    BY DEF SessionInv, AloneWhole, Whose
<1>3. QED
    BY <1>1, <1>2, SessionInvInit, TypeCorrect, PTL DEF Spec

-----------------------------------------------------------------------------
(***************************************************************************)
(* The borrow limit.  A row that is written and not committed belongs to a *)
(* request that is at work with that session.  Those who may still add a   *)
(* loan are the borrows past their guards and those whose row is written;  *)
(* when a borrow passes, whoever is counted in neither is in progress too. *)
(***************************************************************************)
AtWork(r, s) == mine[r] = s /\ at[r] \in {"row", "logged", "raised"}

RowsAtWork == \A r \in Requests, s \in Users : <<r, "row">> \in flushed[s] => AtWork(r, s)

Pending == {r \in Borrows : \/ at[r] = "passed"
                            \/ \E s \in Users : <<r, "row">> \in flushed[s]}

Loans == Held(kept) \cup Pending

InProgress == Busy \cap Requests

LoansBounded == Cardinality(Loans) < MaxBorrows + crowd

OverrunInv ==
    /\ RowsAtWork
    /\ Cardinality(InProgress) <= crowd
    /\ LoansBounded

LEMMA RequestSets ==
    /\ \A S \in SUBSET Requests : IsFiniteSet(S) /\ Cardinality(S) \in Nat
    /\ \A S, T \in SUBSET Requests : S \subseteq T => Cardinality(S) <= Cardinality(T)
BY SessionsAssumption, FS_Subset, FS_CardinalityType

LEMMA LoansAreRequests ==
    /\ Loans \subseteq Requests /\ InProgress \subseteq Requests
    /\ \A parts : Held(parts) \subseteq Requests
BY SessionsAssumption DEF Loans, Held, Pending, InProgress

\* A step after which no device has joined the loans.
LEMMA LoansShrink ==
    ASSUME TypeOK, TypeOK', LoansBounded, crowd' >= crowd, Loans' \subseteq Loans
    PROVE  LoansBounded'
<1>1. Cardinality(Loans') <= Cardinality(Loans)
    BY RequestSets, LoansAreRequests
<1>2. Cardinality(Loans) \in Nat /\ Cardinality(Loans') \in Nat
    BY RequestSets, LoansAreRequests
<1>3. QED
    BY <1>1, <1>2, SessionsAssumption DEF LoansBounded, TypeOK

LEMMA EnterKeepsOverrun ==
    ASSUME TypeOK, TypeOK', OverrunInv, NEW r \in Users, NEW t \in ThreadsOf(r), Enter(r, t)
    PROVE  OverrunInv'
<1>1. /\ at' = [at EXCEPT ![r] = "open"] /\ at[r] = "new"
      /\ mine' = [mine EXCEPT ![r] = mine'[r]]
      /\ kept' = kept /\ flushed' = flushed
    BY DEF Enter, TypeOK
<1>2. RowsAtWork'
    BY <1>1 DEF OverrunInv, RowsAtWork, AtWork, TypeOK, Users, Pooled
<1>3. crowd' >= crowd
    BY MeetTypes DEF Enter
<1>4. LoansBounded'
    <2>1. Loans' \subseteq Loans
        BY <1>1, SessionsAssumption DEF Loans, Held, Pending, TypeOK, Users, Pooled
    <2>2. QED
        BY <1>3, <2>1, LoansShrink DEF OverrunInv
<1>5. Cardinality(InProgress') <= crowd'
    <2>1. CASE r \in Pooled
        <3>1. InProgress' = (Busy \cup {r}) \cap Requests
            BY <1>1, <2>1 DEF InProgress, Busy, TypeOK, Users
        <3>2. crowd' >= Cardinality((Busy \cup {r}) \cap Requests)
            <4>1. Cardinality((Busy \cup {r}) \cap Requests) \in Nat
                BY RequestsFinite
            <4>2. QED
                BY <2>1, <4>1 DEF Enter, Meet, TypeOK
        <3>3. QED
            BY <3>1, <3>2
    <2>2. CASE r \notin Pooled
        <3>1. InProgress' = InProgress
            BY <1>1, <2>2 DEF InProgress, Busy, TypeOK, Users
        <3>2. QED
            BY <1>3, <3>1, RequestSets, LoansAreRequests DEF OverrunInv, TypeOK
    <2>3. QED
        BY <2>1, <2>2
<1>6. QED
    BY <1>2, <1>4, <1>5 DEF OverrunInv

\* A step that lets nobody in: if it adds nothing to the loans and leaves the
\* written rows to those at work, the bound stays.
LEMMA InsideKeepsOverrun ==
    ASSUME TypeOK, TypeOK', OverrunInv, UNCHANGED crowd, Busy' \subseteq Busy,
           RowsAtWork', LoansBounded'
    PROVE  OverrunInv'
<1>1. InProgress' \subseteq InProgress
    BY DEF InProgress
<1>2. Cardinality(InProgress') <= Cardinality(InProgress)
    BY <1>1, RequestSets, LoansAreRequests
<1>3. /\ Cardinality(InProgress) \in Nat /\ Cardinality(InProgress') \in Nat
      /\ Cardinality(InProgress) <= crowd /\ crowd \in Nat /\ crowd' = crowd
    BY <1>1, RequestSets, LoansAreRequests DEF OverrunInv, TypeOK
<1>4. Cardinality(InProgress') <= crowd'
    BY <1>2, <1>3
<1>5. QED
    BY <1>4 DEF OverrunInv

LEMMA LeaveKeepsOverrun ==
    ASSUME TypeOK, TypeOK', OverrunInv, NEW r \in Users, NEW t \in ThreadsOf(r),
           Commit(r, t) \/ Rollback(r, t)
    PROVE  OverrunInv'
<1>1. /\ at' = [at EXCEPT ![r] = "leaving"] /\ at[r] \notin {"new", "over", "leaving"}
      /\ flushed' = [flushed EXCEPT ![mine[r]] = {}]
      /\ mine' = mine /\ crowd' = crowd
      /\ kept' = kept \/ kept' = kept \cup flushed[mine[r]]
      /\ mine[r] \in Users
    BY DEF Commit, Rollback, Leave, TypeOK
<1>2. Busy' \subseteq Busy
    BY <1>1 DEF Busy, TypeOK
<1>3. RowsAtWork'
    BY <1>1 DEF OverrunInv, RowsAtWork, AtWork, TypeOK, Users, Pooled
<1>4. Pending' \subseteq Pending
    BY <1>1, SessionsAssumption DEF Pending, TypeOK, Users, Pooled
<1>5. Held(kept)' \subseteq Held(kept) \cup Pending
    BY <1>1, SessionsAssumption DEF Held, Pending
<1>6. Loans' \subseteq Loans
    BY <1>4, <1>5 DEF Loans
<1>7. crowd' >= crowd
    BY <1>1 DEF TypeOK
<1>8. QED
    BY <1>1, <1>2, <1>3, <1>6, <1>7, LoansShrink, InsideKeepsOverrun DEF OverrunInv

\* The count is of what is committed and what the session has written; whoever
\* is a loan and not in the count is itself in progress, as the one that passes.
LEMMA PassKeepsOverrun ==
    ASSUME TypeOK, TypeOK', OverrunInv, NEW r \in Users, PassGuards(r)
    PROVE  OverrunInv'
<1>1. /\ at' = [at EXCEPT ![r] = "passed"] /\ at[r] = "loaded"
      /\ mine' = mine /\ crowd' = crowd /\ kept' = kept /\ flushed' = flushed
    BY DEF PassGuards
<1>2. Busy' \subseteq Busy
    BY <1>1 DEF Busy, TypeOK
<1>3. RowsAtWork'
    BY <1>1 DEF OverrunInv, RowsAtWork, AtWork, TypeOK, Users, Pooled
<1>4. LoansBounded'
    <2>1. CASE r \notin Borrows
        <3>1. Loans' \subseteq Loans
            BY <1>1, <2>1, SessionsAssumption DEF Loans, Held, Pending, TypeOK, Users, Pooled
        <3>2. crowd' >= crowd
            BY <1>1 DEF TypeOK
        <3>3. QED
            BY <3>1, <3>2, LoansShrink DEF OverrunInv
    <2>2. CASE r \in Borrows
        <3> DEFINE counted == Held(kept \cup flushed[mine[r]])
        <3>1. Cardinality(counted) < MaxBorrows
            BY <2>2 DEF PassGuards, MayBorrow
        <3>2. Loans' \subseteq counted \cup InProgress
            <4>1. Held(kept) \subseteq counted \cup InProgress
                <5> SUFFICES ASSUME NEW q \in Held(kept), q \notin counted
                             PROVE  q \in InProgress
                    OBVIOUS
                <5>1. q \in Requests /\ <<q, "row">> \in flushed[mine[r]]
                    BY DEF Held
                <5>2. mine[r] \in Users
                    BY <1>1 DEF TypeOK
                <5>3. AtWork(q, mine[r])
                    BY <5>1, <5>2 DEF OverrunInv, RowsAtWork
                <5>4. QED
                    BY <5>1, <5>3 DEF AtWork, InProgress, Busy, Pooled
            <4>2. Pending' \subseteq InProgress
                <5> SUFFICES ASSUME NEW q \in Pending' PROVE q \in InProgress
                    OBVIOUS
                <5>1. q \in Requests /\ q \in Users
                    BY SessionsAssumption DEF Pending, Users, Pooled
                <5>2. CASE at'[q] = "passed"
                    BY <1>1, <5>1, <5>2 DEF InProgress, Busy, Pooled, TypeOK
                <5>3. CASE \E s \in Users : <<q, "row">> \in flushed[s]
                    BY <5>1, <5>3 DEF OverrunInv, RowsAtWork, AtWork, InProgress, Busy, Pooled
                <5>4. QED
                    BY <1>1, <5>2, <5>3 DEF Pending
            <4>3. QED
                BY <1>1, <4>1, <4>2 DEF Loans
        <3>3. /\ IsFiniteSet(counted) /\ IsFiniteSet(InProgress)
              /\ Cardinality(counted) \in Nat /\ Cardinality(InProgress) \in Nat
              /\ counted \cup InProgress \subseteq Requests
            BY RequestSets, LoansAreRequests
        <3> HIDE DEF counted
        <3>4. Cardinality(counted \cup InProgress)
                  <= Cardinality(counted) + Cardinality(InProgress)
            <4>1. Cardinality(counted \cup InProgress)
                      = Cardinality(counted) + Cardinality(InProgress)
                        - Cardinality(counted \cap InProgress)
                BY <3>3, FS_Union
            <4>2. Cardinality(counted \cap InProgress) \in Nat
                BY <3>3, RequestSets
            <4>3. QED
                BY <3>3, <4>1, <4>2
        <3>5. /\ Cardinality(Loans') <= Cardinality(counted \cup InProgress)
              /\ Cardinality(Loans') \in Nat
              /\ Cardinality(counted \cup InProgress) \in Nat
            BY <3>2, <3>3, RequestSets
        <3>6. Cardinality(InProgress) <= crowd /\ crowd \in Nat /\ crowd' = crowd
            BY <1>1 DEF OverrunInv, TypeOK
        <3>7. QED
            BY <3>1, <3>3, <3>4, <3>5, <3>6, SessionsAssumption DEF LoansBounded
    <2>3. QED
        BY <2>1, <2>2
<1>5. QED
    BY <1>1, <1>2, <1>3, <1>4, InsideKeepsOverrun

LEMMA EndpointKeepsOverrun ==
    ASSUME TypeOK, TypeOK', OverrunInv, NEW r \in Users,
           Load(r) \/ FlushRow(r) \/ FlushLog(r) \/ Raise(r) \/ Remove(r)
    PROVE  OverrunInv'
<1>1. kept' = kept /\ crowd' = crowd
    BY DEF Load, FlushRow, FlushLog, Raise, Remove
<1>2. Busy' \subseteq Busy
    <2>1. at[r] \notin {"new", "over"}
        BY DEF Load, FlushRow, FlushLog, Raise, Remove
    <2>2. \A q \in Users : q # r => at'[q] = at[q]
        BY DEF Load, FlushRow, FlushLog, Raise, Remove, Over, TypeOK
    <2>3. QED
        BY <2>1, <2>2 DEF Busy, Users
<1>3. /\ mine[r] \in Users
      /\ \A q \in Users : q # r => at'[q] = at[q] /\ mine'[q] = mine[q]
    BY DEF Load, FlushRow, FlushLog, Raise, Remove, Over, TypeOK
<1>4. \A q \in Requests, s \in Users : <<q, "row">> \in flushed'[s] =>
          <<q, "row">> \in flushed[s] \/ (FlushRow(r) /\ q = r /\ s = mine[r])
    <2> SUFFICES ASSUME NEW q \in Requests, NEW s \in Users, <<q, "row">> \in flushed'[s]
                 PROVE  <<q, "row">> \in flushed[s] \/ (FlushRow(r) /\ q = r /\ s = mine[r])
        OBVIOUS
    <2>1. CASE Load(r) \/ Raise(r)
        BY <2>1 DEF Load, Raise
    <2>2. CASE Remove(r)
        BY <2>2 DEF Remove
    <2>3. CASE FlushRow(r)
        <3>1. \/ flushed' = [flushed EXCEPT ![mine[r]] = @ \cup {<<r, "row">>}]
              \/ flushed' = flushed
            BY <2>3 DEF FlushRow, Write
        <3>2. QED
            BY <1>3, <2>3, <3>1 DEF TypeOK
    <2>4. CASE FlushLog(r)
        <3>1. flushed' = [flushed EXCEPT ![mine[r]] = @ \cup {<<r, "log">>}]
            BY <2>4 DEF FlushLog, Write
        <3>2. <<q, "row">> # <<r, "log">>
            OBVIOUS
        <3>3. QED
            BY <1>3, <3>1, <3>2 DEF TypeOK
    <2>5. QED
        BY <2>1, <2>2, <2>3, <2>4
<1>5. RowsAtWork'
    <2> SUFFICES ASSUME NEW q \in Requests, NEW s \in Users, <<q, "row">> \in flushed'[s]
                 PROVE  AtWork(q, s)'
        BY DEF RowsAtWork
    <2>1. q \in Users
        BY DEF Users, Pooled
    <2>2. CASE FlushRow(r) /\ q = r /\ s = mine[r]
        BY <2>1, <2>2 DEF FlushRow, AtWork, TypeOK
    <2>3. CASE <<q, "row">> \in flushed[s]
        <3>1. AtWork(q, s)
            BY <2>3 DEF OverrunInv, RowsAtWork
        <3>2. CASE q # r
            BY <1>3, <2>1, <3>1, <3>2 DEF AtWork
        <3>3. CASE q = r
            BY <3>1, <3>3 DEF AtWork, Load, FlushRow, FlushLog, Raise, Remove, TypeOK
        <3>4. QED
            BY <3>2, <3>3
    <2>4. QED
        BY <1>4, <2>2, <2>3
<1>6. LoansBounded'
    <2>1. Pending' \subseteq Pending
        <3> SUFFICES ASSUME NEW q \in Pending' PROVE q \in Pending
            OBVIOUS
        <3>1. q \in Borrows /\ q \in Requests /\ q \in Users
            BY SessionsAssumption DEF Pending, Users, Pooled
        <3>2. CASE at'[q] = "passed"
            BY <3>1, <3>2 DEF Pending, Load, FlushRow, FlushLog, Raise, Remove, Over, TypeOK
        <3>3. ASSUME NEW s \in Users, <<q, "row">> \in flushed'[s] PROVE q \in Pending
            BY <1>4, <3>1, <3>3 DEF Pending, FlushRow
        <3>4. QED
            BY <3>2, <3>3 DEF Pending
    <2>2. Loans' \subseteq Loans
        BY <1>1, <2>1 DEF Loans
    <2>3. crowd' >= crowd
        BY <1>1 DEF TypeOK
    <2>4. QED
        BY <2>2, <2>3, LoansShrink DEF OverrunInv
<1>7. QED
    BY <1>1, <1>2, <1>5, <1>6, InsideKeepsOverrun

LEMMA OverrunInvInit == Init => OverrunInv
<1> SUFFICES ASSUME Init PROVE OverrunInv
    OBVIOUS
<1>1. RowsAtWork
    BY DEF Init, RowsAtWork
<1>2. Loans = Requests \ Borrows /\ InProgress = {} /\ crowd = 1
    BY SessionsAssumption DEF Init, Loans, Held, Pending, InProgress, Busy, Users, Pooled
<1>3. Cardinality(Requests \ Borrows) \in Nat
    BY RequestSets
<1>4. QED
    BY <1>1, <1>2, <1>3, FS_EmptySet, SessionsAssumption DEF OverrunInv, LoansBounded

\* However many requests overlap, share sessions and drop or commit what others
\* have written, n of them at a time leave the user with n - 1 devices over the
\* limit at most; requests one at a time keep the limit.
THEOREM Overrun == Spec => []OverrunBounded
<1>1. TypeOK /\ TypeOK' /\ OverrunInv /\ [Next]_vars => OverrunInv'
    <2> SUFFICES ASSUME TypeOK, TypeOK', OverrunInv, [Next]_vars PROVE OverrunInv'
        OBVIOUS
    <2>1. CASE Next
        BY <2>1, EnterKeepsOverrun, LeaveKeepsOverrun, PassKeepsOverrun,
           EndpointKeepsOverrun DEF Next, Step
    <2>2. CASE UNCHANGED vars
        BY <2>2 DEF vars, OverrunInv, RowsAtWork, AtWork, LoansBounded, Loans, Pending,
                    Held, InProgress, Busy
    <2>3. QED
        BY <2>1, <2>2
<1>2. TypeOK /\ OverrunInv => OverrunBounded
    <2> SUFFICES ASSUME TypeOK, OverrunInv PROVE OverrunBounded
        OBVIOUS
    <2>1. Held(kept) \subseteq Loans
        BY DEF Loans
    <2>2. /\ Cardinality(Held(kept)) <= Cardinality(Loans)
          /\ Cardinality(Held(kept)) \in Nat /\ Cardinality(Loans) \in Nat
        BY <2>1, RequestSets, LoansAreRequests
    <2>3. QED
        BY <2>2, SessionsAssumption DEF OverrunInv, LoansBounded, OverrunBounded, TypeOK
<1>3. QED
    BY <1>1, <1>2, OverrunInvInit, TypeCorrect, PTL DEF Spec
=============================================================================
