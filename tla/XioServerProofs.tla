-------------------------- MODULE XioServerProofs ---------------------------
(***************************************************************************)
(* Proofs about the XIO server, for every finite set of accepts and every  *)
(* way of using the server.  ServerInv is inductive; the invariants of     *)
(* XioServer follow from it.                                               *)
(***************************************************************************)
EXTENDS XioServer, FiniteSetTheorems, TLAPS

\* The driver, or the registering thread on the way to it, has the accept.
Pre(a) == ost[a] # "NONE" /\ at[a] \in {"new", "driver", "cancelling", "finished"}

\* The accepts that hold a reference on the server, and those it counts as
\* outstanding.
Owners == {a \in Accepts : Live(a) /\ reg[a] # "failed"}
Busy == {a \in Accepts : ost[a] # "NONE" /\ at[a] \notin {"blocked", "done"}}

\* The timer's reference is there as long as its entry is, and the user is asked,
\* and the entry put back, only from the poller that has it.
TimerLink ==
    \A a \in Accepts :
        /\ held[a] <=> timer[a] # "none"
        /\ asking[a] => timer[a] = "firing"
        /\ declined[a] => timer[a] = "firing" /\ ~asking[a]

\* How op->state follows the accept's way to the driver and back.
Stages ==
    \A a \in Accepts :
        /\ ost[a] = "NONE" <=> reg[a] = "none"
        /\ reg[a] = "none" => at[a] = "new" /\ timer[a] = "none"
        /\ reg[a] \in {"registered", "refused", "failed"} => at[a] = "new"
        /\ at[a] \in {"cached", "due", "callback", "blocked"} => ost[a] = "FINISH_WAITING"
        /\ at[a] = "done" => ost[a] \in {"FINISH_WAITING", "FREED"}
        /\ ost[a] = "FINISH_WAITING" =>
               at[a] \in {"cached", "due", "callback", "blocked", "done"}
        /\ at[a] = "cached" <=> asking[a] /\ ost[a] = "FINISH_WAITING"
        /\ ost[a] = "TIMEOUT_PENDING" => asking[a]
        /\ asking[a] /\ ost[a] # "TIMEOUT_PENDING" => at[a] = "cached" \/ reg[a] = "failed"
        /\ ost[a] = "FINISHED" => reg[a] = "failed"

\* op->ref counts the users; an operation nobody uses is freed, and only the caller
\* of a failed registration frees one that is used.
OpRefs ==
    \A a \in Accepts :
        /\ Live(a) => oref[a] = Users(a)
        /\ ost[a] = "FREED" => reg[a] = "failed" \/ Users(a) = 0

\* The accept that the driver has is server->op, and the server waits for it.
Protocol ==
    /\ closing = "none" <=> sstate \in {"OPEN", "ACCEPTING", "COMPLETING", "CLOSE_PENDING"}
    /\ closing \in {"due", "callback"} <=> sstate = "CLOSING"
    /\ \A a \in Accepts : Pre(a) => sstate \in {"ACCEPTING", "CLOSE_PENDING"} /\ sop = a
    /\ sstate = "ACCEPTING" => sop \in Accepts /\ Pre(sop)
    /\ sstate = "COMPLETING" => sop \in Accepts /\ at[sop] \in {"cached", "due", "callback"}
    /\ sstate = "OPEN" => sop = None
    /\ ~conf.eager /\ sstate \notin {"OPEN", "ACCEPTING", "COMPLETING"} =>
           \A a \in Accepts : reg[a] \in {"none", "returned", "failed"}

\* server->ref and outstanding_operations count those accepts.
Counts ==
    /\ sref = One(closing # "done") + Cardinality(Owners)
    /\ sstate = "FREED" <=> sref = 0
    /\ outstanding = Cardinality(Busy)

ServerInv == TypeOK /\ TimerLink /\ Stages /\ OpRefs /\ Protocol /\ Counts

-----------------------------------------------------------------------------
\* A new server has no accept: ServerInv holds.
LEMMA InitInv == Init => ServerInv
  <1> SUFFICES ASSUME Init PROVE ServerInv
    OBVIOUS
  <1> USE AcceptsAssumption, ServerConfigAssumption
  <1>1. TypeOK
    BY DEF Init, T!Init, TypeOK
  <1>2. TimerLink /\ Stages /\ OpRefs /\ Protocol
    BY DEF Init, T!Init, TimerLink, Stages, OpRefs, Protocol, Live, Users, Pre
  <1>3. Owners = {} /\ Busy = {}
    BY DEF Init, Owners, Busy, Live
  <1>4. Counts
    BY <1>3, FS_EmptySet DEF Init, Counts, One
  <1> QED
    BY <1>1, <1>2, <1>4 DEF ServerInv

\* The counters are numbers, and at least as large as the accepts known to be counted.
LEMMA Counted ==
    ASSUME ServerInv
    PROVE  /\ IsFiniteSet(Owners) /\ Cardinality(Owners) \in Nat
           /\ IsFiniteSet(Busy) /\ Cardinality(Busy) \in Nat
           /\ \A a \in Owners : Cardinality(Owners) >= 1
           /\ \A a \in Busy : Cardinality(Busy) >= 1
           /\ \A a \in Busy : Cardinality(Busy) = 1 => Busy = {a}
  <1>1. IsFiniteSet(Owners) /\ IsFiniteSet(Busy)
    BY AcceptsAssumption, FS_Subset DEF Owners, Busy
  <1>2. Cardinality(Owners) \in Nat /\ Cardinality(Busy) \in Nat
    BY <1>1, FS_CardinalityType
  <1>3. ASSUME NEW a \in Owners PROVE Cardinality(Owners) >= 1
    BY <1>1, <1>2, <1>3, FS_EmptySet
  <1>4. ASSUME NEW a \in Busy PROVE Cardinality(Busy) >= 1
    BY <1>1, <1>2, <1>4, FS_EmptySet
  <1>5. ASSUME NEW a \in Busy, Cardinality(Busy) = 1 PROVE Busy = {a}
    BY <1>1, <1>5, FS_Singleton
  <1> QED
    BY <1>1, <1>2, <1>3, <1>4, <1>5

\* Every step of the server uses the timer as TimerService lets it.
LEMMA TimerLinkStep == ServerInv /\ [Next]_vars => TimerLink'
  <1> SUFFICES ASSUME ServerInv, [Next]_vars PROVE TimerLink'
    OBVIOUS
  <1> USE DEF ServerInv, TypeOK, TimerLink, Set, server, timing
  <1>1. CASE UNCHANGED vars
    BY <1>1 DEF vars
  <1>2. ASSUME NEW a \in Accepts, RegisterAccept(a) PROVE TimerLink'
    BY <1>2 DEF RegisterAccept, T!Register
  <1>3. ASSUME NEW a \in Accepts, PassAccept(a) PROVE TimerLink'
    BY <1>3 DEF PassAccept
  <1>4. ASSUME NEW a \in Accepts, DriverAccept(a) PROVE TimerLink'
    BY <1>4 DEF DriverAccept
  <1>5. ASSUME NEW a \in Accepts, RegisterReturns(a) PROVE TimerLink'
    BY <1>5 DEF RegisterReturns, Release, DecOp, DecServer, Insist
  <1>6. ASSUME NEW a \in Accepts, RegisterFails(a) PROVE TimerLink'
    BY <1>6 DEF RegisterFails, T!Withdraw, DecOp, DecServer, Insist
  <1>7. ASSUME NEW a \in Accepts, CallerFrees(a) PROVE TimerLink'
    BY <1>7 DEF CallerFrees
  <1>8. ASSUME NEW a \in Accepts, FinishedAccept(a) PROVE TimerLink'
    BY <1>8 DEF FinishedAccept
  <1>9. ASSUME NEW a \in Accepts, AcceptCallback(a) PROVE TimerLink'
    BY <1>9 DEF AcceptCallback, T!Withdraw, Insist
  <1>10. ASSUME NEW a \in Accepts, AcceptKickout(a) PROVE TimerLink'
    BY <1>10 DEF AcceptKickout
  <1>11. ASSUME NEW a \in Accepts, CallbackReturns(a) PROVE TimerLink'
    BY <1>11 DEF CallbackReturns, PostAccept, PostState, Release, DecOp, DecServer,
       Insist, LastDropIn
  <1>12. ASSUME NEW a \in Accepts, WillBlock(a) PROVE TimerLink'
    BY <1>12 DEF WillBlock, PostAccept, PostState, Insist
  <1>13. ASSUME NEW a \in Accepts, BlockedReturns(a) PROVE TimerLink'
    BY <1>13 DEF BlockedReturns, Release, DecOp, DecServer, Insist, LastDropIn
  <1>14. ASSUME NEW a \in Accepts, TimerFires(a) PROVE TimerLink'
    BY <1>14 DEF TimerFires, T!Fire
  <1>15. ASSUME NEW a \in Accepts, TimeoutTooLate(a) PROVE TimerLink'
    BY <1>15 DEF TimeoutTooLate, InPoller, T!Accept, Release, DecOp, DecServer, Insist,
       LastDropIn
  <1>16. ASSUME NEW a \in Accepts, TimeoutFreed(a) PROVE TimerLink'
    BY <1>16 DEF TimeoutFreed
  <1>17. ASSUME NEW a \in Accepts, TimeoutAsks(a) PROVE TimerLink'
    BY <1>17 DEF TimeoutAsks, InPoller
  <1>18. ASSUME NEW a \in Accepts, TimeoutBlocked(a) PROVE TimerLink'
    BY <1>18 DEF TimeoutBlocked, InPoller, T!Retry
  <1>19. ASSUME NEW a \in Accepts, NEW cancel \in BOOLEAN, TimeoutAnswered(a, cancel)
        PROVE TimerLink'
    BY <1>19 DEF TimeoutAnswered, T!Accept, T!Retry, Insist
  <1>20. CASE CancelAccept
    BY <1>20 DEF CancelAccept, Cancelled, Insist
  <1>21. CASE ServerClose
    BY <1>21 DEF ServerClose, Cancelled, Insist
  <1>22. CASE CloseKickout
    BY <1>22 DEF CloseKickout
  <1>23. CASE CloseReturns
    BY <1>23 DEF CloseReturns, DecServer
  <1>24. ASSUME NEW a \in Accepts, PutBack(a) PROVE TimerLink'
    BY <1>24 DEF PutBack, T!Retry
  <1> QED
    BY <1>1, <1>2, <1>3, <1>4, <1>5, <1>6, <1>7, <1>8, <1>9, <1>10, <1>11, <1>12,
       <1>13, <1>14, <1>15, <1>16, <1>17, <1>18, <1>19, <1>20, <1>21, <1>22, <1>23, <1>24
       DEF Next, Carry, Callback, Poller, Close

\* Every step keeps op->state and the accept's place in agreement.
LEMMA StagesStep == ServerInv /\ [Next]_vars => Stages'
  <1> SUFFICES ASSUME ServerInv, [Next]_vars PROVE Stages'
    OBVIOUS
  <1> USE AcceptsAssumption DEF ServerInv, TypeOK, TimerLink, Stages, OpRefs, Protocol, Live,
       Users, One, Pre, Set, server, timing
  <1>1. CASE UNCHANGED vars
    BY <1>1 DEF vars
  <1>2. ASSUME NEW a \in Accepts, RegisterAccept(a) PROVE Stages'
    BY <1>2 DEF RegisterAccept, T!Register
  <1>3. ASSUME NEW a \in Accepts, PassAccept(a) PROVE Stages'
    BY <1>3 DEF PassAccept
  <1>4. ASSUME NEW a \in Accepts, DriverAccept(a) PROVE Stages'
    BY <1>4 DEF DriverAccept
  <1>5. ASSUME NEW a \in Accepts, RegisterReturns(a) PROVE Stages'
    BY <1>5 DEF RegisterReturns, Release, DecOp, DecServer, Insist
  <1>6. ASSUME NEW a \in Accepts, RegisterFails(a) PROVE Stages'
    BY <1>6 DEF RegisterFails, T!Withdraw, DecOp, DecServer, Insist
  <1>7. ASSUME NEW a \in Accepts, CallerFrees(a) PROVE Stages'
    BY <1>7 DEF CallerFrees
  <1>8. ASSUME NEW a \in Accepts, FinishedAccept(a) PROVE Stages'
    BY <1>8 DEF FinishedAccept
  <1>9. ASSUME NEW a \in Accepts, AcceptCallback(a) PROVE Stages'
    BY <1>9 DEF AcceptCallback, T!Withdraw, Insist
  <1>10. ASSUME NEW a \in Accepts, AcceptKickout(a) PROVE Stages'
    BY <1>10 DEF AcceptKickout
  <1>11. ASSUME NEW a \in Accepts, CallbackReturns(a) PROVE Stages'
    BY <1>11 DEF CallbackReturns, PostAccept, PostState, Release, DecOp, DecServer,
       Insist, LastDropIn
  <1>12. ASSUME NEW a \in Accepts, WillBlock(a) PROVE Stages'
    BY <1>12 DEF WillBlock, PostAccept, PostState, Insist
  <1>13. ASSUME NEW a \in Accepts, BlockedReturns(a) PROVE Stages'
    BY <1>13 DEF BlockedReturns, Release, DecOp, DecServer, Insist, LastDropIn
  <1>14. ASSUME NEW a \in Accepts, TimerFires(a) PROVE Stages'
    BY <1>14 DEF TimerFires, T!Fire
  <1>15. ASSUME NEW a \in Accepts, TimeoutTooLate(a) PROVE Stages'
    BY <1>15 DEF TimeoutTooLate, InPoller, T!Accept, Release, DecOp, DecServer, Insist,
       LastDropIn
  <1>16. ASSUME NEW a \in Accepts, TimeoutFreed(a) PROVE Stages'
    BY <1>16 DEF TimeoutFreed
  <1>17. ASSUME NEW a \in Accepts, TimeoutAsks(a) PROVE Stages'
    BY <1>17 DEF TimeoutAsks, InPoller
  <1>18. ASSUME NEW a \in Accepts, TimeoutBlocked(a) PROVE Stages'
    BY <1>18 DEF TimeoutBlocked, InPoller, T!Retry
  <1>19. ASSUME NEW a \in Accepts, NEW cancel \in BOOLEAN, TimeoutAnswered(a, cancel)
        PROVE Stages'
    BY <1>19 DEF TimeoutAnswered, T!Accept, T!Retry, Insist
  <1>20. CASE CancelAccept
    BY <1>20 DEF CancelAccept, Cancelled, Insist
  <1>21. CASE ServerClose
    BY <1>21 DEF ServerClose, Cancelled, Insist
  <1>22. CASE CloseKickout
    BY <1>22 DEF CloseKickout
  <1>23. CASE CloseReturns
    BY <1>23 DEF CloseReturns, DecServer
  <1>24. ASSUME NEW a \in Accepts, PutBack(a) PROVE Stages'
    BY <1>24 DEF PutBack, T!Retry
  <1> QED
    BY <1>1, <1>2, <1>3, <1>4, <1>5, <1>6, <1>7, <1>8, <1>9, <1>10, <1>11, <1>12,
       <1>13, <1>14, <1>15, <1>16, <1>17, <1>18, <1>19, <1>20, <1>21, <1>22, <1>23, <1>24
       DEF Next, Carry, Callback, Poller, Close

\* Every step keeps op->ref equal to the number of users.
LEMMA OpRefsStep == ServerInv /\ [Next]_vars => OpRefs'
  <1> SUFFICES ASSUME ServerInv, [Next]_vars PROVE OpRefs'
    OBVIOUS
  <1> USE AcceptsAssumption DEF ServerInv, TypeOK, TimerLink, Stages, OpRefs, Live, Users, One,
       Set, server, timing
  <1>1. CASE UNCHANGED vars
    BY <1>1 DEF vars
  <1>2. ASSUME NEW a \in Accepts, RegisterAccept(a) PROVE OpRefs'
    BY <1>2 DEF RegisterAccept, T!Register
  <1>3. ASSUME NEW a \in Accepts, PassAccept(a) PROVE OpRefs'
    BY <1>3 DEF PassAccept
  <1>4. ASSUME NEW a \in Accepts, DriverAccept(a) PROVE OpRefs'
    BY <1>4 DEF DriverAccept
  <1>5. ASSUME NEW a \in Accepts, RegisterReturns(a) PROVE OpRefs'
    BY <1>5 DEF RegisterReturns, Release, DecOp, DecServer, Insist
  <1>6. ASSUME NEW a \in Accepts, RegisterFails(a) PROVE OpRefs'
    BY <1>6 DEF RegisterFails, T!Withdraw, DecOp, DecServer, Insist
  <1>7. ASSUME NEW a \in Accepts, CallerFrees(a) PROVE OpRefs'
    BY <1>7 DEF CallerFrees
  <1>8. ASSUME NEW a \in Accepts, FinishedAccept(a) PROVE OpRefs'
    BY <1>8 DEF FinishedAccept
  <1>9. ASSUME NEW a \in Accepts, AcceptCallback(a) PROVE OpRefs'
    BY <1>9 DEF AcceptCallback, T!Withdraw, Insist
  <1>10. ASSUME NEW a \in Accepts, AcceptKickout(a) PROVE OpRefs'
    BY <1>10 DEF AcceptKickout
  <1>11. ASSUME NEW a \in Accepts, CallbackReturns(a) PROVE OpRefs'
    BY <1>11 DEF CallbackReturns, PostAccept, PostState, Release, DecOp, DecServer,
       Insist, LastDropIn
  <1>12. ASSUME NEW a \in Accepts, WillBlock(a) PROVE OpRefs'
    BY <1>12 DEF WillBlock, PostAccept, PostState, Insist
  <1>13. ASSUME NEW a \in Accepts, BlockedReturns(a) PROVE OpRefs'
    BY <1>13 DEF BlockedReturns, Release, DecOp, DecServer, Insist, LastDropIn
  <1>14. ASSUME NEW a \in Accepts, TimerFires(a) PROVE OpRefs'
    BY <1>14 DEF TimerFires, T!Fire
  <1>15. ASSUME NEW a \in Accepts, TimeoutTooLate(a) PROVE OpRefs'
    BY <1>15 DEF TimeoutTooLate, InPoller, T!Accept, Release, DecOp, DecServer, Insist,
       LastDropIn
  <1>16. ASSUME NEW a \in Accepts, TimeoutFreed(a) PROVE OpRefs'
    BY <1>16 DEF TimeoutFreed
  <1>17. ASSUME NEW a \in Accepts, TimeoutAsks(a) PROVE OpRefs'
    BY <1>17 DEF TimeoutAsks, InPoller
  <1>18. ASSUME NEW a \in Accepts, TimeoutBlocked(a) PROVE OpRefs'
    BY <1>18 DEF TimeoutBlocked, InPoller, T!Retry
  <1>19. ASSUME NEW a \in Accepts, NEW cancel \in BOOLEAN, TimeoutAnswered(a, cancel)
        PROVE OpRefs'
    BY <1>19 DEF TimeoutAnswered, T!Accept, T!Retry, Insist
  <1>20. CASE CancelAccept
    BY <1>20 DEF CancelAccept, Cancelled, Insist
  <1>21. CASE ServerClose
    BY <1>21 DEF ServerClose, Cancelled, Insist
  <1>22. CASE CloseKickout
    BY <1>22 DEF CloseKickout
  <1>23. CASE CloseReturns
    BY <1>23 DEF CloseReturns, DecServer
  <1>24. ASSUME NEW a \in Accepts, PutBack(a) PROVE OpRefs'
    BY <1>24 DEF PutBack, T!Retry
  <1> QED
    BY <1>1, <1>2, <1>3, <1>4, <1>5, <1>6, <1>7, <1>8, <1>9, <1>10, <1>11, <1>12,
       <1>13, <1>14, <1>15, <1>16, <1>17, <1>18, <1>19, <1>20, <1>21, <1>22, <1>23, <1>24
       DEF Next, Carry, Callback, Poller, Close

\* The last reference on the server is an accept's only after the close.
LEMMA LastOwner ==
    ASSUME ServerInv
    PROVE  \A a \in Accepts : Live(a) /\ reg[a] # "failed" =>
               sref >= 1 /\ (sref = 1 => closing = "done" /\ sstate = "CLOSED")
  <1> SUFFICES ASSUME NEW a \in Accepts, Live(a), reg[a] # "failed"
               PROVE  sref >= 1 /\ (sref = 1 => closing = "done" /\ sstate = "CLOSED")
    OBVIOUS
  <1>1. a \in Owners
    BY DEF Owners
  <1>2. Cardinality(Owners) \in Nat /\ Cardinality(Owners) >= 1
    BY <1>1, Counted
  <1>3. sref >= 1 /\ (sref = 1 => closing = "done" /\ sstate # "FREED")
    BY <1>2 DEF ServerInv, Counts, One
  <1> QED
    BY <1>3 DEF ServerInv, TypeOK, Protocol

\* When the last outstanding accept is in its callback, the driver has none.
LEMMA LastBusy ==
    ASSUME ServerInv
    PROVE  \A a \in Accepts : at[a] = "callback" =>
               outstanding >= 1 /\ (outstanding = 1 => \A b \in Accepts : ~Pre(b))
  <1> SUFFICES ASSUME NEW a \in Accepts, at[a] = "callback"
               PROVE  outstanding >= 1 /\ (outstanding = 1 => \A b \in Accepts : ~Pre(b))
    OBVIOUS
  <1>1. a \in Busy
    BY DEF Busy, ServerInv, Stages
  <1>2. outstanding >= 1 /\ (outstanding = 1 => Busy = {a})
    BY <1>1, Counted DEF ServerInv, Counts
  <1>3. ASSUME NEW b \in Accepts, Pre(b) PROVE b \in Busy /\ b # a
    BY <1>3 DEF Busy, Pre
  <1> QED
    BY <1>2, <1>3

\* What post_accept makes of server->state.
LEMMA PostStateIs ==
    /\ sstate = "COMPLETING" => PostState = "OPEN"
    /\ sstate = "CLOSE_PENDING" /\ outstanding = 1 => PostState = "CLOSING"
    /\ sstate # "COMPLETING" /\ ~(sstate = "CLOSE_PENDING" /\ outstanding = 1) =>
           PostState = sstate
  <1>1. sstate = "COMPLETING" => PostState = "OPEN"
    BY Zenon DEF PostState
  <1>2. sstate = "CLOSE_PENDING" /\ outstanding = 1 => PostState = "CLOSING"
    BY Zenon DEF PostState
  <1>3. sstate # "COMPLETING" /\ ~(sstate = "CLOSE_PENDING" /\ outstanding = 1) =>
           PostState = sstate
    BY Zenon DEF PostState
  <1> QED
    BY <1>1, <1>2, <1>3

\* Every step keeps server->state, server->op and the driver's accept in agreement.
LEMMA ProtocolStep == ServerInv /\ [Next]_vars => Protocol'
  <1> SUFFICES ASSUME ServerInv, [Next]_vars PROVE Protocol'
    OBVIOUS
  <1> USE AcceptsAssumption, ServerConfigAssumption
      DEF ServerInv, TypeOK, TimerLink, Stages, OpRefs, Protocol, Live, Users, One, Pre, Set,
          server, timing, ConfigType
  <1>1. CASE UNCHANGED vars
    BY <1>1 DEF vars
  <1>2. ASSUME NEW a \in Accepts, RegisterAccept(a) PROVE Protocol'
    BY <1>2 DEF RegisterAccept, T!Register
  <1>3. ASSUME NEW a \in Accepts, PassAccept(a) PROVE Protocol'
    BY <1>3 DEF PassAccept
  <1>4. ASSUME NEW a \in Accepts, DriverAccept(a) PROVE Protocol'
    BY <1>4 DEF DriverAccept
  <1>5. ASSUME NEW a \in Accepts, RegisterReturns(a) PROVE Protocol'
    BY <1>5, LastOwner DEF RegisterReturns, Release, DecOp, DecServer, Insist
  <1>6. ASSUME NEW a \in Accepts, RegisterFails(a) PROVE Protocol'
    BY <1>6, LastOwner DEF RegisterFails, T!Withdraw, DecOp, DecServer, Insist
  <1>7. ASSUME NEW a \in Accepts, CallerFrees(a) PROVE Protocol'
    BY <1>7 DEF CallerFrees
  <1>8. ASSUME NEW a \in Accepts, FinishedAccept(a) PROVE Protocol'
    BY <1>8 DEF FinishedAccept
  <1>9. ASSUME NEW a \in Accepts, AcceptCallback(a) PROVE Protocol'
    BY <1>9 DEF AcceptCallback, T!Withdraw, Insist
  <1>10. ASSUME NEW a \in Accepts, AcceptKickout(a) PROVE Protocol'
    BY <1>10 DEF AcceptKickout
  <1>11. ASSUME NEW a \in Accepts, CallbackReturns(a) PROVE Protocol'
    BY <1>11, PostStateIs, LastBusy, LastOwner DEF CallbackReturns, PostAccept,
       PostState, Release, DecOp, DecServer, Insist, LastDropIn
  <1>12. ASSUME NEW a \in Accepts, WillBlock(a) PROVE Protocol'
    BY <1>12, PostStateIs, LastBusy DEF WillBlock, PostAccept, PostState, Insist
  <1>13. ASSUME NEW a \in Accepts, BlockedReturns(a) PROVE Protocol'
    BY <1>13, LastOwner DEF BlockedReturns, Release, DecOp, DecServer, Insist,
       LastDropIn
  <1>14. ASSUME NEW a \in Accepts, TimerFires(a) PROVE Protocol'
    BY <1>14 DEF TimerFires, T!Fire
  <1>15. ASSUME NEW a \in Accepts, TimeoutTooLate(a) PROVE Protocol'
    BY <1>15, LastOwner DEF TimeoutTooLate, InPoller, T!Accept, Release, DecOp, DecServer,
       Insist, LastDropIn
  <1>16. ASSUME NEW a \in Accepts, TimeoutFreed(a) PROVE Protocol'
    BY <1>16 DEF TimeoutFreed
  <1>17. ASSUME NEW a \in Accepts, TimeoutAsks(a) PROVE Protocol'
    BY <1>17 DEF TimeoutAsks, InPoller
  <1>18. ASSUME NEW a \in Accepts, TimeoutBlocked(a) PROVE Protocol'
    BY <1>18 DEF TimeoutBlocked, InPoller, T!Retry
  <1>19. ASSUME NEW a \in Accepts, NEW cancel \in BOOLEAN, TimeoutAnswered(a, cancel)
        PROVE Protocol'
    BY <1>19 DEF TimeoutAnswered, T!Accept, T!Retry, Insist
  <1>20. CASE CancelAccept
    BY <1>20 DEF CancelAccept, Cancelled, Insist
  <1>21. CASE ServerClose
    BY <1>21 DEF ServerClose, Cancelled, Insist
  <1>22. CASE CloseKickout
    BY <1>22 DEF CloseKickout
  <1>23. CASE CloseReturns
    BY <1>23 DEF CloseReturns, DecServer
  <1>24. ASSUME NEW a \in Accepts, PutBack(a) PROVE Protocol'
    BY <1>24 DEF PutBack, T!Retry
  <1> QED
    BY <1>1, <1>2, <1>3, <1>4, <1>5, <1>6, <1>7, <1>8, <1>9, <1>10, <1>11, <1>12,
       <1>13, <1>14, <1>15, <1>16, <1>17, <1>18, <1>19, <1>20, <1>21, <1>22, <1>23, <1>24
       DEF Next, Carry, Callback, Poller, Close

\* Adding or removing one element changes the size of a finite set by at most one.
LEMMA CardOne ==
    ASSUME NEW S, NEW U, NEW a, IsFiniteSet(S),
           U = IF a \in U THEN S \cup {a} ELSE S \ {a}
    PROVE  Cardinality(U) = Cardinality(S) + One(a \in U) - One(a \in S)
  <1>1. Cardinality(S) \in Nat
    BY FS_CardinalityType
  <1>2. CASE a \in U
    BY <1>1, <1>2, FS_AddElement DEF One
  <1>3. CASE a \notin U
    BY <1>1, <1>3, FS_RemoveElement DEF One
  <1> QED
    BY <1>2, <1>3

\* A step that concerns one accept changes the numbers of counted accepts by what it
\* does to that one.
LEMMA OneAccept ==
    ASSUME ServerInv, NEW a \in Accepts,
           \A b \in Accepts \ {a} : /\ b \in Owners' <=> b \in Owners
                                    /\ b \in Busy' <=> b \in Busy
    PROVE  /\ Cardinality(Owners') = Cardinality(Owners) + One(a \in Owners') - One(a \in Owners)
           /\ Cardinality(Busy') = Cardinality(Busy) + One(a \in Busy') - One(a \in Busy)
  <1>1. IsFiniteSet(Owners) /\ IsFiniteSet(Busy)
    BY Counted
  <1>2. Owners' = IF a \in Owners' THEN Owners \cup {a} ELSE Owners \ {a}
    BY DEF Owners
  <1>3. Busy' = IF a \in Busy' THEN Busy \cup {a} ELSE Busy \ {a}
    BY DEF Busy
  <1> HIDE DEF Owners, Busy
  <1>4. Cardinality(Owners') = Cardinality(Owners) + One(a \in Owners') - One(a \in Owners)
    BY <1>1, <1>2, CardOne
  <1>5. Cardinality(Busy') = Cardinality(Busy) + One(a \in Busy') - One(a \in Busy)
    BY <1>1, <1>3, CardOne
  <1> QED
    BY <1>4, <1>5

\* Every step keeps server->ref and outstanding_operations exact.
LEMMA CountsStep == ServerInv /\ [Next]_vars => Counts'
  <1> SUFFICES ASSUME ServerInv, [Next]_vars PROVE Counts'
    OBVIOUS
  <1> USE AcceptsAssumption DEF ServerInv, TypeOK, TimerLink, Counts
  <1>1. CASE UNCHANGED vars
    BY <1>1 DEF vars, Owners, Busy, Live, Counts
  <1>2. ASSUME NEW a \in Accepts, RegisterAccept(a) PROVE Counts'
    <2>1. \A b \in Accepts \ {a} : (b \in Owners' <=> b \in Owners) /\ (b \in Busy' <=> b \in Busy)
      BY <1>2 DEF RegisterAccept, T!Register, Owners, Busy, Live, Set
    <2>2. /\ Cardinality(Owners') = Cardinality(Owners) + One(a \in Owners') - One(a \in Owners)
          /\ Cardinality(Busy') = Cardinality(Busy) + One(a \in Busy') - One(a \in Busy)
      BY <2>1, OneAccept
    <2> QED
      BY <1>2, <2>2, Counted DEF RegisterAccept, T!Register, Owners, Busy, Live,
         Set, One, Stages, OpRefs, Users, Protocol, server
  <1>3. ASSUME NEW a \in Accepts, PassAccept(a) PROVE Counts'
    <2>1. \A b \in Accepts \ {a} : (b \in Owners' <=> b \in Owners) /\ (b \in Busy' <=> b \in Busy)
      BY <1>3 DEF PassAccept, Owners, Busy, Live, Set
    <2>2. /\ Cardinality(Owners') = Cardinality(Owners) + One(a \in Owners') - One(a \in Owners)
          /\ Cardinality(Busy') = Cardinality(Busy) + One(a \in Busy') - One(a \in Busy)
      BY <2>1, OneAccept
    <2> QED
      BY <1>3, <2>2, Counted DEF PassAccept, Owners, Busy, Live, Set, One, Stages,
         OpRefs, Users, Protocol, server
  <1>4. ASSUME NEW a \in Accepts, DriverAccept(a) PROVE Counts'
    <2>1. \A b \in Accepts \ {a} : (b \in Owners' <=> b \in Owners) /\ (b \in Busy' <=> b \in Busy)
      BY <1>4 DEF DriverAccept, Owners, Busy, Live, Set
    <2>2. /\ Cardinality(Owners') = Cardinality(Owners) + One(a \in Owners') - One(a \in Owners)
          /\ Cardinality(Busy') = Cardinality(Busy) + One(a \in Busy') - One(a \in Busy)
      BY <2>1, OneAccept
    <2> QED
      BY <1>4, <2>2, Counted DEF DriverAccept, Owners, Busy, Live, Set, One, Stages,
         OpRefs, Users, Protocol, server
  <1>5. ASSUME NEW a \in Accepts, RegisterReturns(a) PROVE Counts'
    <2>1. \A b \in Accepts \ {a} : (b \in Owners' <=> b \in Owners) /\ (b \in Busy' <=> b \in Busy)
      BY <1>5 DEF RegisterReturns, Release, DecOp, DecServer, Insist, Owners, Busy,
         Live, Set
    <2>2. /\ Cardinality(Owners') = Cardinality(Owners) + One(a \in Owners') - One(a \in Owners)
          /\ Cardinality(Busy') = Cardinality(Busy) + One(a \in Busy') - One(a \in Busy)
      BY <2>1, OneAccept
    <2>3. /\ oref[a] = 1 => a \in Owners /\ a \notin Owners'
          /\ oref[a] # 1 => (a \in Owners' <=> a \in Owners)
      BY <1>5 DEF RegisterReturns, Release, DecOp, DecServer, Insist, Owners, Live,
         Set, One, Stages, OpRefs, Users
    <2>4. outstanding' = outstanding + One(a \in Busy') - One(a \in Busy)
      BY <1>5 DEF RegisterReturns, Release, DecOp, DecServer, Insist, Busy, Live,
         Set, One, Stages, OpRefs, Users
    <2>5. oref[a] = 1 => sref >= 1 /\ (sref = 1 => closing = "done")
      BY <2>3, LastOwner DEF Owners
    <2>6. /\ sref' = sref - One(oref[a] = 1)
          /\ sstate' = "FREED" <=> sref' = 0
          /\ closing' = "done" <=> closing = "done"
      BY <1>5, <2>5 DEF RegisterReturns, Release, DecOp, DecServer, Insist, One
    <2>7. One(a \in Owners) - One(a \in Owners') = One(oref[a] = 1)
      BY <2>3 DEF One
    <2> QED
      BY <2>2, <2>4, <2>6, <2>7, Counted DEF One
  <1>6. ASSUME NEW a \in Accepts, RegisterFails(a) PROVE Counts'
    <2>1. \A b \in Accepts \ {a} : (b \in Owners' <=> b \in Owners) /\ (b \in Busy' <=> b \in Busy)
      BY <1>6 DEF RegisterFails, T!Withdraw, DecOp, DecServer, Insist, Owners, Busy,
         Live, Set
    <2>2. /\ Cardinality(Owners') = Cardinality(Owners) + One(a \in Owners') - One(a \in Owners)
          /\ Cardinality(Busy') = Cardinality(Busy) + One(a \in Busy') - One(a \in Busy)
      BY <2>1, OneAccept
    <2> QED
      BY <1>6, <2>2, Counted, LastOwner DEF RegisterFails, T!Withdraw, DecOp,
         DecServer, Insist, Owners, Busy, Live, Set, One, Stages, OpRefs, Users,
         Protocol, server
  <1>7. ASSUME NEW a \in Accepts, CallerFrees(a) PROVE Counts'
    <2>1. \A b \in Accepts \ {a} : (b \in Owners' <=> b \in Owners) /\ (b \in Busy' <=> b \in Busy)
      BY <1>7 DEF CallerFrees, Owners, Busy, Live, Set
    <2>2. /\ Cardinality(Owners') = Cardinality(Owners) + One(a \in Owners') - One(a \in Owners)
          /\ Cardinality(Busy') = Cardinality(Busy) + One(a \in Busy') - One(a \in Busy)
      BY <2>1, OneAccept
    <2> QED
      BY <1>7, <2>2, Counted DEF CallerFrees, Owners, Busy, Live, Set, One, Stages,
         OpRefs, Users, Protocol, server
  <1>8. ASSUME NEW a \in Accepts, FinishedAccept(a) PROVE Counts'
    <2>1. \A b \in Accepts \ {a} : (b \in Owners' <=> b \in Owners) /\ (b \in Busy' <=> b \in Busy)
      BY <1>8 DEF FinishedAccept, Owners, Busy, Live, Set
    <2>2. /\ Cardinality(Owners') = Cardinality(Owners) + One(a \in Owners') - One(a \in Owners)
          /\ Cardinality(Busy') = Cardinality(Busy) + One(a \in Busy') - One(a \in Busy)
      BY <2>1, OneAccept
    <2> QED
      BY <1>8, <2>2, Counted DEF FinishedAccept, Owners, Busy, Live, Set, One,
         Stages, OpRefs, Users, Protocol, server
  <1>9. ASSUME NEW a \in Accepts, AcceptCallback(a) PROVE Counts'
    <2>1. \A b \in Accepts \ {a} : (b \in Owners' <=> b \in Owners) /\ (b \in Busy' <=> b \in Busy)
      BY <1>9 DEF AcceptCallback, T!Withdraw, Insist, Owners, Busy, Live, Set
    <2>2. /\ Cardinality(Owners') = Cardinality(Owners) + One(a \in Owners') - One(a \in Owners)
          /\ Cardinality(Busy') = Cardinality(Busy) + One(a \in Busy') - One(a \in Busy)
      BY <2>1, OneAccept
    <2> QED
      BY <1>9, <2>2, Counted DEF AcceptCallback, T!Withdraw, Insist, Owners, Busy,
         Live, Set, One, Stages, OpRefs, Users, Protocol, server
  <1>10. ASSUME NEW a \in Accepts, AcceptKickout(a) PROVE Counts'
    <2>1. \A b \in Accepts \ {a} : (b \in Owners' <=> b \in Owners) /\ (b \in Busy' <=> b \in Busy)
      BY <1>10 DEF AcceptKickout, Owners, Busy, Live, Set
    <2>2. /\ Cardinality(Owners') = Cardinality(Owners) + One(a \in Owners') - One(a \in Owners)
          /\ Cardinality(Busy') = Cardinality(Busy) + One(a \in Busy') - One(a \in Busy)
      BY <2>1, OneAccept
    <2> QED
      BY <1>10, <2>2, Counted DEF AcceptKickout, Owners, Busy, Live, Set, One,
         Stages, OpRefs, Users, Protocol, server
  <1>11. ASSUME NEW a \in Accepts, CallbackReturns(a) PROVE Counts'
    <2>1. \A b \in Accepts \ {a} : (b \in Owners' <=> b \in Owners) /\ (b \in Busy' <=> b \in Busy)
      BY <1>11 DEF CallbackReturns, PostAccept, Release, DecOp, DecServer, Insist,
         LastDropIn, Owners, Busy, Live, Set
    <2>2. /\ Cardinality(Owners') = Cardinality(Owners) + One(a \in Owners') - One(a \in Owners)
          /\ Cardinality(Busy') = Cardinality(Busy) + One(a \in Busy') - One(a \in Busy)
      BY <2>1, OneAccept
    <2>3. /\ oref[a] = 1 => a \in Owners /\ a \notin Owners'
          /\ oref[a] # 1 => (a \in Owners' <=> a \in Owners)
      BY <1>11 DEF CallbackReturns, PostAccept, Release, DecOp, DecServer, Insist,
         LastDropIn, Owners, Live, Set, One, Stages, OpRefs, Users
    <2>4. outstanding' = outstanding + One(a \in Busy') - One(a \in Busy)
      BY <1>11 DEF CallbackReturns, PostAccept, Release, DecOp, DecServer, Insist,
         LastDropIn, Busy, Live, Set, One, Stages, OpRefs, Users
    <2>5. oref[a] = 1 => sref >= 1 /\ (sref = 1 => closing = "done")
      BY <2>3, LastOwner DEF Owners
    <2>6. /\ sref' = sref - One(oref[a] = 1)
          /\ sstate' = "FREED" <=> sref' = 0
          /\ closing' = "done" <=> closing = "done"
      BY <1>11, <2>5, PostStateIs DEF CallbackReturns, PostAccept, Release, DecOp,
         DecServer, Insist, LastDropIn, One, Protocol
    <2>7. One(a \in Owners) - One(a \in Owners') = One(oref[a] = 1)
      BY <2>3 DEF One
    <2> QED
      BY <2>2, <2>4, <2>6, <2>7, Counted DEF One
  <1>12. ASSUME NEW a \in Accepts, WillBlock(a) PROVE Counts'
    <2>1. \A b \in Accepts \ {a} : (b \in Owners' <=> b \in Owners) /\ (b \in Busy' <=> b \in Busy)
      BY <1>12 DEF WillBlock, PostAccept, Insist, Owners, Busy, Live, Set
    <2>2. /\ Cardinality(Owners') = Cardinality(Owners) + One(a \in Owners') - One(a \in Owners)
          /\ Cardinality(Busy') = Cardinality(Busy) + One(a \in Busy') - One(a \in Busy)
      BY <2>1, OneAccept
    <2> QED
      BY <1>12, <2>2, Counted, PostStateIs DEF WillBlock, PostAccept, Insist,
         Owners, Busy, Live, Set, One, Stages, OpRefs, Users, Protocol, server
  <1>13. ASSUME NEW a \in Accepts, BlockedReturns(a) PROVE Counts'
    <2>1. \A b \in Accepts \ {a} : (b \in Owners' <=> b \in Owners) /\ (b \in Busy' <=> b \in Busy)
      BY <1>13 DEF BlockedReturns, Release, DecOp, DecServer, Insist, LastDropIn,
         Owners, Busy, Live, Set
    <2>2. /\ Cardinality(Owners') = Cardinality(Owners) + One(a \in Owners') - One(a \in Owners)
          /\ Cardinality(Busy') = Cardinality(Busy) + One(a \in Busy') - One(a \in Busy)
      BY <2>1, OneAccept
    <2>3. /\ oref[a] = 1 => a \in Owners /\ a \notin Owners'
          /\ oref[a] # 1 => (a \in Owners' <=> a \in Owners)
      BY <1>13 DEF BlockedReturns, Release, DecOp, DecServer, Insist, LastDropIn,
         Owners, Live, Set, One, Stages, OpRefs, Users
    <2>4. outstanding' = outstanding + One(a \in Busy') - One(a \in Busy)
      BY <1>13 DEF BlockedReturns, Release, DecOp, DecServer, Insist, LastDropIn,
         Busy, Live, Set, One, Stages, OpRefs, Users
    <2>5. oref[a] = 1 => sref >= 1 /\ (sref = 1 => closing = "done")
      BY <2>3, LastOwner DEF Owners
    <2>6. /\ sref' = sref - One(oref[a] = 1)
          /\ sstate' = "FREED" <=> sref' = 0
          /\ closing' = "done" <=> closing = "done"
      BY <1>13, <2>5 DEF BlockedReturns, Release, DecOp, DecServer, Insist,
         LastDropIn, One
    <2>7. One(a \in Owners) - One(a \in Owners') = One(oref[a] = 1)
      BY <2>3 DEF One
    <2> QED
      BY <2>2, <2>4, <2>6, <2>7, Counted DEF One
  <1>14. ASSUME NEW a \in Accepts, TimerFires(a) PROVE Counts'
    <2>1. \A b \in Accepts \ {a} : (b \in Owners' <=> b \in Owners) /\ (b \in Busy' <=> b \in Busy)
      BY <1>14 DEF TimerFires, T!Fire, Owners, Busy, Live, Set
    <2>2. /\ Cardinality(Owners') = Cardinality(Owners) + One(a \in Owners') - One(a \in Owners)
          /\ Cardinality(Busy') = Cardinality(Busy) + One(a \in Busy') - One(a \in Busy)
      BY <2>1, OneAccept
    <2> QED
      BY <1>14, <2>2, Counted DEF TimerFires, T!Fire, Owners, Busy, Live, Set, One,
         Stages, OpRefs, Users, Protocol, server
  <1>15. ASSUME NEW a \in Accepts, TimeoutTooLate(a) PROVE Counts'
    <2>1. \A b \in Accepts \ {a} : (b \in Owners' <=> b \in Owners) /\ (b \in Busy' <=> b \in Busy)
      BY <1>15 DEF TimeoutTooLate, InPoller, T!Accept, Release, DecOp, DecServer, Insist,
         LastDropIn, Owners, Busy, Live, Set
    <2>2. /\ Cardinality(Owners') = Cardinality(Owners) + One(a \in Owners') - One(a \in Owners)
          /\ Cardinality(Busy') = Cardinality(Busy) + One(a \in Busy') - One(a \in Busy)
      BY <2>1, OneAccept
    <2>3. /\ oref[a] = 1 => a \in Owners /\ a \notin Owners'
          /\ oref[a] # 1 => (a \in Owners' <=> a \in Owners)
      BY <1>15 DEF TimeoutTooLate, InPoller, T!Accept, Release, DecOp, DecServer, Insist,
         LastDropIn, Owners, Live, Set, One, Stages, OpRefs, Users
    <2>4. outstanding' = outstanding + One(a \in Busy') - One(a \in Busy)
      BY <1>15 DEF TimeoutTooLate, InPoller, T!Accept, Release, DecOp, DecServer, Insist,
         LastDropIn, Busy, Live, Set, One, Stages, OpRefs, Users
    <2>5. oref[a] = 1 => sref >= 1 /\ (sref = 1 => closing = "done")
      BY <2>3, LastOwner DEF Owners
    <2>6. /\ sref' = sref - One(oref[a] = 1)
          /\ sstate' = "FREED" <=> sref' = 0
          /\ closing' = "done" <=> closing = "done"
      BY <1>15, <2>5 DEF TimeoutTooLate, InPoller, T!Accept, Release, DecOp, DecServer,
         Insist, LastDropIn, One
    <2>7. One(a \in Owners) - One(a \in Owners') = One(oref[a] = 1)
      BY <2>3 DEF One
    <2> QED
      BY <2>2, <2>4, <2>6, <2>7, Counted DEF One
  <1>16. ASSUME NEW a \in Accepts, TimeoutFreed(a) PROVE Counts'
    <2>1. \A b \in Accepts \ {a} : (b \in Owners' <=> b \in Owners) /\ (b \in Busy' <=> b \in Busy)
      BY <1>16 DEF TimeoutFreed, Owners, Busy, Live, Set
    <2>2. /\ Cardinality(Owners') = Cardinality(Owners) + One(a \in Owners') - One(a \in Owners)
          /\ Cardinality(Busy') = Cardinality(Busy) + One(a \in Busy') - One(a \in Busy)
      BY <2>1, OneAccept
    <2> QED
      BY <1>16, <2>2, Counted DEF TimeoutFreed, Owners, Busy, Live, Set, One,
         Stages, OpRefs, Users, Protocol, server
  <1>17. ASSUME NEW a \in Accepts, TimeoutAsks(a) PROVE Counts'
    <2>1. \A b \in Accepts \ {a} : (b \in Owners' <=> b \in Owners) /\ (b \in Busy' <=> b \in Busy)
      BY <1>17 DEF TimeoutAsks, InPoller, Owners, Busy, Live, Set
    <2>2. /\ Cardinality(Owners') = Cardinality(Owners) + One(a \in Owners') - One(a \in Owners)
          /\ Cardinality(Busy') = Cardinality(Busy) + One(a \in Busy') - One(a \in Busy)
      BY <2>1, OneAccept
    <2> QED
      BY <1>17, <2>2, Counted DEF TimeoutAsks, InPoller, Owners, Busy, Live, Set, One, Stages,
         OpRefs, Users, Protocol, server
  <1>18. ASSUME NEW a \in Accepts, TimeoutBlocked(a) PROVE Counts'
    <2>1. \A b \in Accepts \ {a} : (b \in Owners' <=> b \in Owners) /\ (b \in Busy' <=> b \in Busy)
      BY <1>18 DEF TimeoutBlocked, InPoller, T!Retry, Owners, Busy, Live, Set
    <2>2. /\ Cardinality(Owners') = Cardinality(Owners) + One(a \in Owners') - One(a \in Owners)
          /\ Cardinality(Busy') = Cardinality(Busy) + One(a \in Busy') - One(a \in Busy)
      BY <2>1, OneAccept
    <2> QED
      BY <1>18, <2>2, Counted DEF TimeoutBlocked, InPoller, T!Retry, Owners, Busy, Live, Set,
         One, Stages, OpRefs, Users, Protocol, server
  <1>19. ASSUME NEW a \in Accepts, NEW cancel \in BOOLEAN, TimeoutAnswered(a, cancel)
        PROVE Counts'
    <2>1. \A b \in Accepts \ {a} : (b \in Owners' <=> b \in Owners) /\ (b \in Busy' <=> b \in Busy)
      BY <1>19 DEF TimeoutAnswered, T!Accept, T!Retry, Insist, Owners, Busy, Live,
         Set
    <2>2. /\ Cardinality(Owners') = Cardinality(Owners) + One(a \in Owners') - One(a \in Owners)
          /\ Cardinality(Busy') = Cardinality(Busy) + One(a \in Busy') - One(a \in Busy)
      BY <2>1, OneAccept
    <2> QED
      BY <1>19, <2>2, Counted DEF TimeoutAnswered, T!Accept, T!Retry, Insist,
         Owners, Busy, Live, Set, One, Stages, OpRefs, Users, Protocol, server
  <1>20. CASE CancelAccept
    <2>1. Owners' = Owners /\ Busy' = Busy
      BY <1>20 DEF CancelAccept, Cancelled, Insist, Owners, Busy, Live, Set, server,
         timing
    <2> QED
      BY <1>20, <2>1, Counted DEF CancelAccept, Cancelled, Insist, One, Protocol,
         server
  <1>21. CASE ServerClose
    <2>1. Owners' = Owners /\ Busy' = Busy
      BY <1>21 DEF ServerClose, Cancelled, Insist, Owners, Busy, Live, Set, server,
         timing
    <2> QED
      BY <1>21, <2>1, Counted DEF ServerClose, Cancelled, Insist, One, Protocol,
         server
  <1>22. CASE CloseKickout
    <2>1. Owners' = Owners /\ Busy' = Busy
      BY <1>22 DEF CloseKickout, Owners, Busy, Live, Set, server, timing
    <2> QED
      BY <1>22, <2>1, Counted DEF CloseKickout, One, Protocol, server
  <1>23. CASE CloseReturns
    <2>1. Owners' = Owners /\ Busy' = Busy
      BY <1>23 DEF CloseReturns, DecServer, Owners, Busy, Live, Set, server, timing
    <2> QED
      BY <1>23, <2>1, Counted DEF CloseReturns, DecServer, One, Protocol, server
  <1>24. ASSUME NEW a \in Accepts, PutBack(a) PROVE Counts'
    <2>1. \A b \in Accepts \ {a} : (b \in Owners' <=> b \in Owners) /\ (b \in Busy' <=> b \in Busy)
      BY <1>24 DEF PutBack, T!Retry, Owners, Busy, Live, Set
    <2>2. /\ Cardinality(Owners') = Cardinality(Owners) + One(a \in Owners') - One(a \in Owners)
          /\ Cardinality(Busy') = Cardinality(Busy) + One(a \in Busy') - One(a \in Busy)
      BY <2>1, OneAccept
    <2> QED
      BY <1>24, <2>2, Counted DEF PutBack, T!Retry, Owners, Busy, Live, Set,
         One, Stages, OpRefs, Users, Protocol, server
  <1> QED
    BY <1>1, <1>2, <1>3, <1>4, <1>5, <1>6, <1>7, <1>8, <1>9, <1>10, <1>11, <1>12,
       <1>13, <1>14, <1>15, <1>16, <1>17, <1>18, <1>19, <1>20, <1>21, <1>22, <1>23, <1>24
       DEF Next, Carry, Callback, Poller, Close

\* Every step keeps the types; a counter that is decremented was positive.
LEMMA TypeStep == ServerInv /\ [Next]_vars => TypeOK'
  <1> SUFFICES ASSUME ServerInv, [Next]_vars PROVE TypeOK'
    OBVIOUS
  <1> USE AcceptsAssumption DEF ServerInv, TypeOK, Set, server, timing
  <1>1. CASE UNCHANGED vars
    BY <1>1 DEF vars
  <1>2. ASSUME NEW a \in Accepts, RegisterAccept(a) PROVE TypeOK'
    <2>1. timer' \in [Accepts -> {"none", "registered", "firing"}] /\ held' \in [Accepts -> BOOLEAN]
      BY <1>2 DEF RegisterAccept, T!Register
    <2>2. oref' \in [Accepts -> Nat]
      BY <1>2 DEF RegisterAccept
    <2> QED
      BY <1>2, <2>1, <2>2 DEF RegisterAccept
  <1>3. ASSUME NEW a \in Accepts, PassAccept(a) PROVE TypeOK'
    BY <1>3 DEF PassAccept
  <1>4. ASSUME NEW a \in Accepts, DriverAccept(a) PROVE TypeOK'
    BY <1>4 DEF DriverAccept
  <1>5. ASSUME NEW a \in Accepts, RegisterReturns(a) PROVE TypeOK'
    BY <1>5, LastOwner DEF RegisterReturns, Release, DecOp, DecServer, Insist,
       TimerLink, Stages, OpRefs, Live, Users, One
  <1>6. ASSUME NEW a \in Accepts, RegisterFails(a) PROVE TypeOK'
    <2>1. timer' \in [Accepts -> {"none", "registered", "firing"}] /\ held' \in [Accepts -> BOOLEAN]
      BY <1>6 DEF RegisterFails, T!Withdraw
    <2>2. oref' \in [Accepts -> Nat]
      BY <1>6 DEF RegisterFails, DecOp, TimerLink, Stages, OpRefs, Live, Users, One
    <2>3. sref' \in Nat /\ sstate' \in {sstate, "FREED"}
      BY <1>6, LastOwner DEF RegisterFails, DecServer, Stages, OpRefs, Live, Users, One
    <2> QED
      BY <1>6, <2>1, <2>2, <2>3 DEF RegisterFails, DecOp, Insist
  <1>7. ASSUME NEW a \in Accepts, CallerFrees(a) PROVE TypeOK'
    BY <1>7 DEF CallerFrees
  <1>8. ASSUME NEW a \in Accepts, FinishedAccept(a) PROVE TypeOK'
    BY <1>8 DEF FinishedAccept
  <1>9. ASSUME NEW a \in Accepts, AcceptCallback(a) PROVE TypeOK'
    <2>1. timer' \in [Accepts -> {"none", "registered", "firing"}] /\ held' \in [Accepts -> BOOLEAN]
      BY <1>9 DEF AcceptCallback, T!Withdraw
    <2>2. oref' \in [Accepts -> Nat]
      BY <1>9 DEF AcceptCallback, TimerLink, Stages, OpRefs, Live, Users, One
    <2> QED
      BY <1>9, <2>1, <2>2 DEF AcceptCallback, Insist
  <1>10. ASSUME NEW a \in Accepts, AcceptKickout(a) PROVE TypeOK'
    BY <1>10 DEF AcceptKickout
  <1>11. ASSUME NEW a \in Accepts, CallbackReturns(a) PROVE TypeOK'
    BY <1>11, LastOwner, LastBusy, PostStateIs DEF CallbackReturns, PostAccept,
       PostState, Release, DecOp, DecServer, Insist, LastDropIn, Stages, OpRefs,
       Live, Users, One, Protocol
  <1>12. ASSUME NEW a \in Accepts, WillBlock(a) PROVE TypeOK'
    BY <1>12, LastBusy, PostStateIs DEF WillBlock, PostAccept, PostState, Insist,
       Stages
  <1>13. ASSUME NEW a \in Accepts, BlockedReturns(a) PROVE TypeOK'
    BY <1>13, LastOwner DEF BlockedReturns, Release, DecOp, DecServer, Insist,
       LastDropIn, Stages, OpRefs, Live, Users, One
  <1>14. ASSUME NEW a \in Accepts, TimerFires(a) PROVE TypeOK'
    BY <1>14 DEF TimerFires, T!Fire
  <1>15. ASSUME NEW a \in Accepts, TimeoutTooLate(a) PROVE TypeOK'
    BY <1>15, LastOwner DEF TimeoutTooLate, InPoller, T!Accept, Release, DecOp, DecServer,
       Insist, LastDropIn, TimerLink, Stages, OpRefs, Live, Users, One
  <1>16. ASSUME NEW a \in Accepts, TimeoutFreed(a) PROVE TypeOK'
    BY <1>16 DEF TimeoutFreed
  <1>17. ASSUME NEW a \in Accepts, TimeoutAsks(a) PROVE TypeOK'
    BY <1>17 DEF TimeoutAsks, InPoller
  <1>18. ASSUME NEW a \in Accepts, TimeoutBlocked(a) PROVE TypeOK'
    BY <1>18 DEF TimeoutBlocked, InPoller, T!Retry
  <1>19. ASSUME NEW a \in Accepts, NEW cancel \in BOOLEAN, TimeoutAnswered(a, cancel)
        PROVE TypeOK'
    <2>1. timer' \in [Accepts -> {"none", "registered", "firing"}] /\ held' \in [Accepts -> BOOLEAN]
      BY <1>19 DEF TimeoutAnswered, T!Accept, T!Retry
    <2>2. oref' \in [Accepts -> Nat] /\ fault' \in BOOLEAN
      BY <1>19 DEF TimeoutAnswered, Insist, TimerLink, Stages, OpRefs, Live, Users, One
    <2>3. at' \in {Set(at, a, "due"), Set(at, a, "cancelling"), at}
      BY <1>19, Zenon DEF TimeoutAnswered
    <2>4. at' \in [Accepts -> {"new", "driver", "cancelling", "finished", "cached", "due",
                              "callback", "blocked", "done"}]
      BY <2>3
    <2> QED
      BY <1>19, <2>1, <2>2, <2>4 DEF TimeoutAnswered
  <1>20. CASE CancelAccept
    BY <1>20 DEF CancelAccept, Cancelled, Insist
  <1>21. CASE ServerClose
    BY <1>21 DEF ServerClose, Cancelled, Insist
  <1>22. CASE CloseKickout
    BY <1>22 DEF CloseKickout
  <1>23. CASE CloseReturns
    BY <1>23, Counted DEF CloseReturns, DecServer, Counts, One
  <1>24. ASSUME NEW a \in Accepts, PutBack(a) PROVE TypeOK'
    BY <1>24 DEF PutBack, T!Retry
  <1> QED
    BY <1>1, <1>2, <1>3, <1>4, <1>5, <1>6, <1>7, <1>8, <1>9, <1>10, <1>11, <1>12,
       <1>13, <1>14, <1>15, <1>16, <1>17, <1>18, <1>19, <1>20, <1>21, <1>22, <1>23, <1>24
       DEF Next, Carry, Callback, Poller, Close

\* ServerInv holds in every state.
LEMMA Invariance == Spec => []ServerInv
  <1>1. ServerInv /\ [Next]_vars => ServerInv'
    BY TypeStep, TimerLinkStep, StagesStep, OpRefsStep, ProtocolStep, CountsStep
       DEF ServerInv
  <1> QED
    BY InitInv, <1>1, PTL DEF Spec

-----------------------------------------------------------------------------
\* The server's and the operations' fields keep their types: no reference count and no
\* outstanding_operations is decremented below zero.
THEOREM TypeCorrect == Spec => []TypeOK
  <1>1. ServerInv => TypeOK
    BY DEF ServerInv
  <1> QED
    BY Invariance, <1>1, PTL

\* As long as no accept is refused, op->ref, server->ref and outstanding_operations
\* count their users exactly, and the server is freed with its last user.
THEOREM ReferencesExact == Spec => []RefsExact
  <1>1. ASSUME ServerInv PROVE RefsExact
    <2> SUFFICES ASSUME \A a \in Accepts : ~Failed(a)
                 PROVE  /\ \A a \in Accepts : Live(a) => oref[a] = Users(a)
                        /\ \A a \in Accepts : ost[a] = "FREED" => Users(a) = 0
                        /\ sref = One(closing # "done") + Cardinality({a \in Accepts : Live(a)})
                        /\ sstate = "FREED" <=> sref = 0
                        /\ outstanding = Cardinality(Busy)
      BY DEF RefsExact, Busy
    <2>1. Owners = {a \in Accepts : Live(a)}
      BY DEF Owners, Failed
    <2> QED
      BY <1>1, <2>1 DEF ServerInv, OpRefs, Counts, Failed
  <1> QED
    BY Invariance, <1>1, PTL

\* server_destroy finds the driver without an accept of the server, also when the user
\* closes the server early or an accept was refused.
THEOREM DriverIdle == Spec => []DriverIdleAtClose
  <1>1. ServerInv => DriverIdleAtClose
    BY DEF ServerInv, Stages, Protocol, Pre, DriverIdleAtClose, TypeOK
  <1> QED
    BY Invariance, <1>1, PTL

\* No step changes how the server is used.
LEMMA ConfFixed == [Next]_vars => conf' = conf
  BY DEF Next, vars, Carry, Callback, Poller, Close,
     RegisterAccept, PassAccept, DriverAccept, RegisterReturns, RegisterFails, CallerFrees,
     FinishedAccept, AcceptCallback, AcceptKickout, CallbackReturns, WillBlock, BlockedReturns,
     TimerFires, TimeoutTooLate, TimeoutFreed, TimeoutAsks, TimeoutBlocked, TimeoutAnswered,
     PutBack, CancelAccept, ServerClose, CloseKickout, CloseReturns

\* A step that breaks an assertion, or uses a freed operation, of a server that is not
\* closed early has a refused accept.
LEMMA FaultStep ==
    ASSUME ServerInv, Next, ~conf.eager
    PROVE  NoFaultUnlessRefused'
  <1> USE AcceptsAssumption, ServerConfigAssumption
      DEF ServerInv, TypeOK, NoFaultUnlessRefused, Failed, Set, server, timing, ConfigType
  <1>1. ~fault
    BY DEF Next
  <1>2. ASSUME NEW a \in Accepts, RegisterAccept(a) PROVE NoFaultUnlessRefused'
    BY <1>1, <1>2 DEF RegisterAccept, T!Register
  <1>3. ASSUME NEW a \in Accepts, PassAccept(a) PROVE NoFaultUnlessRefused'
    BY <1>1, <1>3 DEF PassAccept
  <1>4. ASSUME NEW a \in Accepts, DriverAccept(a) PROVE NoFaultUnlessRefused'
    BY <1>1, <1>4 DEF DriverAccept
  <1>5. ASSUME NEW a \in Accepts, RegisterReturns(a) PROVE NoFaultUnlessRefused'
    BY <1>1, <1>5, LastOwner DEF RegisterReturns, Release, DecOp, DecServer, Insist,
       TimerLink, Stages, OpRefs, Live, Users, One, Protocol
  <1>6. ASSUME NEW a \in Accepts, RegisterFails(a) PROVE NoFaultUnlessRefused'
    BY <1>1, <1>6 DEF RegisterFails, T!Withdraw, DecOp, DecServer, Insist
  <1>7. ASSUME NEW a \in Accepts, CallerFrees(a) PROVE NoFaultUnlessRefused'
    BY <1>1, <1>7 DEF CallerFrees
  <1>8. ASSUME NEW a \in Accepts, FinishedAccept(a) PROVE NoFaultUnlessRefused'
    BY <1>1, <1>8 DEF FinishedAccept
  <1>9. ASSUME NEW a \in Accepts, AcceptCallback(a) PROVE NoFaultUnlessRefused'
    BY <1>1, <1>9 DEF AcceptCallback, T!Withdraw, Insist, TimerLink, Stages, OpRefs, Live,
       Users, One, Protocol, Pre
  <1>10. ASSUME NEW a \in Accepts, AcceptKickout(a) PROVE NoFaultUnlessRefused'
    BY <1>1, <1>10 DEF AcceptKickout
  <1>11. ASSUME NEW a \in Accepts, CallbackReturns(a) PROVE NoFaultUnlessRefused'
    BY <1>1, <1>11, LastOwner, PostStateIs DEF CallbackReturns, PostAccept, PostState,
       Release, DecOp, DecServer, Insist, LastDropIn, Stages, OpRefs, Live
  <1>12. ASSUME NEW a \in Accepts, WillBlock(a) PROVE NoFaultUnlessRefused'
    BY <1>1, <1>12 DEF WillBlock, PostAccept, PostState, Insist, Stages
  <1>13. ASSUME NEW a \in Accepts, BlockedReturns(a) PROVE NoFaultUnlessRefused'
    BY <1>1, <1>13, LastOwner DEF BlockedReturns, Release, DecOp, DecServer, Insist,
       LastDropIn, Stages, Live
  <1>14. ASSUME NEW a \in Accepts, TimerFires(a) PROVE NoFaultUnlessRefused'
    BY <1>1, <1>14 DEF TimerFires, T!Fire
  <1>15. ASSUME NEW a \in Accepts, TimeoutTooLate(a) PROVE NoFaultUnlessRefused'
    BY <1>1, <1>15, LastOwner DEF TimeoutTooLate, InPoller, T!Accept, Release, DecOp, DecServer,
       Insist, LastDropIn, TimerLink, Stages, OpRefs, Live, Users, One
  <1>16. ASSUME NEW a \in Accepts, TimeoutFreed(a) PROVE NoFaultUnlessRefused'
    BY <1>1, <1>16 DEF TimeoutFreed, TimerLink, OpRefs, Users, One
  <1>17. ASSUME NEW a \in Accepts, TimeoutAsks(a) PROVE NoFaultUnlessRefused'
    BY <1>1, <1>17 DEF TimeoutAsks, InPoller
  <1>18. ASSUME NEW a \in Accepts, TimeoutBlocked(a) PROVE NoFaultUnlessRefused'
    BY <1>1, <1>18 DEF TimeoutBlocked, InPoller, T!Retry
  <1>19. ASSUME NEW a \in Accepts, NEW cancel \in BOOLEAN, TimeoutAnswered(a, cancel)
        PROVE NoFaultUnlessRefused'
    <2>1. oref[a] > 1
      BY <1>1, <1>19 DEF TimeoutAnswered, TimerLink, Stages, OpRefs, Live, Users, One
    <2>2. ~fault'
      BY <1>1, <1>19, <2>1 DEF TimeoutAnswered, Insist
    <2> QED
      BY <2>2
  <1>20. CASE CancelAccept
    BY <1>1, <1>20 DEF CancelAccept, Cancelled, Insist, Stages, OpRefs, Users, One,
       Protocol, Pre
  <1>21. CASE ServerClose
    <2>1. sop # None /\ ost[sop] = "FREED" => Failed(sop)
      BY <1>1, <1>21 DEF ServerClose, Stages, OpRefs, Users, One, Protocol, Pre
    <2>2. fault' => sop # None /\ ost[sop] = "FREED"
      BY <1>1, <1>21 DEF ServerClose, Insist
    <2> QED
      BY <1>1, <1>21, <2>1, <2>2 DEF ServerClose
  <1>22. CASE CloseKickout
    BY <1>1, <1>22 DEF CloseKickout
  <1>23. CASE CloseReturns
    BY <1>1, <1>23 DEF CloseReturns, DecServer
  <1>24. ASSUME NEW a \in Accepts, PutBack(a) PROVE NoFaultUnlessRefused'
    BY <1>1, <1>24 DEF PutBack, T!Retry
  <1> QED
    BY <1>1, <1>2, <1>3, <1>4, <1>5, <1>6, <1>7, <1>8, <1>9, <1>10, <1>11, <1>12,
       <1>13, <1>14, <1>15, <1>16, <1>17, <1>18, <1>19, <1>20, <1>21, <1>22, <1>23, <1>24
       DEF Next, Carry, Callback, Poller, Close

\* No assertion of globus_xio_server.c fails and no freed operation is used by a server
\* whose user does not close it inside register_accept, unless an accept was refused.
THEOREM OnlyRefusalFaults == Spec => [](~conf.eager => NoFaultUnlessRefused)
  <1> DEFINE P == ~conf.eager => NoFaultUnlessRefused
  <1>1. Init => P
    BY DEF Init, NoFaultUnlessRefused
  <1>2. ServerInv /\ P /\ [Next]_vars => P'
    <2> SUFFICES ASSUME ServerInv, P, [Next]_vars PROVE P'
      OBVIOUS
    <2>1. conf' = conf
      BY ConfFixed
    <2>2. CASE UNCHANGED vars
      BY <2>2 DEF vars, NoFaultUnlessRefused, Failed
    <2>3. CASE Next
      BY <2>1, <2>3, FaultStep
    <2> QED
      BY <2>2, <2>3
  <1> QED
    BY Invariance, <1>1, <1>2, PTL DEF Spec
=============================================================================
