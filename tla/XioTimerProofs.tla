--------------------------- MODULE XioTimerProofs ---------------------------
(***************************************************************************)
(* Proofs about the XIO timer, for every set of operations and pollers.    *)
(* TimerInv is inductive; the invariants of XioTimer follow from it, and   *)
(* the refinement of TimerService rests on it.                             *)
(***************************************************************************)
EXTENDS XioTimer, TLAPS

\* A poller that is not inside a callback has no current entry, and it has a
\* call_list only between its examination and its return.
PollerState ==
    \A p \in Poller :
       /\ pc[p] \in {"cb", "reinsert"} <=> cur[p] # NoOp
       /\ pc[p] \in {"idle", "scan"} => callList[p] = {}

\* While destroy waits, the periodic is not queued; its unregister callback is
\* started when the last poller returns, and only that callback ends the wait.
DestroyProtocol ==
    /\ phase = "active" <=> unreg = "none"
    /\ phase # "active" => ~inQueue
    /\ unreg = "set" => ~isPeriodic /\ Running
    /\ unreg \in {"kicked", "called"} => ~Running
    /\ phase = "waiting" /\ unreg # "called" => running
    /\ phase = "destroyed" => unreg = "called"

TimerInv ==
    TypeOK /\ PollerState /\ EntryOwnership /\ OneUnblockedPoller /\ DestroyProtocol

-----------------------------------------------------------------------------
\* A time that starts at zero is within its bound.
LEMMA ZeroInPeriod == 0 \in 0..Period
  BY PeriodAssumption

\* The timer starts empty, with the periodic paused: TimerInv holds.
LEMMA InitInv == Init => TimerInv
  <1> SUFFICES ASSUME Init PROVE TimerInv
    OBVIOUS
  <1>1. TypeOK
    BY ZeroInPeriod DEF Init, TypeOK, Pc
  <1>2. PollerState /\ EntryOwnership /\ OneUnblockedPoller /\ DestroyProtocol
    BY OpAssumption DEF Init, PollerState, EntryOwnership, OneUnblockedPoller,
       DestroyProtocol, InHand, Running
  <1> QED
    BY <1>1, <1>2 DEF TimerInv

\* An entry that is set up or freed has well-typed times.
LEMMA ClearEntryTypes ==
  ASSUME TypeOK, NEW d \in Op, ClearEntry(d)
  PROVE  left' \in [Op -> 0..Period] /\ idle' \in [Op -> 0..Period]
         /\ lag' \in [Op -> 0..Period]
  BY ZeroInPeriod DEF ClearEntry, TypeOK

\* Every step keeps the types of the timer's state.
LEMMA TypeStep == TypeOK /\ PollerState /\ [Next]_vars => TypeOK'
  <1> SUFFICES ASSUME TypeOK, PollerState, [Next]_vars PROVE TypeOK'
    OBVIOUS
  <1> USE OpAssumption, CbAssumption, ZeroInPeriod DEF TypeOK, Pc
  <1>1. CASE UNCHANGED vars
    BY <1>1 DEF vars
  <1>2. ASSUME NEW d \in Op, Register(d) PROVE TypeOK'
    <2>1. left' \in [Op -> 0..Period] /\ idle' \in [Op -> 0..Period]
          /\ lag' \in [Op -> 0..Period]
      BY <1>2, ClearEntryTypes DEF Register, ArmEntry, NewDeadline
    <2>2. sawDue' \in [Poller -> SUBSET Op]
      BY <1>2 DEF Register, ArmEntry, NewDeadline
    <2> QED
      BY <1>2, <2>1, <2>2 DEF Register, ArmEntry, Resume, Running, periodic
  <1>3. ASSUME NEW d \in Op, Unregister(d) PROVE TypeOK'
    BY <1>3 DEF Unregister, ClearEntry, Pause, periodic, poller
  <1>4. ASSUME NEW d \in Op, Progress(d) PROVE TypeOK'
    BY <1>4 DEF Progress, timer, periodic, poller
  <1>5. CASE Tick
    BY <1>5, PeriodAssumption DEF Tick, Later, timer, periodic
  <1>6. ASSUME NEW p \in Poller, PollStart(p) PROVE TypeOK'
    BY <1>6 DEF PollStart, timer, history
  <1>7. ASSUME NEW p \in Poller, PollScan(p) PROVE TypeOK'
    BY <1>7, PeriodAssumption DEF PollScan, periodic
  <1>8. ASSUME NEW p \in Poller, CallTimerCb(p) PROVE TypeOK'
    BY <1>8 DEF CallTimerCb, timer, periodic, history
  <1>9. ASSUME NEW p \in Poller, NEW r \in CbResults, TimerCbReturns(p, r)
        PROVE TypeOK'
    <2>1. CASE r
      <3>1. cur[p] \in Op
        BY <1>9 DEF TimerCbReturns, PollerState
      <3>2. left' \in [Op -> 0..Period] /\ idle' \in [Op -> 0..Period]
            /\ lag' \in [Op -> 0..Period]
        BY <1>9, <2>1, <3>1, ClearEntryTypes DEF TimerCbReturns
      <3> QED
        BY <1>9, <2>1, <3>1, <3>2 DEF TimerCbReturns, timer, periodic
    <2>2. CASE ~r
      BY <1>9, <2>2 DEF TimerCbReturns, timer, periodic, history
    <2> QED
      BY <2>1, <2>2
  <1>10. ASSUME NEW p \in Poller, Reinsert(p) PROVE TypeOK'
    BY <1>10 DEF Reinsert, periodic, history, PollerState
  <1>11. ASSUME NEW p \in Poller, PollFinish(p) PROVE TypeOK'
    BY <1>11 DEF PollFinish, FinishCallback, timer, history
  <1>12. ASSUME NEW p \in Poller, BlockedCb(p) PROVE TypeOK'
    BY <1>12 DEF BlockedCb, timer, poller, history
  <1>13. CASE DestroyBegin
    BY <1>13 DEF DestroyBegin, UnregisterPeriodic, Running, poller, history
  <1>14. CASE UnregisterCb
    BY <1>14 DEF UnregisterCb, poller, history
  <1>15. CASE DestroyEnd
    BY <1>15 DEF DestroyEnd, timer, periodic, poller, history
  <1> QED
    BY <1>1, <1>2, <1>3, <1>4, <1>5, <1>6, <1>7, <1>8, <1>9, <1>10, <1>11, <1>12,
       <1>13, <1>14, <1>15 DEF Next, Client, Poll, Destroy


\* Every step keeps a poller's local state consistent with its place in the loop.
LEMMA PollerStateStep == TypeOK /\ PollerState /\ [Next]_vars => PollerState'
  <1> SUFFICES ASSUME TypeOK, PollerState, [Next]_vars PROVE PollerState'
    OBVIOUS
  <1> USE OpAssumption, CbAssumption, ZeroInPeriod DEF TypeOK, PollerState, Pc
  <1>1. CASE UNCHANGED vars
    BY <1>1 DEF vars
  <1>2. ASSUME NEW d \in Op, Register(d) PROVE PollerState'
    BY <1>2 DEF Register, ArmEntry, NewDeadline, ClearEntry, Resume, Running, periodic
  <1>3. ASSUME NEW d \in Op, Unregister(d) PROVE PollerState'
    BY <1>3 DEF Unregister, ClearEntry, Pause, periodic, poller
  <1>4. ASSUME NEW d \in Op, Progress(d) PROVE PollerState'
    BY <1>4 DEF Progress, timer, periodic, poller
  <1>5. CASE Tick
    BY <1>5 DEF Tick, Later, timer, periodic
  <1>6. ASSUME NEW p \in Poller, PollStart(p) PROVE PollerState'
    BY <1>6 DEF PollStart, timer
  <1>7. ASSUME NEW p \in Poller, PollScan(p) PROVE PollerState'
    BY <1>7 DEF PollScan, periodic
  <1>8. ASSUME NEW p \in Poller, CallTimerCb(p) PROVE PollerState'
    BY <1>8 DEF CallTimerCb, timer, periodic
  <1>9. ASSUME NEW p \in Poller, NEW r \in CbResults, TimerCbReturns(p, r) PROVE PollerState'
    BY <1>9 DEF TimerCbReturns, ClearEntry, timer, periodic, history
  <1>10. ASSUME NEW p \in Poller, Reinsert(p) PROVE PollerState'
    BY <1>10 DEF Reinsert, periodic
  <1>11. ASSUME NEW p \in Poller, PollFinish(p) PROVE PollerState'
    BY <1>11 DEF PollFinish, FinishCallback, timer
  <1>12. ASSUME NEW p \in Poller, BlockedCb(p) PROVE PollerState'
    BY <1>12 DEF BlockedCb, timer, poller
  <1>13. CASE DestroyBegin
    BY <1>13 DEF DestroyBegin, UnregisterPeriodic, Running, poller
  <1>14. CASE UnregisterCb
    BY <1>14 DEF UnregisterCb, poller
  <1>15. CASE DestroyEnd
    BY <1>15 DEF DestroyEnd, timer, periodic, poller
  <1> QED
    BY <1>1, <1>2, <1>3, <1>4, <1>5, <1>6, <1>7, <1>8, <1>9, <1>10, <1>11,
       <1>12, <1>13, <1>14, <1>15
       DEF Next, Client, Poll, Destroy

\* Every step keeps each entry in one place.
LEMMA OwnershipStep == TypeOK /\ PollerState /\ EntryOwnership /\ [Next]_vars => EntryOwnership'
  <1> SUFFICES ASSUME TypeOK, PollerState, EntryOwnership, [Next]_vars PROVE EntryOwnership'
    OBVIOUS
  <1> USE OpAssumption, CbAssumption, ZeroInPeriod DEF TypeOK, PollerState, EntryOwnership, InHand
  <1>1. CASE UNCHANGED vars
    BY <1>1 DEF vars
  <1>2. ASSUME NEW d \in Op, Register(d) PROVE EntryOwnership'
    BY <1>2 DEF Register, ArmEntry, NewDeadline, ClearEntry, Resume, Running, periodic
  <1>3. ASSUME NEW d \in Op, Unregister(d) PROVE EntryOwnership'
    BY <1>3 DEF Unregister, ClearEntry, Pause, periodic, poller
  <1>4. ASSUME NEW d \in Op, Progress(d) PROVE EntryOwnership'
    BY <1>4 DEF Progress, timer, periodic, poller
  <1>5. CASE Tick
    BY <1>5 DEF Tick, Later, timer, periodic
  <1>6. ASSUME NEW p \in Poller, PollStart(p) PROVE EntryOwnership'
    BY <1>6 DEF PollStart, timer
  <1>7. ASSUME NEW p \in Poller, PollScan(p) PROVE EntryOwnership'
    BY <1>7 DEF PollScan, periodic
  <1>8. ASSUME NEW p \in Poller, CallTimerCb(p) PROVE EntryOwnership'
    BY <1>8 DEF CallTimerCb, timer, periodic
  <1>9. ASSUME NEW p \in Poller, NEW r \in CbResults, TimerCbReturns(p, r) PROVE EntryOwnership'
    BY <1>9 DEF TimerCbReturns, timer
  <1>10. ASSUME NEW p \in Poller, Reinsert(p) PROVE EntryOwnership'
    BY <1>10 DEF Reinsert, periodic
  <1>11. ASSUME NEW p \in Poller, PollFinish(p) PROVE EntryOwnership'
    BY <1>11 DEF PollFinish, FinishCallback, timer
  <1>12. ASSUME NEW p \in Poller, BlockedCb(p) PROVE EntryOwnership'
    BY <1>12 DEF BlockedCb, timer, poller
  <1>13. CASE DestroyBegin
    BY <1>13 DEF DestroyBegin, UnregisterPeriodic, Running, poller
  <1>14. CASE UnregisterCb
    BY <1>14 DEF UnregisterCb, poller
  <1>15. CASE DestroyEnd
    BY <1>15 DEF DestroyEnd, timer, periodic, poller
  <1> QED
    BY <1>1, <1>2, <1>3, <1>4, <1>5, <1>6, <1>7, <1>8, <1>9, <1>10, <1>11,
       <1>12, <1>13, <1>14, <1>15
       DEF Next, Client, Poll, Destroy

\* Every step keeps at most one poller that was not restarted.
LEMMA OnePollerStep == TypeOK /\ OneUnblockedPoller /\ [Next]_vars => OneUnblockedPoller'
  <1> SUFFICES ASSUME TypeOK, OneUnblockedPoller, [Next]_vars PROVE OneUnblockedPoller'
    OBVIOUS
  <1> USE OpAssumption, CbAssumption, ZeroInPeriod DEF TypeOK, OneUnblockedPoller, Running
  <1>1. CASE UNCHANGED vars
    BY <1>1 DEF vars
  <1>2. ASSUME NEW d \in Op, Register(d) PROVE OneUnblockedPoller'
    BY <1>2 DEF Register, ArmEntry, NewDeadline, ClearEntry, Resume, periodic
  <1>3. ASSUME NEW d \in Op, Unregister(d) PROVE OneUnblockedPoller'
    BY <1>3 DEF Unregister, ClearEntry, Pause, periodic, poller
  <1>4. ASSUME NEW d \in Op, Progress(d) PROVE OneUnblockedPoller'
    BY <1>4 DEF Progress, timer, periodic, poller
  <1>5. CASE Tick
    BY <1>5 DEF Tick, Later, timer, periodic
  <1>6. ASSUME NEW p \in Poller, PollStart(p) PROVE OneUnblockedPoller'
    BY <1>6 DEF PollStart, timer
  <1>7. ASSUME NEW p \in Poller, PollScan(p) PROVE OneUnblockedPoller'
    BY <1>7 DEF PollScan, periodic
  <1>8. ASSUME NEW p \in Poller, CallTimerCb(p) PROVE OneUnblockedPoller'
    BY <1>8 DEF CallTimerCb, timer, periodic
  <1>9. ASSUME NEW p \in Poller, NEW r \in CbResults, TimerCbReturns(p, r) PROVE OneUnblockedPoller'
    BY <1>9 DEF TimerCbReturns, ClearEntry, timer, periodic, history
  <1>10. ASSUME NEW p \in Poller, Reinsert(p) PROVE OneUnblockedPoller'
    BY <1>10 DEF Reinsert, periodic
  <1>11. ASSUME NEW p \in Poller, PollFinish(p) PROVE OneUnblockedPoller'
    BY <1>11 DEF PollFinish, FinishCallback, timer
  <1>12. ASSUME NEW p \in Poller, BlockedCb(p) PROVE OneUnblockedPoller'
    BY <1>12 DEF BlockedCb, timer, poller
  <1>13. CASE DestroyBegin
    BY <1>13 DEF DestroyBegin, UnregisterPeriodic, poller
  <1>14. CASE UnregisterCb
    BY <1>14 DEF UnregisterCb, poller
  <1>15. CASE DestroyEnd
    BY <1>15 DEF DestroyEnd, timer, periodic, poller
  <1> QED
    BY <1>1, <1>2, <1>3, <1>4, <1>5, <1>6, <1>7, <1>8, <1>9, <1>10, <1>11,
       <1>12, <1>13, <1>14, <1>15
       DEF Next, Client, Poll, Destroy

\* Every step follows the protocol of destroy and the unregister callback.
LEMMA DestroyStep == TypeOK /\ PollerState /\ DestroyProtocol /\ [Next]_vars => DestroyProtocol'
  <1> SUFFICES ASSUME TypeOK, PollerState, DestroyProtocol, [Next]_vars PROVE DestroyProtocol'
    OBVIOUS
  <1> USE OpAssumption, CbAssumption, ZeroInPeriod DEF TypeOK, PollerState, DestroyProtocol, Running
  <1>1. CASE UNCHANGED vars
    BY <1>1 DEF vars
  <1>2. ASSUME NEW d \in Op, Register(d) PROVE DestroyProtocol'
    BY <1>2 DEF Register, ArmEntry, NewDeadline, ClearEntry, Resume, periodic
  <1>3. ASSUME NEW d \in Op, Unregister(d) PROVE DestroyProtocol'
    BY <1>3 DEF Unregister, ClearEntry, Pause, periodic, poller
  <1>4. ASSUME NEW d \in Op, Progress(d) PROVE DestroyProtocol'
    BY <1>4 DEF Progress, timer, periodic, poller
  <1>5. CASE Tick
    BY <1>5 DEF Tick, Later, timer, periodic
  <1>6. ASSUME NEW p \in Poller, PollStart(p) PROVE DestroyProtocol'
    BY <1>6 DEF PollStart, timer
  <1>7. ASSUME NEW p \in Poller, PollScan(p) PROVE DestroyProtocol'
    BY <1>7 DEF PollScan, periodic
  <1>8. ASSUME NEW p \in Poller, CallTimerCb(p) PROVE DestroyProtocol'
    BY <1>8 DEF CallTimerCb, timer, periodic
  <1>9. ASSUME NEW p \in Poller, NEW r \in CbResults, TimerCbReturns(p, r) PROVE DestroyProtocol'
    BY <1>9 DEF TimerCbReturns, ClearEntry, timer, periodic, history
  <1>10. ASSUME NEW p \in Poller, Reinsert(p) PROVE DestroyProtocol'
    BY <1>10 DEF Reinsert, periodic
  <1>11. ASSUME NEW p \in Poller, PollFinish(p) PROVE DestroyProtocol'
    BY <1>11 DEF PollFinish, FinishCallback, timer
  <1>12. ASSUME NEW p \in Poller, BlockedCb(p) PROVE DestroyProtocol'
    BY <1>12 DEF BlockedCb, timer, poller
  <1>13. CASE DestroyBegin
    BY <1>13 DEF DestroyBegin, UnregisterPeriodic, poller
  <1>14. CASE UnregisterCb
    BY <1>14 DEF UnregisterCb, poller
  <1>15. CASE DestroyEnd
    BY <1>15 DEF DestroyEnd, timer, periodic, poller
  <1> QED
    BY <1>1, <1>2, <1>3, <1>4, <1>5, <1>6, <1>7, <1>8, <1>9, <1>10, <1>11,
       <1>12, <1>13, <1>14, <1>15
       DEF Next, Client, Poll, Destroy
-----------------------------------------------------------------------------
\* TimerInv is an invariant of the timer, whatever the clients do.
THEOREM Invariance == Spec => []TimerInv
  <1>1. TimerInv /\ [Next]_vars => TimerInv'
    BY TypeStep, PollerStateStep, OwnershipStep, OnePollerStep, DestroyStep
       DEF TimerInv
  <1> QED
    BY <1>1, InitInv, PTL DEF Spec

\* The variables of the timer keep their types.
THEOREM TypeCorrect == Spec => []TypeOK
  BY Invariance, PTL DEF TimerInv

\* A reference the timer holds on an operation is released exactly once: by
\* the client whose unregister_timeout found the entry, or by the callback of
\* the one poller that has it.
THEOREM Ownership == Spec => []EntryOwnership
  BY Invariance, PTL DEF TimerInv

\* Pollers overlap only when a callback of the earlier ones has blocked.
THEOREM OnePoller == Spec => []OneUnblockedPoller
  BY Invariance, PTL DEF TimerInv

\* globus_i_xio_timer_destroy returns only when no poller runs or can start.
THEOREM DestroyQuiescent == Spec => []DestroyedIsQuiescent
  <1>1. TimerInv => DestroyedIsQuiescent
    BY DEF TimerInv, DestroyProtocol, DestroyedIsQuiescent
  <1> QED
    BY <1>1, Invariance, PTL

-----------------------------------------------------------------------------
(* The refinement of TimerService. *)

\* The status of an entry as the references tell it: with one owner per entry,
\* a reference whose entry is not in op_list is with a poller.
HeldStatus ==
    [d \in Op |-> IF d \in opList THEN "registered"
                  ELSE IF held[d] THEN "firing" ELSE "none"]

\* Where an entry is and who holds a reference are the same question, before a
\* step and after it.
LEMMA StatusIsHeld ==
  ASSUME EntryOwnership, EntryOwnership'
  PROVE  TimerStatus = HeldStatus /\ TimerStatus' = HeldStatus'
  BY DEF EntryOwnership, TimerStatus, HeldStatus

\* A step that moves no entry in or out of op_list and releases no reference is
\* a stutter of the service.
LEMMA StatusStutter ==
  ASSUME TimerStatus = HeldStatus, TimerStatus' = HeldStatus',
         UNCHANGED <<opList, held>>
  PROVE  UNCHANGED Service!vars
  BY DEF Service!vars, HeldStatus

\* Every step of the timer is a step of the service or a stutter.
LEMMA ServiceStep ==
  ASSUME TimerInv, TimerInv', [Next]_vars
  PROVE  [Service!Next]_(Service!vars)
  <1> USE DEF Service!Next
  <1>a. TimerStatus = HeldStatus /\ TimerStatus' = HeldStatus'
    BY StatusIsHeld DEF TimerInv
  <1>1. CASE UNCHANGED vars
    BY <1>1, <1>a, StatusStutter DEF vars
  <1>2. ASSUME NEW d \in Op, Register(d) PROVE Service!Register(d)
    BY <1>2, <1>a DEF Register, Service!Register, HeldStatus, TimerInv, TypeOK,
       EntryOwnership
  <1>3. ASSUME NEW d \in Op, Unregister(d) PROVE Service!Withdraw(d)
    BY <1>3, <1>a DEF Unregister, Service!Withdraw, HeldStatus, TimerInv, TypeOK,
       EntryOwnership
  <1>4. ASSUME NEW d \in Op, Progress(d) PROVE UNCHANGED Service!vars
    BY <1>4, <1>a, StatusStutter DEF Progress, timer
  <1>11. CASE Tick
    BY <1>11, <1>a, StatusStutter DEF Tick, timer
  <1>5. ASSUME NEW p \in Poller, PollStart(p) \/ CallTimerCb(p) \/ PollFinish(p)
        PROVE  UNCHANGED Service!vars
    BY <1>5, <1>a, StatusStutter DEF PollStart, CallTimerCb, PollFinish, timer
  <1>6. ASSUME NEW p \in Poller, PollScan(p)
        PROVE  \E S \in SUBSET Op : Service!Fire(S)
    <2> DEFINE S == opList \ opList'
    <2>1. S \in SUBSET Op
      BY DEF TimerInv, TypeOK
    <2>2. Service!Fire(S)
      BY <1>6, <1>a DEF PollScan, Service!Fire, HeldStatus, TimerInv, TypeOK,
         EntryOwnership
    <2> QED
      BY <2>1, <2>2
  <1>7. ASSUME NEW p \in Poller, NEW r \in CbResults, TimerCbReturns(p, r)
        PROVE  UNCHANGED Service!vars \/ \E d \in Op : Service!Accept(d)
    <2>1. CASE r
      <3>1. cur[p] \in Op /\ cur[p] \notin opList /\ held[cur[p]]
        BY <1>7 DEF TimerCbReturns, TimerInv, TypeOK, PollerState,
           EntryOwnership, InHand
      <3>2. held' = [held EXCEPT ![cur[p]] = FALSE] /\ opList' = opList
        BY <1>7, <2>1 DEF TimerCbReturns, timer
      <3>3. Service!Accept(cur[p])
        BY <1>a, <3>1, <3>2 DEF Service!Accept, HeldStatus, TimerInv, TypeOK,
           EntryOwnership
      <3> QED
        BY <3>1, <3>3
    <2>2. CASE ~r
      BY <1>7, <2>2, <1>a, StatusStutter DEF TimerCbReturns, timer
    <2> QED
      BY <2>1, <2>2
  <1>8. ASSUME NEW p \in Poller, Reinsert(p)
        PROVE  \E d \in Op : Service!Retry(d)
    <2>1. cur[p] \in Op /\ cur[p] \notin opList /\ held[cur[p]]
      BY <1>8 DEF Reinsert, TimerInv, TypeOK, PollerState, EntryOwnership,
         InHand
    <2>2. opList' = opList \cup {cur[p]} /\ held' = held
      BY <1>8 DEF Reinsert
    <2>3. Service!Retry(cur[p])
      BY <1>a, <2>1, <2>2 DEF Service!Retry, HeldStatus, TimerInv, TypeOK,
         EntryOwnership
    <2> QED
      BY <2>1, <2>3
  <1>9. ASSUME NEW p \in Poller, BlockedCb(p) PROVE UNCHANGED Service!vars
    BY <1>9, <1>a, StatusStutter DEF BlockedCb, timer
  <1>10. CASE Destroy
    BY <1>10, <1>a, StatusStutter DEF Destroy, DestroyBegin, UnregisterCb, DestroyEnd,
       timer
  <1> QED
    BY <1>1, <1>2, <1>3, <1>4, <1>5, <1>6, <1>7, <1>8, <1>9, <1>10, <1>11
       DEF Next, Client, Poll

\* The timer, with any number of pollers and a callback library that may run
\* them at the same time, keeps the promise its clients rely on.
THEOREM Refinement == Spec => ImplementsService
  <1>1. Init => Service!Init
    BY OpAssumption DEF Init, Service!Init, TimerStatus, InHand
  <1>2. TimerInv /\ TimerInv' /\ [Next]_vars => [Service!Next]_(Service!vars)
    BY ServiceStep
  <1> QED
    BY <1>1, <1>2, Invariance, PTL DEF Spec, Service!Spec, ImplementsService

-----------------------------------------------------------------------------
(* How early a timeout may be *)

\* Without progress since its last examination, an entry's silence, what is left of its
\* period and the delay of that examination make up a period; and a poller's reading of
\* the clock is not out of date for any entry it will examine.
PeriodSplit ==
    \A d \in Op : /\ held[d] /\ ~progress[d] => idle[d] + left[d] + lag[d] >= Period
                  /\ \A p \in Poller : d \in sawDue[p] => left[d] = 0

\* A step of time keeps that: what an entry loses of its period it gains in silence.
LEMMA PeriodTick == TypeOK /\ PeriodSplit /\ Tick => PeriodSplit'
  <1> SUFFICES ASSUME TypeOK, PeriodSplit, Tick, NEW d \in Op
               PROVE  /\ held'[d] /\ ~progress'[d] => idle'[d] + left'[d] + lag'[d] >= Period
                      /\ \A p \in Poller : d \in sawDue'[p] => left'[d] = 0
    BY DEF PeriodSplit
  <1>1. /\ held' = held /\ progress' = progress /\ lag' = lag /\ sawDue' = sawDue
        /\ left'[d] = IF held[d] /\ left[d] > 0 THEN left[d] - 1 ELSE left[d]
        /\ idle'[d] = IF held[d] THEN Later(idle[d]) ELSE idle[d]
    BY DEF Tick
  <1>2. left[d] \in 0..Period /\ idle[d] \in 0..Period /\ lag[d] \in 0..Period
    BY DEF TypeOK
  <1> QED
    BY <1>1, <1>2, PeriodAssumption DEF PeriodSplit, Later

\* An examination keeps that: the new deadline is a period after the clock was read.
LEMMA PeriodScan ==
  ASSUME TypeOK, PeriodSplit, NEW p \in Poller, PollScan(p)
  PROVE  PeriodSplit'
  <1> SUFFICES ASSUME NEW d \in Op
               PROVE  /\ held'[d] /\ ~progress'[d] => idle'[d] + left'[d] + lag'[d] >= Period
                      /\ \A q \in Poller : d \in sawDue'[q] => left'[d] = 0
    BY DEF PeriodSplit
  <1> DEFINE expired == opList \cap sawDue[p]
  <1>1. /\ held' = held /\ idle' = idle
        /\ left'[d] = IF d \in expired THEN Period - age[p] ELSE left[d]
        /\ lag'[d] = IF d \in expired THEN age[p] ELSE lag[d]
        /\ progress'[d] = (progress[d] /\ d \notin expired)
        /\ \A q \in Poller : sawDue'[q] = IF q = p THEN {} ELSE sawDue[q] \ expired
    BY DEF PollScan
  <1>2. /\ left[d] \in 0..Period /\ idle[d] \in 0..Period /\ lag[d] \in 0..Period
        /\ age[p] \in 0..Period /\ progress[d] \in BOOLEAN
    BY DEF TypeOK
  <1> HIDE DEF expired
  <1>3. CASE d \in expired
    <2>1. left'[d] = Period - age[p] /\ lag'[d] = age[p] /\ idle'[d] = idle[d]
      BY <1>1, <1>3
    <2>2. idle'[d] + left'[d] + lag'[d] >= Period
      BY <2>1, <1>2, PeriodAssumption
    <2>3. \A q \in Poller : d \notin sawDue'[q]
      BY <1>1, <1>3
    <2> QED
      BY <2>2, <2>3
  <1>4. CASE d \notin expired
    BY <1>1, <1>2, <1>4 DEF PeriodSplit
  <1> QED
    BY <1>3, <1>4

\* Every step keeps that.
LEMMA PeriodStep ==
  TypeOK /\ PollerState /\ EntryOwnership /\ PeriodSplit /\ [Next]_vars => PeriodSplit'
  <1> SUFFICES ASSUME TypeOK, PollerState, EntryOwnership, PeriodSplit, [Next]_vars
               PROVE  PeriodSplit'
    OBVIOUS
  <1>1. CASE UNCHANGED <<left, progress, idle, lag, sawDue, held>>
    BY <1>1 DEF PeriodSplit
  <1>2. ASSUME NEW d \in Op, Register(d) PROVE PeriodSplit'
    BY <1>2 DEF Register, ArmEntry, NewDeadline, ClearEntry, TypeOK, PeriodSplit
  <1>3. ASSUME NEW d \in Op, Unregister(d) PROVE PeriodSplit'
    BY <1>3 DEF Unregister, ClearEntry, poller, TypeOK, PeriodSplit
  <1>4. ASSUME NEW d \in Op, Progress(d) PROVE PeriodSplit'
    BY <1>4 DEF Progress, poller, TypeOK, PeriodSplit
  <1>5. ASSUME NEW p \in Poller, PollStart(p) PROVE PeriodSplit'
    BY <1>5 DEF PollStart, history, TypeOK, PeriodSplit
  <1>6. ASSUME NEW p \in Poller, NEW result \in CbResults, TimerCbReturns(p, result)
        PROVE  PeriodSplit'
    <2>1. CASE result
      <3>1. cur[p] \in Op
        BY <1>6 DEF TimerCbReturns, PollerState, TypeOK
      <3> QED
        BY <1>6, <2>1, <3>1 DEF TimerCbReturns, ClearEntry, timer, TypeOK, PeriodSplit
    <2>2. CASE ~result
      BY <1>6, <2>2, <1>1 DEF TimerCbReturns, history
    <2> QED
      BY <2>1, <2>2
  <1>7. ASSUME NEW p \in Poller,
               CallTimerCb(p) \/ Reinsert(p) \/ PollFinish(p) \/ BlockedCb(p)
        PROVE  PeriodSplit'
    BY <1>1, <1>7 DEF CallTimerCb, Reinsert, PollFinish, BlockedCb, poller, history
  <1>8. CASE Destroy
    BY <1>1, <1>8 DEF Destroy, DestroyBegin, UnregisterCb, DestroyEnd, poller, history
  <1>9. CASE UNCHANGED vars
    BY <1>1, <1>9 DEF vars
  <1> QED
    BY <1>2, <1>3, <1>4, <1>5, <1>6, <1>7, <1>8, <1>9, PeriodTick, PeriodScan
       DEF Next, Client, Poll

\* What a step that takes an entry off op_list for a callback may do.
LEMMA TakenByScan ==
  ASSUME TypeOK, PollerState, EntryOwnership, PeriodSplit, [Next]_vars, NEW d \in Op, Taken(d)
  PROVE  idle[d] + lag[d] >= Period
  <1> USE DEF TypeOK, Taken
  <1>1. ASSUME NEW p \in Poller, PollScan(p) PROVE idle[d] + lag[d] >= Period
    <2>1. d \in sawDue[p] /\ ~progress[d]
      BY <1>1 DEF PollScan
    <2>2. held[d]
      BY DEF EntryOwnership
    <2>3. left[d] = 0 /\ idle[d] + left[d] + lag[d] >= Period
      BY <2>1, <2>2 DEF PeriodSplit
    <2> QED
      BY <2>3
  <1>2. ASSUME NEW e \in Op, Unregister(e) PROVE FALSE
    BY <1>2 DEF Unregister
  <1>3. ASSUME NEW e \in Op, Register(e) \/ Progress(e) \/ Tick PROVE FALSE
    BY <1>3 DEF Register, Progress, Tick, timer
  <1>4. ASSUME NEW p \in Poller,
               \/ PollStart(p) \/ CallTimerCb(p) \/ Reinsert(p) \/ PollFinish(p)
               \/ BlockedCb(p) \/ \E result \in CbResults : TimerCbReturns(p, result)
        PROVE  FALSE
    BY <1>4 DEF PollStart, CallTimerCb, Reinsert, PollFinish, BlockedCb, TimerCbReturns, timer
  <1>5. CASE Destroy \/ UNCHANGED vars
    BY <1>5 DEF Destroy, DestroyBegin, UnregisterCb, DestroyEnd, timer, vars
  <1> QED
    BY <1>1, <1>2, <1>3, <1>4, <1>5 DEF Next, Client, Poll

\* A timeout comes early by no more than the delay between the clock reading and the scan
\* of the poller that set its deadline, for every period and any number of pollers.
THEOREM EarlyByLag == Spec => TimeoutEarlyByLag
  <1>1. Init => PeriodSplit
    BY DEF Init, PeriodSplit
  <1>2. TimerInv /\ PeriodSplit /\ [Next]_vars =>
          [\A d \in Op : Taken(d) => idle[d] + lag[d] >= Period]_vars
    BY TakenByScan DEF TimerInv
  <1>3. TimerInv /\ PeriodSplit /\ [Next]_vars => PeriodSplit'
    BY PeriodStep DEF TimerInv
  <1> QED
    BY <1>1, <1>2, <1>3, Invariance, PTL DEF Spec, TimeoutEarlyByLag
=============================================================================
