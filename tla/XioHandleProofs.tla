-------------------------- MODULE XioHandleProofs ---------------------------
(***************************************************************************)
(* Theorems about XioHandle, for any number of data operations and for     *)
(* every way of using the handle in which no assertion fails (Safe).       *)
(***************************************************************************)
EXTENDS XioHandle, FiniteSetTheorems, TLAPS

\* The ways of using a handle that are safe.  TLC finds a fault in every other one: an
\* open whose pass fails, an operation that has a timeout and whose pass fails, a read or
\* write whose pass fails while a hasty user closes, and an eager user together with a
\* timeout of the open or with callbacks that block.
Safe ==
    /\ "open" \notin conf.fails
    /\ conf.timed \cap conf.fails = {}
    /\ "data" \in conf.fails => ~conf.hasty
    /\ conf.eager => "open" \notin conf.timed /\ ~conf.blocks

Below == {"driver", "fired"}
Before == {"deferred", "toPass", "cached", "starting", "driver", "fired"}
Counted == {"driver", "fired", "callback", "closing", "deliver"}
Operating == {"OPERATING", "TIMEOUT_PENDING"}
Over == {"FINISHED", "FREED"}
Opening == {"CLIENT", "OPENING", "OPENING_FAILED", "OPEN_FAILED"}

-----------------------------------------------------------------------------
(* The invariant *)

\* Where an operation is and what its state says.
Places(o) ==
    /\ ost[o] = "NONE" <=> at[o] = "new"
    /\ ost[o] \in Operating <=> at[o] \in Before \/ (at[o] = "failed" /\ reg[o] = "failed")
    /\ ost[o] = "FINISH_WAITING" => at[o] \in {"unopened", "callback", "deliver", "done"}
    /\ ost[o] = "FINISHED" => at[o] \in {"closing", "deliver", "done"}
    /\ ost[o] = "FREED" => at[o] \in {"done", "failed"}
    /\ at[o] \in {"unopened", "callback"} => ost[o] = "FINISH_WAITING"
    /\ at[o] = "closing" => ost[o] = "FINISHED"
    /\ o # CloseOp => at[o] \in {"new", "done", "failed"} \cup Counted
    /\ o # OpenOp => at[o] # "closing"
    /\ o = CloseOp => at[o] # "deliver"
    /\ at[o] = "failed" => Kind(o) \in conf.fails

\* The registering thread, the timer and the early delivery.
Threads(o) ==
    /\ at[o] \in {"new", "unopened", "deferred", "toPass"} => reg[o] = "none" /\ timer[o] = "none"
    /\ ost[o] = "FREED" => reg[o] = "none" /\ timer[o] = "none"
    /\ timer[o] # "none" => Timed(o)
    /\ at[o] = "failed" => reg[o] \in {"failed", "none"}
    /\ reg[o] = "failed" => at[o] = "failed"
    /\ early[o] => at[o] \in {"callback", "closing", "deliver"} /\ conf.blocks /\ o # CloseOp
    /\ late[o] => Timed(o)

\* The user is asked, or called by the poller, or called by the kickout: once.
Called(o) ==
    /\ asking[o] => timer[o] = "firing" /\ ost[o] \in {"TIMEOUT_PENDING", "FINISH_WAITING"}
    /\ ost[o] = "TIMEOUT_PENDING" => asking[o]
    /\ asking[o] /\ ost[o] = "FINISH_WAITING" => at[o] \in {"deliver", "done"}
    /\ late[o] => /\ ost[o] = "FINISH_WAITING" /\ at[o] \in {"deliver", "done"}
                  /\ timer[o] = "none"
    /\ ost[o] = "FINISH_WAITING" /\ at[o] \in {"deliver", "done"} => asking[o] \/ late[o]
    /\ calls[o] = One(/\ ost[o] \in {"FINISH_WAITING", "FINISHED", "FREED"}
                      /\ at[o] \notin {"unopened", "failed"} /\ ~asking[o])

\* op->ref
Refs(o) == oref[o] = Holders(o) /\ (Live(o) => oref[o] > 0)

Idle == \A o \in Data : at[o] = "new"

\* handle->state, and where open and close are.
Lifecycle ==
    /\ hstate = "CLIENT" => at[OpenOp] = "new"
    /\ hstate = "OPENING" => openOp /\ at[OpenOp] \in Below
    /\ at[OpenOp] \in Below => hstate \in {"OPENING", "OPENING_AND_CLOSING"}
    /\ hstate = "OPENING_FAILED" => ost[OpenOp] = "FINISH_WAITING" /\ ~openOk
    /\ hstate = "OPEN_FAILED" => ost[OpenOp] \in Over /\ ~openOk
    /\ openOp => ost[OpenOp] \in Operating \cup {"FINISH_WAITING"}
    /\ hstate \in Opening \cup {"OPEN"} => at[CloseOp] = "new"
    /\ hstate = "OPENING_AND_CLOSING" <=> at[CloseOp] \in {"unopened", "deferred"}
    /\ hstate = "CLOSED" => ost[CloseOp] \in {"NONE"} \cup Over
    /\ closeOp /\ hstate # "CLOSED" => ost[CloseOp] \in Operating \cup {"FINISH_WAITING"}
    /\ ost[CloseOp] = "FINISHED" => hstate = "CLOSED"

\* A close that waits for the open, or that finds nothing to close.
Waiting ==
    /\ deferred => /\ conf.eager /\ at[CloseOp] # "new"
                   /\ reg[CloseOp] \notin {"inPass", "failed"}
    /\ at[CloseOp] = "toPass" => deferred \/ openOk
    /\ at[CloseOp] = "deferred" => /\ deferred /\ closeOp
                                   /\ at[OpenOp] \in Below \cup {"callback"}
    /\ at[OpenOp] = "closing" <=> deferred /\ at[CloseOp] = "toPass"
    /\ at[CloseOp] = "unopened" => ost[OpenOp] \in {"NONE"} \cup Over /\ ~openOk
    /\ reg[CloseOp] = "inPass" => at[CloseOp] = "starting" \/ inClose
    /\ inClose => at[CloseOp] \in {"driver", "fired", "callback", "done"} /\ Live(CloseOp)

\* Data operations come after a successful open and before the close.
DataOpen ==
    /\ ~openOk \/ hstate \in Opening \cup {"OPENING_AND_CLOSING"} => Idle
    /\ \A o \in Data : at[o] \in Below => hstate \in {"OPEN", "CLOSING"}
    /\ hstate = "OPEN" => openOk /\ cstate = "OPEN" /\ at[OpenOp] \notin {"new", "driver", "fired"}

\* The first context entry.
Entry ==
    /\ cstate = "NONE" <=> at[OpenOp] = "new"
    /\ cstate = "OPENING" <=> at[OpenOp] = "driver"
    /\ openOk => at[OpenOp] \notin {"new", "driver"}
    /\ at[OpenOp] = "fired" => cstate = IF openOk THEN "OPEN" ELSE "OPEN_FAILED"
    /\ at[OpenOp] = "callback" /\ ~early[OpenOp] /\ at[CloseOp] \in {"new", "deferred"}
         => cstate \in {"OPEN", "OPEN_FAILED"}
    /\ cstate = "OPEN_FAILED" => ~openOk /\ at[OpenOp] \in Counted /\ ~early[OpenOp]
    /\ cstate = "OPENING_AND_CLOSING" =>
         ~openOk /\ at[OpenOp] = "deliver" /\ ~early[OpenOp] /\ at[CloseOp] = "cached"
    /\ at[CloseOp] \in {"new", "unopened", "deferred", "toPass"} =>
         ~closeStarted /\ cstate \notin {"CLOSING", "OPENING_AND_CLOSING"}
    /\ at[CloseOp] = "toPass" => cstate \in {"OPEN", "OPEN_FAILED"}
    /\ at[CloseOp] = "cached" => /\ cstate \in {"CLOSING", "OPENING_AND_CLOSING"}
                                 /\ ~closeStarted /\ outstanding > 0
    /\ at[CloseOp] \in {"starting", "driver", "fired"} => outstanding = 0
    /\ at[CloseOp] \in {"starting", "driver"} => cstate = "CLOSING"
    /\ at[CloseOp] \in {"callback", "done", "failed"} => outstanding = 0 \/ Idle

Out == {o \in Op : o # CloseOp /\ at[o] \in Counted /\ ~early[o]}
Owners == {o \in Op : Live(o) /\ at[o] \notin {"new", "deferred", "toPass"}}

Counts ==
    /\ outstanding = Cardinality(Out)
    /\ href = One(hstate # "CLOSED") + Cardinality(Owners)

OpInv == \A o \in Op : Places(o) /\ Threads(o) /\ Called(o) /\ Refs(o)

Good == TypeOK /\ OpInv /\ Lifecycle /\ Waiting /\ DataOpen /\ Entry /\ Counts /\ ~fault

\* A user that is not hasty closes an open handle when no thread is inside a register
\* function: the handle's own reference outlives a registration that fails.
Patience == ~conf.hasty /\ (\E o \in Data : reg[o] # "none") => hstate = "OPEN"

\* The inductive invariant; conf never changes.
HandleInv == Safe => Good /\ Patience

-----------------------------------------------------------------------------
(* Facts about the operators *)

OpStates == {"NONE", "OPERATING", "TIMEOUT_PENDING", "FINISH_WAITING", "FINISHED", "FREED"}

LEMMA Kinds3 ==
  /\ OpenOp \in Op /\ CloseOp \in Op /\ OpenOp # CloseOp
  /\ Kind(OpenOp) = "open" /\ Kind(CloseOp) = "close"
  /\ \A o \in Data : Kind(o) = "data" /\ o # OpenOp /\ o # CloseOp /\ o \in Op
  /\ \A o \in Op : o \in Data \/ o = OpenOp \/ o = CloseOp
  BY OpsDistinct DEF Op, Kind

\* Sets of operations are finite.
LEMMA OpCard ==
  ASSUME NEW S \in SUBSET Op
  PROVE  /\ IsFiniteSet(S) /\ Cardinality(S) \in Nat
         /\ Cardinality(S) = 0 <=> S = {}
         /\ \A o \in S : Cardinality(S) > 0
  <1>1. IsFiniteSet(Op)
    <2>1. IsFiniteSet({OpenOp, CloseOp})
      <3>1. IsFiniteSet({OpenOp}) /\ {OpenOp, CloseOp} = {OpenOp} \cup {CloseOp}
        BY FS_Singleton
      <3> QED
        BY <3>1, FS_AddElement
    <2> QED
      BY <2>1, FS_Union, OpsDistinct DEF Op
  <1>2. IsFiniteSet(S) /\ Cardinality(S) \in Nat /\ (Cardinality(S) = 0 <=> S = {})
    BY <1>1, FS_Subset, FS_CardinalityType, FS_EmptySet
  <1> QED
    BY <1>2

LEMMA CardAdd ==
  ASSUME NEW A \in SUBSET Op, NEW B \in SUBSET Op, NEW o \in Op, o \notin A, o \in B,
         \A x \in Op : x # o => (x \in A <=> x \in B)
  PROVE  Cardinality(B) = Cardinality(A) + 1
  <1>1. B = A \cup {o}
    OBVIOUS
  <1> QED
    BY <1>1, OpCard, FS_AddElement

LEMMA CardRemove ==
  ASSUME NEW A \in SUBSET Op, NEW B \in SUBSET Op, NEW o \in Op, o \in A, o \notin B,
         \A x \in Op : x # o => (x \in A <=> x \in B)
  PROVE  Cardinality(B) = Cardinality(A) - 1 /\ Cardinality(A) > 0
  <1>1. Cardinality(A) = Cardinality(B) + 1
    BY CardAdd
  <1> QED
    BY <1>1, OpCard

LEMMA CardSame ==
  ASSUME NEW A \in SUBSET Op, NEW B \in SUBSET Op, \A x \in Op : x \in A <=> x \in B
  PROVE  Cardinality(B) = Cardinality(A)
  <1>1. A = B
    OBVIOUS
  <1> QED
    BY <1>1

\* The references of an operation, one by one.
Own(o) == One(Live(o) /\ ost[o] # "FINISHED" /\ ~(at[o] = "failed" /\ reg[o] = "none"))
Tim(o) == One(timer[o] # "none")
Reg(o) == CASE reg[o] = "inPass" /\ o # CloseOp -> 2
            [] reg[o] = "none" -> 0
            [] OTHER -> 1
Kick(o) == One(o # CloseOp /\ at[o] \in Counted)
Clo(o) == One(o = CloseOp /\ inClose)

LEMMA HoldersAre ==
  ASSUME NEW o \in Op
  PROVE  /\ Holders(o) = Own(o) + Tim(o) + Reg(o) + Kick(o) + Clo(o)
         /\ Own(o) \in {0, 1} /\ Tim(o) \in {0, 1} /\ Reg(o) \in {0, 1, 2}
         /\ Kick(o) \in {0, 1} /\ Clo(o) \in {0, 1}
         /\ Own(o) = 1 <=> (Live(o) /\ ost[o] # "FINISHED" /\ ~(at[o] = "failed" /\ reg[o] = "none"))
         /\ Tim(o) = 0 <=> timer[o] = "none"
         /\ Reg(o) = IF reg[o] = "none" THEN 0 ELSE IF reg[o] = "inPass" /\ o # CloseOp THEN 2 ELSE 1
         /\ Kick(o) = 1 <=> (o # CloseOp /\ at[o] \in Counted)
         /\ Clo(o) = 1 <=> (o = CloseOp /\ inClose)
  <1>1. Holders(o) = Own(o) + Tim(o) + Reg(o) + Kick(o) + Clo(o)
    BY DEF Holders, Own, Tim, Reg, Kick, Clo, Counted, One
  <1>2. Own(o) \in {0, 1} /\ Tim(o) \in {0, 1} /\ Kick(o) \in {0, 1} /\ Clo(o) \in {0, 1}
    BY DEF Own, Tim, Kick, Clo, One
  <1>3. /\ Reg(o) = IF reg[o] = "none" THEN 0 ELSE IF reg[o] = "inPass" /\ o # CloseOp THEN 2 ELSE 1
        /\ Reg(o) \in {0, 1, 2}
    BY DEF Reg
  <1>4. /\ Own(o) = 1 <=> (Live(o) /\ ost[o] # "FINISHED" /\ ~(at[o] = "failed" /\ reg[o] = "none"))
        /\ Tim(o) = 0 <=> timer[o] = "none"
        /\ Kick(o) = 1 <=> (o # CloseOp /\ at[o] \in Counted)
        /\ Clo(o) = 1 <=> (o = CloseOp /\ inClose)
    BY DEF Own, Tim, Kick, Clo, One
  <1> QED
    BY <1>1, <1>2, <1>3, <1>4

\* An operation that nothing happens to.
Untouched(o) ==
  /\ ost'[o] = ost[o] /\ oref'[o] = oref[o] /\ timer'[o] = timer[o] /\ asking'[o] = asking[o]
  /\ reg'[o] = reg[o] /\ at'[o] = at[o] /\ early'[o] = early[o] /\ late'[o] = late[o]
  /\ calls'[o] = calls[o] /\ (o = CloseOp => inClose' = inClose)

OpGood(o) == Places(o) /\ Threads(o) /\ Called(o) /\ Refs(o)

LEMMA UntouchedKeeps ==
  ASSUME Good, conf' = conf, NEW o \in Op, Untouched(o)
  PROVE  OpGood(o)'
  <1>1. OpGood(o)
    BY DEF Good, OpInv, OpGood
  <1>2. Places(o)' /\ Threads(o)'
    BY <1>1 DEF OpGood, Untouched, Places, Threads, Timed, Kind
  <1>3. Called(o)'
    BY <1>1 DEF OpGood, Untouched, Called, One
  <1>4. Holders(o)' = Holders(o)
    BY DEF Untouched, Holders, One, Live
  <1>5. Refs(o)'
    BY <1>1, <1>4 DEF OpGood, Untouched, Refs, Live
  <1> QED
    BY <1>2, <1>3, <1>5 DEF OpGood

-----------------------------------------------------------------------------
(* Steps that leave the handle where it is *)

\* Operations finish their references, timeouts and questions without the handle, open or
\* close getting anywhere.
LEMMA Frame ==
  ASSUME Good,
         UNCHANGED <<conf, hstate, openOp, closeOp, openOk, cstate, deferred, outstanding,
                     closeStarted>>,
         \A x \in Op : at'[x] = at[x] /\ early'[x] = early[x],
         \A x \in {OpenOp, CloseOp} :
            /\ ost'[x] = ost[x] \/ {ost[x], ost'[x]} \subseteq Operating
                 \/ (ost[x] = "FINISHED" /\ ost'[x] = "FREED" /\ ~(x = CloseOp /\ inClose')),
         reg'[CloseOp] = reg[CloseOp] \/ reg'[CloseOp] \notin {"inPass", "failed"},
         inClose' = inClose \/ (~inClose' /\ reg'[CloseOp] # "inPass")
  PROVE  Lifecycle' /\ Waiting' /\ DataOpen' /\ Entry'
  <1>1. /\ at'[OpenOp] = at[OpenOp] /\ at'[CloseOp] = at[CloseOp]
        /\ early'[OpenOp] = early[OpenOp] /\ Idle' = Idle
        /\ \A o \in Data : at'[o] = at[o]
    BY Kinds3 DEF Idle
  <1>2. Lifecycle'
    BY <1>1 DEF Good, Lifecycle, Operating, Over
  <1>3. Waiting'
    BY <1>1 DEF Good, Waiting, Operating, Over, Live
  <1>4. DataOpen'
    BY <1>1 DEF Good, DataOpen
  <1>5. Entry'
    BY <1>1 DEF Good, Entry
  <1> QED
    BY <1>2, <1>3, <1>4, <1>5

\* The counts of such a step, when o is the only operation it may free.
LEMMA FrameCounts ==
  ASSUME Good, NEW o \in Op, UNCHANGED <<conf, hstate, outstanding>>,
         \A x \in Op : (x \in Out <=> x \in Out') /\ (x # o => (x \in Owners <=> x \in Owners')),
         href' = href - One(o \in Owners /\ o \notin Owners'),
         o \in Owners' => o \in Owners
  PROVE  Counts' /\ href' \in Nat /\ (href' = 0 => hstate = "CLOSED")
  <1>1. Out \in SUBSET Op /\ Out' \in SUBSET Op /\ Owners \in SUBSET Op /\ Owners' \in SUBSET Op
    BY DEF Out, Owners
  <1>2. Cardinality(Out') = Cardinality(Out)
    BY <1>1, CardSame
  <1>3. Cardinality(Owners) \in Nat /\ Cardinality(Owners') \in Nat
    BY <1>1, OpCard
  <1>4. href = One(hstate # "CLOSED") + Cardinality(Owners) /\ outstanding = Cardinality(Out)
    BY DEF Good, Counts
  <1>5. CASE o \in Owners /\ o \notin Owners'
    <2>1. Cardinality(Owners') = Cardinality(Owners) - 1
      BY <1>1, <1>5, CardRemove
    <2>2. href' = href - 1
      BY <1>5 DEF One
    <2> QED
      BY <1>2, <1>3, <1>4, <2>1, <2>2 DEF Counts, One
  <1>6. CASE ~(o \in Owners /\ o \notin Owners')
    <2>1. Cardinality(Owners') = Cardinality(Owners)
      BY <1>1, <1>6, CardSame
    <2>2. href' = href - 0
      BY <1>6 DEF One
    <2> QED
      BY <1>2, <1>3, <1>4, <2>1, <2>2 DEF Counts, One
  <1> QED
    BY <1>5, <1>6

-----------------------------------------------------------------------------
(* Releasing a reference *)

LEMMA HoldersNext ==
  ASSUME NEW o \in Op
  PROVE  (/\ Holders(o) = Own(o) + Tim(o) + Reg(o) + Kick(o) + Clo(o)
          /\ Own(o) \in {0, 1} /\ Tim(o) \in {0, 1} /\ Reg(o) \in {0, 1, 2}
          /\ Kick(o) \in {0, 1} /\ Clo(o) \in {0, 1}
          /\ Own(o) = 1 <=> (Live(o) /\ ost[o] # "FINISHED" /\ ~(at[o] = "failed" /\ reg[o] = "none"))
          /\ Tim(o) = 0 <=> timer[o] = "none"
          /\ Reg(o) = IF reg[o] = "none" THEN 0 ELSE IF reg[o] = "inPass" /\ o # CloseOp THEN 2 ELSE 1
          /\ Kick(o) = 1 <=> (o # CloseOp /\ at[o] \in Counted)
          /\ Clo(o) = 1 <=> (o = CloseOp /\ inClose))'
  BY HoldersAre, PTL

\* What is left of the users of an operation decides whether it is freed.
LEMMA Released ==
  ASSUME NEW o \in Op, NEW n \in Int, NEW v, v \notin {"NONE", "FREED"},
         oref'[o] = n, ost'[o] = (IF n = 0 THEN "FREED" ELSE v),
         n = One(v # "FINISHED" /\ ~(at'[o] = "failed" /\ reg'[o] = "none"))
               + Tim(o)' + Reg(o)' + Kick(o)' + Clo(o)'
  PROVE  /\ Refs(o)' /\ n \in Nat
         /\ n = 0 => /\ v = "FINISHED" \/ at'[o] = "failed"
                     /\ timer'[o] = "none" /\ reg'[o] = "none"
                     /\ o # CloseOp => at'[o] \notin Counted
                     /\ o = CloseOp => ~inClose'
  <1> DEFINE e == v # "FINISHED" /\ ~(at'[o] = "failed" /\ reg'[o] = "none")
  <1>1. /\ Holders(o)' = Own(o)' + Tim(o)' + Reg(o)' + Kick(o)' + Clo(o)'
        /\ Own(o)' \in {0, 1} /\ Tim(o)' \in {0, 1} /\ Reg(o)' \in {0, 1, 2}
        /\ Kick(o)' \in {0, 1} /\ Clo(o)' \in {0, 1}
        /\ Tim(o)' = 0 <=> timer'[o] = "none"
        /\ Reg(o)' = 0 <=> reg'[o] = "none"
        /\ Kick(o)' = 1 <=> (o # CloseOp /\ at'[o] \in Counted)
        /\ Clo(o)' = 1 <=> (o = CloseOp /\ inClose')
        /\ Own(o)' = 1 <=> (Live(o)' /\ ost'[o] # "FINISHED"
                             /\ ~(at'[o] = "failed" /\ reg'[o] = "none"))
    BY HoldersNext
  <1>2. One(e) \in {0, 1} /\ (One(e) = 0 <=> ~e) /\ n = One(e) + Tim(o)' + Reg(o)' + Kick(o)' + Clo(o)'
    BY DEF One
  <1>3. Live(o)' <=> n # 0
    BY DEF Live
  <1>4. n # 0 => (Own(o)' = 1 <=> e)
    BY <1>1, <1>3
  <1>5. n = 0 => Own(o)' = 0
    BY <1>1, <1>3
  <1>6. Own(o)' = One(e) \/ n = 0
    BY <1>1, <1>2, <1>4
  <1>7. n = 0 => ~e /\ One(e) = 0
    <2> HIDE DEF e
    <2> QED
      BY <1>1, <1>2
  <1>8. Holders(o)' = n /\ n \in Nat
    <2> HIDE DEF e
    <2> QED
      BY <1>1, <1>2, <1>5, <1>6, <1>7
  <1>9. n = 0 => Tim(o)' = 0 /\ Reg(o)' = 0 /\ Kick(o)' = 0 /\ Clo(o)' = 0
    <2> HIDE DEF e
    <2> QED
      BY <1>1, <1>2
  <1> QED
    BY <1>1, <1>3, <1>7, <1>8, <1>9 DEF Refs

\* A thread or the timer lets an operation go; nothing else happens.
LEMMA QuietRelease ==
  ASSUME Safe, Good, NEW o \in Op, Live(o), Release(o, 1, ost, 0, hstate),
         UNCHANGED <<conf, hstate, openOp, closeOp, canceled, asking, at, early, late, calls,
                     openOk, cstate, outstanding, closeStarted, deferred>>,
         timer' \in [Op -> {"none", "registered", "firing", "refused"}],
         reg' \in [Op -> {"none", "inPass", "returned", "failed"}], inClose' \in BOOLEAN,
         \A x \in Op : x # o => timer'[x] = timer[x] /\ reg'[x] = reg[x],
         timer'[o] = timer[o] \/ (timer'[o] = "none" /\ ~asking[o]),
         reg'[o] = reg[o] \/ (reg[o] \notin {"none", "failed"} /\ reg'[o] \in {"none", "returned"}),
         inClose' = inClose \/ (o = CloseOp /\ ~inClose' /\ reg'[o] # "inPass"),
         Tim(o)' + Reg(o)' + Clo(o)' = Tim(o) + Reg(o) + Clo(o) - 1
  PROVE  Good'
  <1> DEFINE n == oref[o] - 1
             own == Live(o) /\ ost[o] # "FINISHED" /\ ~(at[o] = "failed" /\ reg[o] = "none")
  <1>1. /\ oref' = [oref EXCEPT ![o] = n] /\ ost' = (IF n = 0 THEN [ost EXCEPT ![o] = "FREED"] ELSE ost)
        /\ href' = href - 0 - One(n = 0)
        /\ fault' = (fault \/ ~(n >= 0 /\ href' >= 0 /\ (href' = 0 => hstate = "CLOSED")))
    BY DEF Release, ReleaseIf, Insist
  <1>2. /\ oref \in [Op -> Nat] /\ ost \in [Op -> OpStates] /\ OpGood(o)
        /\ \A x \in Op : at'[x] = at[x] /\ early'[x] = early[x]
    BY DEF Good, TypeOK, OpInv, OpGood, OpStates
  <1>3. at[o] = "failed" => reg'[o] = reg[o] /\ timer[o] = "none" /\ timer'[o] = "none"
    <2>1. at[o] = "failed" => timer[o] = "none"
      BY <1>2 DEF OpGood, Places, Threads, Timed, Safe
    <2> QED
      BY <1>2, <2>1 DEF OpGood, Threads
  <1>4. /\ oref'[o] = n /\ n \in Int
        /\ ost'[o] = IF n = 0 THEN "FREED" ELSE ost[o]
        /\ \A x \in Op : x # o => ost'[x] = ost[x] /\ oref'[x] = oref[x]
    BY <1>1, <1>2
  <1> DEFINE e == ost[o] # "FINISHED" /\ ~(at'[o] = "failed" /\ reg'[o] = "none")
  <1>5. n = One(e) + Tim(o)' + Reg(o)' + Kick(o)' + Clo(o)'
    <2>1. Kick(o)' = Kick(o)
      BY DEF Kick
    <2>2. own <=> e
      BY <1>3
    <2>3. One(e) = Own(o)
      BY <2>2 DEF Own, One
    <2>4. oref[o] = Own(o) + Tim(o) + Reg(o) + Kick(o) + Clo(o)
      BY <1>2, HoldersAre DEF OpGood, Refs
    <2>5. Own(o) \in Int /\ Tim(o) \in Int /\ Reg(o) \in Int /\ Kick(o) \in Int /\ Clo(o) \in Int
      BY HoldersAre
    <2>6. Tim(o)' \in Int /\ Reg(o)' \in Int /\ Clo(o)' \in Int
      BY HoldersNext
    <2> HIDE DEF e, own
    <2> QED
      BY <2>1, <2>3, <2>4, <2>5, <2>6
  <1>6. /\ Refs(o)' /\ n \in Nat
        /\ n = 0 => /\ ost[o] = "FINISHED" \/ at[o] = "failed"
                    /\ timer'[o] = "none" /\ reg'[o] = "none"
                    /\ o # CloseOp => at[o] \notin Counted
                    /\ o = CloseOp => ~inClose'
    <2>1. ost[o] \notin {"NONE", "FREED"}
      BY DEF Live
    <2> HIDE DEF n
    <2> QED
      BY <1>4, <1>5, <2>1, Released
  <1>7. n = 0 => ost[o] = "FINISHED" /\ at[o] = "done"
    <2>1. at[o] = "failed" /\ reg[o] = "none" => FALSE
      BY <1>2 DEF OpGood, Places, Operating, Before, Live, OpStates
    <2>2. ost[o] = "FINISHED" => at[o] \in {"closing", "deliver", "done"}
      BY <1>2 DEF OpGood, Places
    <2>3. (o # OpenOp => at[o] # "closing") /\ (o = CloseOp => at[o] # "deliver")
      BY <1>2 DEF OpGood, Places
    <2> HIDE DEF n
    <2> QED
      BY <1>3, <1>6, <2>1, <2>2, <2>3, Kinds3 DEF Counted
  <1> HIDE DEF n
  <1>8. OpInv'
    <2>1. ASSUME NEW x \in Op, x # o PROVE OpGood(x)'
      BY <1>4, <2>1, UntouchedKeeps DEF Untouched
    <2>2. Places(o)'
      BY <1>2, <1>3, <1>4, <1>7 DEF OpGood, Places, Operating, Before
    <2>3. Threads(o)'
      BY <1>2, <1>3, <1>4, <1>6, <1>7 DEF OpGood, Threads, Timed
    <2>4. Called(o)'
      BY <1>2, <1>4, <1>7 DEF OpGood, Called, One
    <2> QED
      BY <1>6, <2>1, <2>2, <2>3, <2>4 DEF OpGood, OpInv
  <1>9. Lifecycle' /\ Waiting' /\ DataOpen' /\ Entry'
    <2>1. \A x \in {OpenOp, CloseOp} :
            \/ ost'[x] = ost[x]
            \/ (ost[x] = "FINISHED" /\ ost'[x] = "FREED" /\ ~(x = CloseOp /\ inClose'))
      BY <1>4, <1>6, <1>7, Kinds3
    <2>2. reg'[CloseOp] = reg[CloseOp] \/ reg'[CloseOp] \notin {"inPass", "failed"}
      BY Kinds3
    <2> QED
      BY <1>2, <2>1, <2>2, Frame
  <1>10. Counts' /\ href' \in Nat /\ (href' = 0 => hstate = "CLOSED")
    <2>1. \A x \in Op : (x \in Out <=> x \in Out') /\ (x # o => (x \in Owners <=> x \in Owners'))
      BY <1>4 DEF Out, Owners, Live
    <2>0. Tim(o) + Reg(o) + Clo(o) > 0
      BY HoldersAre, HoldersNext
    <2>4. at[o] \notin {"new", "deferred", "toPass"}
      <3>1. timer[o] # "none" \/ reg[o] # "none" \/ (o = CloseOp /\ inClose)
        BY <2>0, HoldersAre
      <3> QED
        BY <1>2, <3>1 DEF OpGood, Threads, Good, Waiting
    <2>2. o \in Owners /\ (o \in Owners' <=> n # 0)
      BY <1>4, <2>4 DEF Owners, Live
    <2>3. href' = href - One(o \in Owners /\ o \notin Owners')
      BY <1>1, <2>2 DEF One, Good, TypeOK
    <2> QED
      BY <2>1, <2>2, <2>3, FrameCounts
  <1>11. TypeOK' /\ ~fault'
    <2>1. oref' \in [Op -> Nat] /\ ost' \in [Op -> OpStates]
      BY <1>1, <1>2, <1>6 DEF OpStates
    <2>2. n >= 0 /\ href' >= 0 /\ (href' = 0 => hstate = "CLOSED")
      BY <1>6, <1>10
    <2>3. fault' = FALSE
      BY <1>1, <2>2 DEF Good
    <2> QED
      BY <1>10, <2>1, <2>3 DEF Good, TypeOK, OpStates
  <1> QED
    BY <1>8, <1>9, <1>10, <1>11 DEF Good

-----------------------------------------------------------------------------
(* The timer and cancelling *)

\* A step of one operation that stays where it is and keeps its memory.
LEMMA QuietStep ==
  ASSUME Good, NEW o \in Op,
         UNCHANGED <<conf, hstate, href, openOp, closeOp, reg, at, early, openOk, cstate,
                     outstanding, closeStarted, deferred, inClose>>,
         \A x \in Op : x # o => Untouched(x),
         ost'[o] = ost[o] \/ {ost[o], ost'[o]} \subseteq Operating,
         OpGood(o)', TypeOK', fault' = FALSE
  PROVE  Good'
  <1>1. OpInv'
    <2>1. ASSUME NEW x \in Op, x # o PROVE OpGood(x)'
      BY <2>1, UntouchedKeeps
    <2> QED
      BY <2>1 DEF OpInv, OpGood
  <1>2. \A x \in Op : ost'[x] = ost[x] \/ {ost[x], ost'[x]} \subseteq Operating
    BY DEF Untouched
  <1>3. Lifecycle' /\ Waiting' /\ DataOpen' /\ Entry'
    BY <1>2, Kinds3, Frame
  <1>4. \A x \in Op : Live(x)' <=> Live(x)
    BY <1>2 DEF Live, Operating
  <1>5. Out' = Out /\ Owners' = Owners
    BY <1>4 DEF Out, Owners
  <1>6. Counts'
    BY <1>5 DEF Counts, Good
  <1> QED
    BY <1>1, <1>3, <1>6 DEF Good

\* The references of an operation when only its timer entry goes.
LEMMA TimerGoes ==
  ASSUME NEW o \in Op, Refs(o), oref[o] \in Nat, timer[o] # "none", timer'[o] = "none",
         oref'[o] = oref[o] - 1,
         at'[o] = at[o], reg'[o] = reg[o], inClose' = inClose,
         Own(o) = 1, Own(o)' = 1
  PROVE  Refs(o)' /\ oref'[o] \in Nat /\ oref'[o] > 0
  <1>1. oref[o] = Own(o) + Tim(o) + Reg(o) + Kick(o) + Clo(o)
    BY HoldersAre DEF Refs
  <1>2. Reg(o)' = Reg(o) /\ Kick(o)' = Kick(o) /\ Clo(o)' = Clo(o)
    BY DEF Reg, Kick, Clo, One
  <1>3. /\ Holders(o)' = Own(o)' + Tim(o)' + Reg(o)' + Kick(o)' + Clo(o)'
        /\ Tim(o)' = 0
    BY HoldersNext
  <1>4. Tim(o) = 1 /\ Reg(o) \in {0, 1, 2} /\ Kick(o) \in {0, 1} /\ Clo(o) \in {0, 1}
    BY HoldersAre
  <1>5. oref'[o] = Holders(o)' /\ oref'[o] > 0
    BY <1>1, <1>2, <1>3, <1>4
  <1> QED
    BY <1>5 DEF Refs

\* ... and when none of them goes.
LEMMA RefsStay ==
  ASSUME NEW o \in Op, Refs(o), oref'[o] = oref[o], at'[o] = at[o], reg'[o] = reg[o],
         inClose' = inClose, timer'[o] = "none" <=> timer[o] = "none",
         ost'[o] = ost[o] \/ {ost[o], ost'[o]} \subseteq {"OPERATING", "TIMEOUT_PENDING", "FINISH_WAITING"}
  PROVE  Refs(o)'
  <1>1. (Live(o)' <=> Live(o)) /\ (ost'[o] = "FINISHED" <=> ost[o] = "FINISHED")
    BY DEF Live
  <1>2. Own(o)' = Own(o) /\ Tim(o)' = Tim(o) /\ Reg(o)' = Reg(o) /\ Kick(o)' = Kick(o) /\ Clo(o)' = Clo(o)
    BY <1>1 DEF Own, Tim, Reg, Kick, Clo, One
  <1>3. Holders(o)' = Holders(o)
    BY <1>2, HoldersAre, HoldersNext
  <1> QED
    BY <1>1, <1>3 DEF Refs

LEMMA KeepTimerFires ==
  ASSUME Good, NEW o \in Op, TimerFires(o)
  PROVE  Good'
  <1> USE DEF TimerFires, refs, links, below
  <1>1. OpGood(o) /\ timer \in [Op -> {"none", "registered", "firing", "refused"}]
    BY DEF Good, OpInv, OpGood, TypeOK
  <1>2. timer[o] = "registered" /\ timer'[o] = "firing"
    BY <1>1 DEF Unregistered
  <1>3. \A x \in Op : x # o => Untouched(x)
    BY <1>1 DEF Untouched
  <1>4. Refs(o)'
    BY <1>1, <1>2, RefsStay DEF OpGood
  <1>5. Places(o)' /\ Threads(o)' /\ Called(o)'
    BY <1>1, <1>2 DEF OpGood, Places, Threads, Called, Timed
  <1>6. TypeOK' /\ fault' = FALSE
    BY <1>1 DEF Good, TypeOK
  <1> QED
    BY <1>3, <1>4, <1>5, <1>6, QuietStep DEF OpGood

LEMMA KeepTimeoutBlocked ==
  ASSUME Good, NEW o \in Op, TimeoutBlocked(o)
  PROVE  Good'
  <1> USE DEF TimeoutBlocked, refs, links, below
  <1>1. OpGood(o) /\ timer \in [Op -> {"none", "registered", "firing", "refused"}]
    BY DEF Good, OpInv, OpGood, TypeOK
  <1>2. timer[o] = "firing" /\ timer'[o] = "refused" /\ ~asking[o]
    BY <1>1
  <1>3. \A x \in Op : x # o => Untouched(x)
    BY <1>1 DEF Untouched
  <1>4. Refs(o)'
    BY <1>1, <1>2, RefsStay DEF OpGood
  <1>5. Places(o)' /\ Threads(o)' /\ Called(o)'
    BY <1>1, <1>2 DEF OpGood, Places, Threads, Called, Timed
  <1>6. TypeOK' /\ fault' = FALSE
    BY <1>1 DEF Good, TypeOK
  <1> QED
    BY <1>3, <1>4, <1>5, <1>6, QuietStep DEF OpGood

LEMMA KeepPutBack ==
  ASSUME Good, NEW o \in Op, PutBack(o)
  PROVE  Good'
  <1> USE DEF PutBack, refs, links, below
  <1>1. OpGood(o) /\ timer \in [Op -> {"none", "registered", "firing", "refused"}]
    BY DEF Good, OpInv, OpGood, TypeOK
  <1>2. timer[o] = "refused" /\ timer'[o] = "registered" /\ ~asking[o]
    BY <1>1 DEF OpGood, Called
  <1>3. \A x \in Op : x # o => Untouched(x)
    BY <1>1 DEF Untouched
  <1>4. Refs(o)'
    BY <1>1, <1>2, RefsStay DEF OpGood
  <1>5. Places(o)' /\ Threads(o)' /\ Called(o)'
    BY <1>1, <1>2 DEF OpGood, Places, Threads, Called, Timed
  <1>6. TypeOK' /\ fault' = FALSE
    BY <1>1 DEF Good, TypeOK
  <1> QED
    BY <1>3, <1>4, <1>5, <1>6, QuietStep DEF OpGood

LEMMA KeepTimeoutAsks ==
  ASSUME Good, NEW o \in Op, TimeoutAsks(o)
  PROVE  Good'
  <1> USE DEF TimeoutAsks, links, below
  <1>1. /\ OpGood(o) /\ asking \in [Op -> BOOLEAN] /\ ost \in [Op -> OpStates]
    BY DEF Good, OpInv, OpGood, TypeOK, OpStates
  <1>2. ost[o] = "OPERATING"
    <2>1. ost[o] \notin {"NONE", "FREED"}
      BY <1>1 DEF OpGood, Places, Threads
    <2>2. ost[o] # "TIMEOUT_PENDING"
      BY <1>1 DEF OpGood, Called
    <2> QED
      BY <1>1, <2>1, <2>2 DEF OpStates
  <1>3. ost'[o] = "TIMEOUT_PENDING" /\ asking'[o] = TRUE /\ timer'[o] = "firing"
    BY <1>1
  <1>4. \A x \in Op : x # o => Untouched(x)
    BY <1>1 DEF Untouched
  <1>5. Refs(o)'
    BY <1>1, <1>2, <1>3, RefsStay DEF OpGood
  <1>6. Places(o)' /\ Threads(o)'
    BY <1>1, <1>2, <1>3 DEF OpGood, Places, Threads, Timed, Operating
  <1>7. Called(o)'
    <2>1. ~late[o] /\ calls[o] = 0
      BY <1>1, <1>2 DEF OpGood, Called, One
    <2> QED
      BY <1>3, <2>1 DEF Called, One
  <1>8. TypeOK' /\ fault' = FALSE
    <2>1. fault' = FALSE
      BY <1>2 DEF Good, Insist
    <2> QED
      BY <1>1, <2>1 DEF Good, TypeOK, OpStates
  <1> QED
    BY <1>2, <1>3, <1>4, <1>5, <1>6, <1>7, <1>8, QuietStep DEF OpGood, Operating

LEMMA KeepTimeoutAnswered ==
  ASSUME Good, NEW o \in Op, NEW cancel \in BOOLEAN, TimeoutAnswered(o, cancel)
  PROVE  Good'
  <1> USE DEF TimeoutAnswered, links, below
  <1> DEFINE waiting == ost[o] = "FINISH_WAITING"
             remove == cancel \/ waiting
  <1>1. /\ OpGood(o) /\ asking \in [Op -> BOOLEAN] /\ ost \in [Op -> OpStates]
        /\ timer \in [Op -> {"none", "registered", "firing", "refused"}] /\ oref \in [Op -> Nat]
        /\ late \in [Op -> BOOLEAN] /\ calls \in [Op -> Nat]
    BY DEF Good, OpInv, OpGood, TypeOK, OpStates
  <1>2. /\ asking[o] /\ timer[o] = "firing" /\ ost[o] \in {"TIMEOUT_PENDING", "FINISH_WAITING"}
        /\ ~late[o] /\ calls[o] = 0
    BY <1>1 DEF OpGood, Called, One
  <1>3. /\ ost'[o] = (IF waiting THEN ost[o] ELSE "OPERATING") /\ asking'[o] = FALSE
        /\ timer'[o] = (IF remove THEN "none" ELSE "refused")
        /\ oref'[o] = oref[o] - One(remove) /\ late'[o] = waiting
        /\ calls'[o] = One(waiting)
    BY <1>1, <1>2 DEF One
  <1>4. \A x \in Op : x # o => Untouched(x)
    BY <1>1 DEF Untouched
  <1>5. Refs(o)' /\ oref'[o] \in Nat /\ (remove => oref[o] > 1)
    <2>1. CASE remove
      <3>1. Own(o) = 1
        BY <1>1, <1>2 DEF OpGood, Own, Live, One, Places, Operating, Before
      <3>2. Own(o)' = 1
        BY <1>1, <1>2, <1>3 DEF OpGood, Own, Live, One, Places, Operating, Before
      <3>3. oref'[o] = oref[o] - 1
        BY <1>3, <2>1 DEF One
      <3>4. Refs(o)' /\ oref'[o] \in Nat /\ oref'[o] > 0
        BY <1>1, <1>2, <1>3, <2>1, <3>1, <3>2, <3>3, TimerGoes DEF OpGood
      <3> QED
        BY <1>1, <3>3, <3>4
    <2>2. CASE ~remove
      <3>1. oref'[o] = oref[o]
        BY <1>1, <1>3, <2>2 DEF One
      <3> QED
        BY <1>1, <1>2, <1>3, <2>2, <3>1, RefsStay DEF OpGood
    <2> QED
      BY <2>1, <2>2
  <1>6. Places(o)' /\ Threads(o)'
    BY <1>1, <1>2, <1>3 DEF OpGood, Places, Threads, Timed, Operating
  <1>7. Called(o)'
    <2>1. waiting => at[o] \in {"deliver", "done"}
      BY <1>1, <1>2 DEF OpGood, Called
    <2>2. ~waiting => at[o] \notin {"deliver", "done"} /\ ost'[o] = "OPERATING"
      BY <1>1, <1>2, <1>3 DEF OpGood, Places, Operating, Before
    <2> QED
      BY <1>2, <1>3, <2>1, <2>2 DEF Called, One
  <1>8. TypeOK' /\ fault' = FALSE
    <2>1. fault' = FALSE
      BY <1>5 DEF Good, Insist
    <2>2. oref' \in [Op -> Nat]
      BY <1>1, <1>5
    <2>3. calls' \in [Op -> Nat]
      BY <1>1 DEF One
    <2> QED
      BY <1>1, <2>1, <2>2, <2>3 DEF Good, TypeOK, OpStates
  <1>9. ost'[o] = ost[o] \/ {ost[o], ost'[o]} \subseteq Operating
    BY <1>2, <1>3 DEF Operating
  <1> QED
    BY <1>4, <1>5, <1>6, <1>7, <1>8, <1>9, QuietStep DEF OpGood

LEMMA KeepCancelOperation ==
  ASSUME Good, NEW o \in Op, CancelOperation(o)
  PROVE  Good'
  <1> USE DEF CancelOperation, links, below
  <1> DEFINE hit == ~canceled[o] /\ timer[o] = "registered"
  <1>1. /\ OpGood(o) /\ timer \in [Op -> {"none", "registered", "firing", "refused"}] /\ oref \in [Op -> Nat]
        /\ canceled \in [Op -> BOOLEAN] /\ ost \in [Op -> OpStates]
    BY DEF Good, OpInv, OpGood, TypeOK, OpStates
  <1>2. /\ timer' = [x \in Op |-> IF x = o /\ hit THEN "none" ELSE timer[x]]
        /\ oref' = [x \in Op |-> oref[x] - One(x = o /\ hit)]
        /\ canceled' \in [Op -> BOOLEAN]
    <2>1. \A x \in Op : x \in {y \in {o} : ~canceled[y] /\ Unregistered(y)} <=> x = o /\ hit
      BY DEF Unregistered
    <2> QED
      BY <1>1, <2>1 DEF Cancelled
  <1>3. ost[o] \in Operating \cup {"FINISH_WAITING"}
    <2>1. CASE o = OpenOp /\ openOp
      BY <2>1 DEF Good, Lifecycle
    <2>2. CASE o = CloseOp /\ closeOp
      BY <2>2 DEF Good, Lifecycle
    <2>3. CASE o \in Listed
      BY <1>1, <2>3 DEF Listed, OpGood, Places, Threads, Before
    <2> QED
      BY <2>1, <2>2, <2>3
  <1>4. \A x \in Op : x # o => Untouched(x)
    BY <1>1, <1>2 DEF Untouched, One
  <1>5. Refs(o)' /\ oref'[o] \in Nat
    <2>1. CASE hit
      <3>1. Own(o) = 1 /\ Own(o)' = 1
        BY <1>1, <1>3 DEF OpGood, Own, Live, One, Places, Operating, Before
      <3>2. oref'[o] = oref[o] - 1 /\ timer'[o] = "none" /\ timer[o] # "none"
        BY <1>2, <2>1 DEF One
      <3> QED
        BY <1>1, <3>1, <3>2, TimerGoes DEF OpGood
    <2>2. CASE ~hit
      <3>1. oref'[o] = oref[o] /\ timer'[o] = timer[o]
        BY <1>1, <1>2, <2>2 DEF One
      <3> QED
        BY <1>1, <3>1, RefsStay DEF OpGood
    <2> QED
      BY <2>1, <2>2
  <1>6. Places(o)' /\ Threads(o)' /\ Called(o)'
    BY <1>1, <1>2 DEF OpGood, Places, Threads, Called, Timed
  <1>7. TypeOK' /\ fault' = FALSE
    <2>1. fault' = FALSE
      BY <1>3 DEF Good, Insist, Live, Operating
    <2>2. oref' \in [Op -> Nat] /\ timer' \in [Op -> {"none", "registered", "firing", "refused"}]
      BY <1>1, <1>2, <1>5 DEF One
    <2> QED
      BY <1>2, <2>1, <2>2 DEF Good, TypeOK
  <1> QED
    BY <1>4, <1>5, <1>6, <1>7, QuietStep DEF OpGood

\* The steps that only give a reference back.
LEMMA KeepReturns ==
  ASSUME Safe, Good, NEW o \in Op, PassReturns(o) \/ RegisterReturns(o) \/ TimeoutTooLate(o)
  PROVE  Good'
  <1> USE DEF links, below, timing
  <1>1. /\ OpGood(o) /\ timer \in [Op -> {"none", "registered", "firing", "refused"}]
        /\ reg \in [Op -> {"none", "inPass", "returned", "failed"}] /\ inClose \in BOOLEAN
        /\ ost \in [Op -> OpStates]
    BY DEF Good, OpInv, OpGood, TypeOK, OpStates
  <1>2. Tim(o) \in Int /\ Reg(o) \in Int /\ Clo(o) \in Int
    BY HoldersAre
  <1>3. reg[o] # "none" \/ timer[o] # "none" => Live(o)
    BY <1>1 DEF OpGood, Threads, Places, Live
  <1>4. CASE PassReturns(o)
    <2> USE <1>4 DEF PassReturns
    <2>1. reg'[o] = "returned" /\ \A x \in Op : x # o => reg'[x] = reg[x]
      BY <1>1
    <2>2. Tim(o)' = Tim(o) /\ Clo(o)' = Clo(o) /\ Reg(o)' = 1 /\ Reg(o) = 2
      BY <2>1 DEF Tim, Clo, Reg
    <2> QED
      BY <1>1, <1>2, <1>3, <2>1, <2>2, QuietRelease
  <1>5. CASE RegisterReturns(o)
    <2> USE <1>5 DEF RegisterReturns
    <2>1. reg'[o] = "none" /\ \A x \in Op : x # o => reg'[x] = reg[x]
      BY <1>1
    <2>2. Tim(o)' = Tim(o) /\ Clo(o)' = Clo(o) /\ Reg(o)' = 0 /\ Reg(o) = 1
      BY <2>1 DEF Tim, Clo, Reg
    <2> QED
      BY <1>1, <1>2, <1>3, <2>1, <2>2, QuietRelease
  <1>6. CASE TimeoutTooLate(o)
    <2> USE <1>6 DEF TimeoutTooLate
    <2>1. timer'[o] = "none" /\ \A x \in Op : x # o => timer'[x] = timer[x]
      BY <1>1
    <2>2. Tim(o)' = 0 /\ Tim(o) = 1 /\ Clo(o)' = Clo(o) /\ Reg(o)' = Reg(o)
      BY <2>1 DEF Tim, Clo, Reg, One
    <2> QED
      BY <1>1, <1>2, <1>3, <2>1, <2>2, QuietRelease
  <1> QED
    BY <1>4, <1>5, <1>6

LEMMA KeepStartCloseReturns ==
  ASSUME Safe, Good, StartCloseReturns
  PROVE  Good'
  <1> USE DEF links, timing, StartCloseReturns
  <1>1. /\ OpGood(CloseOp) /\ timer \in [Op -> {"none", "registered", "firing", "refused"}]
        /\ reg \in [Op -> {"none", "inPass", "returned", "failed"}] /\ inClose = TRUE
        /\ CloseOp \in Op
    BY Kinds3 DEF Good, OpInv, OpGood, TypeOK
  <1>2. Tim(CloseOp) \in Int /\ Reg(CloseOp) \in Int
    BY <1>1, HoldersAre
  <1>3. Live(CloseOp)
    BY DEF Good, Waiting
  <1>4. /\ reg'[CloseOp] = (IF reg[CloseOp] = "inPass" THEN "returned" ELSE reg[CloseOp])
        /\ \A x \in Op : x # CloseOp => reg'[x] = reg[x]
    BY <1>1
  <1>5. /\ Tim(CloseOp)' = Tim(CloseOp) /\ Clo(CloseOp)' = 0 /\ Clo(CloseOp) = 1
        /\ Reg(CloseOp)' = Reg(CloseOp)
    BY <1>1, <1>4 DEF Tim, Clo, Reg, One
  <1>6. Tim(CloseOp)' + Reg(CloseOp)' + Clo(CloseOp)' = Tim(CloseOp) + Reg(CloseOp) + Clo(CloseOp) - 1
    BY <1>2, <1>5
  <1>7. inClose' \in BOOLEAN /\ ~inClose' /\ reg'[CloseOp] # "inPass"
    <2>1. inClose' = FALSE
      OBVIOUS
    <2>2. reg'[CloseOp] # "inPass"
      BY <1>4
    <2> QED
      BY <2>1, <2>2
  <1>8. reg' \in [Op -> {"none", "inPass", "returned", "failed"}]
    BY <1>1
  <1>9. reg'[CloseOp] = reg[CloseOp]
          \/ (reg[CloseOp] \notin {"none", "failed"} /\ reg'[CloseOp] \in {"none", "returned"})
    BY <1>4
  <1> QED
    BY <1>1, <1>3, <1>4, <1>6, <1>7, <1>8, <1>9, QuietRelease

-----------------------------------------------------------------------------
(* Counting, and steps of one data operation *)

LEMMA CardStep ==
  ASSUME NEW A \in SUBSET Op, NEW B \in SUBSET Op, NEW o \in Op,
         \A x \in Op : x # o => (x \in A <=> x \in B)
  PROVE  /\ Cardinality(B) = Cardinality(A) + One(o \in B) - One(o \in A)
         /\ Cardinality(A) \in Nat /\ Cardinality(B) \in Nat
         /\ o \in A => Cardinality(A) > 0
         /\ o \in B => Cardinality(B) > 0
  <1>1. /\ Cardinality(A) \in Nat /\ Cardinality(B) \in Nat
        /\ (o \in A => Cardinality(A) > 0) /\ (o \in B => Cardinality(B) > 0)
    BY OpCard
  <1>2. CASE o \in A /\ o \in B
    <2>1. Cardinality(B) = Cardinality(A)
      BY <1>2, CardSame
    <2> QED
      BY <1>1, <1>2, <2>1 DEF One
  <1>3. CASE o \notin A /\ o \notin B
    <2>1. Cardinality(B) = Cardinality(A)
      BY <1>3, CardSame
    <2> QED
      BY <1>1, <1>3, <2>1 DEF One
  <1>4. CASE o \in A /\ o \notin B
    <2>1. Cardinality(B) = Cardinality(A) - 1
      BY <1>4, CardRemove
    <2> QED
      BY <1>1, <1>4, <2>1 DEF One
  <1>5. CASE o \notin A /\ o \in B
    <2>1. Cardinality(B) = Cardinality(A) + 1
      BY <1>5, CardAdd
    <2> QED
      BY <1>1, <1>5, <2>1 DEF One
  <1> QED
    BY <1>2, <1>3, <1>4, <1>5

\* Both counts after a step that moves one operation in or out of them.
LEMMA CountsStep ==
  ASSUME Counts, NEW o \in Op,
         \A x \in Op : x # o => (x \in Out <=> x \in Out') /\ (x \in Owners <=> x \in Owners'),
         outstanding' = outstanding + One(o \in Out') - One(o \in Out),
         href' = href + One(o \in Owners') - One(o \in Owners)
                   + One(hstate' # "CLOSED") - One(hstate # "CLOSED")
  PROVE  /\ Counts' /\ href' \in Nat /\ outstanding' \in Nat
         /\ href' = 0 => hstate' = "CLOSED"
         /\ o \in Out => outstanding > 0
         /\ o \in Owners' /\ hstate' # "CLOSED" => href' > 1
         /\ \A x \in Op : x # o /\ x \in Out => outstanding' > 0
  <1>1. Out \in SUBSET Op /\ Out' \in SUBSET Op /\ Owners \in SUBSET Op /\ Owners' \in SUBSET Op
    BY DEF Out, Owners
  <1>2. /\ Cardinality(Out') = Cardinality(Out) + One(o \in Out') - One(o \in Out)
        /\ Cardinality(Out) \in Nat /\ Cardinality(Out') \in Nat
        /\ o \in Out => Cardinality(Out) > 0
    BY <1>1, CardStep
  <1>3. /\ Cardinality(Owners') = Cardinality(Owners) + One(o \in Owners') - One(o \in Owners)
        /\ Cardinality(Owners) \in Nat /\ Cardinality(Owners') \in Nat
        /\ o \in Owners' => Cardinality(Owners') > 0
    BY <1>1, CardStep
  <1>4. /\ One(hstate # "CLOSED") \in {0, 1} /\ One(hstate' # "CLOSED") \in {0, 1}
        /\ One(hstate' # "CLOSED") = 0 <=> hstate' = "CLOSED"
        /\ One(o \in Out) \in Int /\ One(o \in Out') \in Int
        /\ One(o \in Owners) \in Int /\ One(o \in Owners') \in Int
    BY DEF One
  <1>5. outstanding = Cardinality(Out) /\ href = One(hstate # "CLOSED") + Cardinality(Owners)
    BY DEF Counts
  <1>6. outstanding' = Cardinality(Out') /\ href' = One(hstate' # "CLOSED") + Cardinality(Owners')
    BY <1>2, <1>3, <1>4, <1>5
  <1>7. \A x \in Op : x # o /\ x \in Out => Cardinality(Out') > 0
    <2>1. ASSUME NEW x \in Op, x # o, x \in Out PROVE Cardinality(Out') > 0
      <3>1. x \in Out'
        BY <2>1
      <3> QED
        BY <1>1, <3>1, OpCard
    <2> QED
      BY <2>1
  <1>8. Counts'
    BY <1>6 DEF Counts
  <1>9. /\ href' \in Nat /\ outstanding' \in Nat /\ (href' = 0 => hstate' = "CLOSED")
        /\ (o \in Out => outstanding > 0) /\ (o \in Owners' /\ hstate' # "CLOSED" => href' > 1)
    BY <1>2, <1>3, <1>4, <1>5, <1>6
  <1>10. \A x \in Op : x # o /\ x \in Out => outstanding' > 0
    BY <1>6, <1>7
  <1> QED
    BY <1>8, <1>9, <1>10

\* What a release does to the operations' fields.
LEMMA Unref ==
  ASSUME NEW o \in Op, NEW n \in Int, NEW s \in [Op -> OpStates], oref \in [Op -> Nat],
         oref' = [oref EXCEPT ![o] = n], ost' = IF n = 0 THEN [s EXCEPT ![o] = "FREED"] ELSE s
  PROVE  /\ oref'[o] = n /\ ost'[o] = IF n = 0 THEN "FREED" ELSE s[o]
         /\ \A x \in Op : x # o => oref'[x] = oref[x] /\ ost'[x] = s[x]
         /\ ost' \in [Op -> OpStates]
         /\ (n >= 0 => oref' \in [Op -> Nat])
  <1>1. ost' \in [Op -> OpStates] /\ (n >= 0 => oref' \in [Op -> Nat])
    BY DEF OpStates
  <1>2. /\ oref'[o] = n /\ ost'[o] = (IF n = 0 THEN "FREED" ELSE s[o])
        /\ \A x \in Op : x # o => oref'[x] = oref[x] /\ ost'[x] = s[x]
    OBVIOUS
  <1> QED
    BY <1>1, <1>2

\* A cached close that its barrier lets go, or that a failed open ends.
LEMMA CloseStarts ==
  ASSUME Good, conf' = conf, at[CloseOp] = "cached", at'[CloseOp] \in {"starting", "fired"},
         ost'[CloseOp] = ost[CloseOp], oref'[CloseOp] = oref[CloseOp],
         timer'[CloseOp] = timer[CloseOp], asking'[CloseOp] = asking[CloseOp],
         reg'[CloseOp] = reg[CloseOp], early'[CloseOp] = early[CloseOp],
         late'[CloseOp] = late[CloseOp], calls'[CloseOp] = calls[CloseOp], inClose' = inClose
  PROVE  /\ OpGood(CloseOp)'
         /\ CloseOp \in Out <=> CloseOp \in Out'
         /\ CloseOp \in Owners <=> CloseOp \in Owners'
  <1>1. OpGood(CloseOp) /\ CloseOp \in Op
    BY Kinds3 DEF Good, OpInv, OpGood
  <1>2. Places(CloseOp)' /\ Threads(CloseOp)'
    BY <1>1 DEF OpGood, Places, Threads, Timed, Operating, Before
  <1>3. Called(CloseOp)'
    <2>1. ost[CloseOp] \in Operating
      BY <1>1 DEF OpGood, Places, Before
    <2> QED
      BY <1>1, <2>1 DEF OpGood, Called, One, Operating
  <1>4. Own(CloseOp)' = Own(CloseOp) /\ Tim(CloseOp)' = Tim(CloseOp) /\ Reg(CloseOp)' = Reg(CloseOp)
        /\ Kick(CloseOp)' = Kick(CloseOp) /\ Clo(CloseOp)' = Clo(CloseOp)
    BY DEF Own, Live, Tim, Reg, Kick, Clo, One
  <1>5. Holders(CloseOp)' = Holders(CloseOp)
    BY <1>1, <1>4, HoldersAre, HoldersNext
  <1>6. Refs(CloseOp)'
    BY <1>1, <1>5 DEF OpGood, Refs, Live
  <1>7. CloseOp \in Owners <=> CloseOp \in Owners'
    BY <1>1 DEF Owners, Live
  <1> QED
    BY <1>2, <1>3, <1>6, <1>7 DEF OpGood, Out

\* A data operation moves on; if it was the last one that a close waits for, the close
\* starts.
LEMMA DataMoves ==
  ASSUME Good, NEW o \in Data,
         UNCHANGED <<conf, hstate, openOp, closeOp, deferred, openOk, cstate, inClose>>,
         \A x \in Op : x # o /\ x # CloseOp => Untouched(x),
         ost'[CloseOp] = ost[CloseOp], reg'[CloseOp] = reg[CloseOp],
         at[o] # "new", at'[o] # "new", at'[o] \in Below => at[o] \in Below,
         outstanding' \in Nat, outstanding' <= outstanding,
         \/ /\ at'[CloseOp] = at[CloseOp] /\ closeStarted' = closeStarted
            /\ at[CloseOp] = "cached" => outstanding' > 0
         \/ at[CloseOp] = "cached" /\ at'[CloseOp] = "starting" /\ outstanding' = 0
  PROVE  Lifecycle' /\ Waiting' /\ DataOpen' /\ Entry'
  <1>1. /\ at'[OpenOp] = at[OpenOp] /\ ost'[OpenOp] = ost[OpenOp] /\ early'[OpenOp] = early[OpenOp]
        /\ reg'[OpenOp] = reg[OpenOp]
        /\ \A x \in Data : at'[x] \in Below => at[x] \in Below
    BY Kinds3 DEF Untouched
  <1>2. ~Idle /\ ~Idle'
    BY DEF Idle
  <1>3. Lifecycle'
    BY <1>1 DEF Good, Lifecycle
  <1>4. Waiting'
    BY <1>1 DEF Good, Waiting, Live
  <1>5. DataOpen'
    BY <1>1, <1>2 DEF Good, DataOpen
  <1>6. Entry'
    <2>1. outstanding \in Nat
      BY DEF Good, TypeOK
    <2>2. at'[CloseOp] \in {"callback", "done", "failed"} => outstanding' = 0
      BY <1>2, <2>1 DEF Good, Entry
    <2>3. at'[CloseOp] \in {"starting", "driver", "fired"} => outstanding' = 0
      BY <2>1 DEF Good, Entry
    <2>4. at'[CloseOp] = "cached" => outstanding' > 0
      BY <2>1
    <2>5. openOk
      BY <1>2 DEF Good, DataOpen
    <2> QED
      BY <1>1, <2>2, <2>3, <2>4, <2>5 DEF Good, Entry
  <1> QED
    BY <1>3, <1>4, <1>5, <1>6

\* ... seen by all operations and by the counts.
LEMMA DataStep ==
  ASSUME Good, NEW o \in Data,
         UNCHANGED <<conf, hstate, openOp, closeOp, deferred, openOk, cstate, inClose>>,
         \A x \in Op : x # o /\ x # CloseOp => Untouched(x),
         \/ /\ Untouched(CloseOp) /\ closeStarted' = closeStarted
            /\ at[CloseOp] = "cached" => outstanding' > 0
         \/ /\ at[CloseOp] = "cached" /\ at'[CloseOp] = "starting" /\ outstanding' = 0
            /\ ost'[CloseOp] = ost[CloseOp] /\ oref'[CloseOp] = oref[CloseOp]
            /\ timer'[CloseOp] = timer[CloseOp] /\ asking'[CloseOp] = asking[CloseOp]
            /\ reg'[CloseOp] = reg[CloseOp] /\ early'[CloseOp] = early[CloseOp]
            /\ late'[CloseOp] = late[CloseOp] /\ calls'[CloseOp] = calls[CloseOp],
         at[o] # "new", at'[o] # "new", at'[o] \in Below => at[o] \in Below,
         outstanding' = outstanding + One(o \in Out') - One(o \in Out),
         href' = href + One(o \in Owners') - One(o \in Owners),
         o \in Out' => o \in Out,
         OpGood(o)'
  PROVE  /\ OpInv' /\ Lifecycle' /\ Waiting' /\ DataOpen' /\ Entry' /\ Counts'
         /\ href' \in Nat /\ outstanding' \in Nat /\ (href' = 0 => hstate = "CLOSED")
  <1>1. /\ ost'[CloseOp] = ost[CloseOp] /\ reg'[CloseOp] = reg[CloseOp]
        /\ o \in Op /\ o # CloseOp /\ CloseOp \in Op
    BY Kinds3 DEF Untouched
  <1>2. /\ OpGood(CloseOp)' /\ (CloseOp \in Out <=> CloseOp \in Out')
        /\ (CloseOp \in Owners <=> CloseOp \in Owners')
    <2>1. CASE Untouched(CloseOp)
      BY <1>1, <2>1, UntouchedKeeps DEF Untouched, Out, Owners, Live
    <2>2. CASE ~Untouched(CloseOp)
      BY <2>2, CloseStarts
    <2> QED
      BY <2>1, <2>2
  <1>3. OpInv'
    <2>1. ASSUME NEW x \in Op, x # o, x # CloseOp PROVE OpGood(x)'
      BY <2>1, UntouchedKeeps
    <2> QED
      BY <1>2, <2>1 DEF OpInv, OpGood
  <1>4. \A x \in Op : x # o => (x \in Out <=> x \in Out') /\ (x \in Owners <=> x \in Owners')
    <2>1. ASSUME NEW x \in Op, x # o, x # CloseOp
          PROVE  (x \in Out <=> x \in Out') /\ (x \in Owners <=> x \in Owners')
      BY <2>1 DEF Untouched, Out, Owners, Live
    <2> QED
      BY <1>2, <2>1
  <1>5. /\ Counts /\ href \in Nat /\ outstanding \in Nat
        /\ One(hstate # "CLOSED") \in Int /\ One(hstate' # "CLOSED") = One(hstate # "CLOSED")
        /\ One(o \in Owners) \in Int /\ One(o \in Owners') \in Int
    BY DEF Good, TypeOK, One
  <1>6. href' = href + One(o \in Owners') - One(o \in Owners)
                   + One(hstate' # "CLOSED") - One(hstate # "CLOSED")
    BY <1>5
  <1>7. Counts' /\ href' \in Nat /\ outstanding' \in Nat /\ (href' = 0 => hstate = "CLOSED")
    BY <1>1, <1>4, <1>5, <1>6, CountsStep
  <1>8. outstanding' <= outstanding
    <2>1. One(o \in Out') \in {0, 1} /\ One(o \in Out) \in {0, 1} /\ One(o \in Out') <= One(o \in Out)
      BY DEF One
    <2> QED
      BY <1>5, <2>1
  <1>9. Lifecycle' /\ Waiting' /\ DataOpen' /\ Entry'
    BY <1>1, <1>7, <1>8, DataMoves DEF Untouched
  <1> QED
    BY <1>3, <1>7, <1>9

-----------------------------------------------------------------------------
(* What completion, the end of a callback and delivery do to the operation *)

\* A completed operation is called back now or when the user has answered.
LEMMA OpCompleted ==
  ASSUME Good, NEW o \in Op, Completed(o)
  PROVE  /\ OpGood(o)' /\ ost[o] \in Operating /\ ost'[o] = "FINISH_WAITING"
         /\ at[o] = "fired" /\ ~early[o] /\ early'[o] = early[o]
         /\ at'[o] \in {"callback"} \cup (IF o = CloseOp THEN {"done"} ELSE {"deliver"})
         /\ \A x \in Op : x # o => Untouched(x)
         /\ oref' \in [Op -> Nat] /\ timer' \in [Op -> {"none", "registered", "firing", "refused"}]
         /\ canceled' \in [Op -> BOOLEAN] /\ calls' \in [Op -> Nat]
         /\ ost' \in [Op -> OpStates]
         /\ at' \in [Op -> {"new", "unopened", "deferred", "toPass", "cached", "starting", "driver",
                            "fired", "callback", "closing", "deliver", "done", "failed"}]
  <1> USE DEF Completed, below
  <1> DEFINE fire == ost[o] # "TIMEOUT_PENDING"
             unreg == fire /\ timer[o] = "registered"
             places == {"new", "unopened", "deferred", "toPass", "cached", "starting", "driver",
                        "fired", "callback", "closing", "deliver", "done", "failed"}
  <1>1. /\ OpGood(o) /\ timer \in [Op -> {"none", "registered", "firing", "refused"}] /\ oref \in [Op -> Nat]
        /\ ost \in [Op -> OpStates] /\ at \in [Op -> places] /\ calls \in [Op -> Nat]
        /\ canceled \in [Op -> BOOLEAN]
    BY DEF Good, OpInv, OpGood, TypeOK, OpStates
  <1>2. ost[o] \in Operating /\ at[o] = "fired" /\ ~early[o]
    BY <1>1 DEF OpGood, Places, Threads, Before
  <1>3. (asking[o] <=> ~fire) /\ ~late[o] /\ calls[o] = 0
    <2>1. ost[o] = "OPERATING" <=> fire
      BY <1>2 DEF Operating
    <2>2. asking[o] <=> ~fire
      BY <1>1, <1>2, <2>1 DEF OpGood, Called
    <2>3. ~late[o] /\ calls[o] = 0
      BY <1>1, <1>2 DEF OpGood, Called, Operating, One
    <2> QED
      BY <2>2, <2>3
  <1>4. /\ ost'[o] = "FINISH_WAITING" /\ oref'[o] = oref[o] - One(unreg)
        /\ timer'[o] = (IF unreg THEN "none" ELSE timer[o])
        /\ calls'[o] = One(fire)
        /\ at'[o] = (IF fire THEN "callback" ELSE IF o = CloseOp THEN "done" ELSE "deliver")
    BY <1>1, <1>3 DEF Unregistered, One
  <1>5. \A x \in Op : x # o => Untouched(x)
    BY <1>1 DEF Untouched
  <1>6. Refs(o)' /\ oref'[o] \in Nat
    <2>1. oref[o] = Own(o) + Tim(o) + Reg(o) + Kick(o) + Clo(o)
      BY <1>1, HoldersAre DEF OpGood, Refs
    <2>2. Own(o) = 1 /\ Own(o)' = 1
      BY <1>2, <1>4 DEF Own, Live, One, Operating
    <2>3. Reg(o)' = Reg(o) /\ Clo(o)' = Clo(o) /\ Kick(o)' = Kick(o)
      BY <1>2, <1>4 DEF Reg, Clo, Kick, Counted, One
    <2>4. Tim(o)' = Tim(o) - One(unreg)
      BY <1>4 DEF Tim, One
    <2>5. /\ Holders(o)' = Own(o)' + Tim(o)' + Reg(o)' + Kick(o)' + Clo(o)'
          /\ Tim(o)' \in {0, 1}
      BY HoldersNext
    <2>6. Tim(o) \in {0, 1} /\ Reg(o) \in {0, 1, 2} /\ Kick(o) \in {0, 1} /\ Clo(o) \in {0, 1}
      BY HoldersAre
    <2>7. One(unreg) \in {0, 1}
      BY DEF One
    <2> HIDE DEF unreg
    <2>8. oref'[o] = Holders(o)' /\ oref'[o] > 0
      BY <1>4, <2>1, <2>2, <2>3, <2>4, <2>5, <2>6, <2>7
    <2> QED
      BY <2>1, <2>5, <2>6, <2>2, <2>3, <2>8 DEF Refs
  <1>7. Places(o)' /\ Threads(o)'
    BY <1>1, <1>2, <1>4 DEF OpGood, Places, Threads, Timed, Operating, Before, Counted
  <1>8. Called(o)'
    <2>1. asking'[o] = asking[o] /\ late'[o] = late[o]
      OBVIOUS
    <2>2. ~fire => timer[o] = "firing" /\ timer'[o] = "firing"
      BY <1>1, <1>3, <1>4 DEF OpGood, Called
    <2> QED
      BY <1>3, <1>4, <2>1, <2>2 DEF Called, One
  <1>9. /\ oref' \in [Op -> Nat] /\ calls' \in [Op -> Nat]
        /\ timer' \in [Op -> {"none", "registered", "firing", "refused"}]
    <2>1. oref' \in [Op -> Nat]
      BY <1>1, <1>6
    <2>2. calls' \in [Op -> Nat]
      BY <1>1 DEF One
    <2> QED
      BY <1>1, <2>1, <2>2
  <1>10. canceled' \in [Op -> BOOLEAN] /\ ost' \in [Op -> OpStates] /\ at' \in [Op -> places]
    BY <1>1 DEF OpStates
  <1> QED
    BY <1>2, <1>4, <1>5, <1>6, <1>7, <1>8, <1>9, <1>10 DEF OpGood

\* The callback has returned.
LEMMA OpReturned ==
  ASSUME Good, NEW o \in Op, Leave(o), oref' = [oref EXCEPT ![o] = oref[o] - 1],
         ost' = IF oref[o] - 1 = 0 THEN [[ost EXCEPT ![o] = "FINISHED"] EXCEPT ![o] = "FREED"]
                                   ELSE [ost EXCEPT ![o] = "FINISHED"],
         at'[o] = AfterCallback(o) \/ (o = OpenOp /\ ~late[o] /\ at'[o] = "closing"),
         conf' = conf, timer' = timer, asking' = asking, reg' = reg, early' = early, calls' = calls,
         inClose' = inClose
  PROVE  /\ OpGood(o)' /\ ost[o] = "FINISH_WAITING" /\ ~asking[o] /\ calls[o] = 1
         /\ at[o] \in {"callback", "deliver", "done"} /\ (late[o] <=> at[o] # "callback")
         /\ ost'[o] \in Over /\ oref' \in [Op -> Nat] /\ ost' \in [Op -> OpStates]
         /\ late' \in [Op -> BOOLEAN]
         /\ ost'[o] = "FREED" => at[o] = "done" \/ o = CloseOp
         /\ ost'[o] = "FREED" /\ o = CloseOp => ~inClose
         /\ oref[o] - 1 >= 0 /\ (oref[o] - 1 = 0 <=> ost'[o] = "FREED")
         /\ \A x \in Op : x # o => oref'[x] = oref[x] /\ ost'[x] = ost[x] /\ late'[x] = late[x]
  <1> DEFINE n == oref[o] - 1
  <1>1. /\ OpGood(o) /\ ost \in [Op -> OpStates] /\ oref \in [Op -> Nat] /\ href \in Nat
        /\ late \in [Op -> BOOLEAN] /\ [ost EXCEPT ![o] = "FINISHED"] \in [Op -> OpStates]
    BY DEF Good, OpInv, OpGood, TypeOK, OpStates
  <1>2. /\ oref'[o] = n /\ n \in Int
        /\ ost'[o] = IF n = 0 THEN "FREED" ELSE "FINISHED"
        /\ \A x \in Op : x # o => oref'[x] = oref[x] /\ ost'[x] = ost[x]
        /\ ost' \in [Op -> OpStates]
        /\ (n >= 0 => oref' \in [Op -> Nat])
    <2> DEFINE s == [ost EXCEPT ![o] = "FINISHED"]
    <2>1. /\ oref' = [oref EXCEPT ![o] = n] /\ ost' = (IF n = 0 THEN [s EXCEPT ![o] = "FREED"] ELSE s)
      OBVIOUS
    <2>2. n \in Int /\ s[o] = "FINISHED" /\ \A x \in Op : x # o => s[x] = ost[x]
      BY <1>1
    <2>3. s \in [Op -> OpStates]
      BY <1>1
    <2> HIDE DEF n, s
    <2>4. /\ oref'[o] = n /\ ost'[o] = (IF n = 0 THEN "FREED" ELSE s[o])
          /\ \A x \in Op : x # o => oref'[x] = oref[x] /\ ost'[x] = s[x]
          /\ ost' \in [Op -> OpStates] /\ (n >= 0 => oref' \in [Op -> Nat])
      BY <1>1, <2>1, <2>2, <2>3, Unref
    <2> QED
      BY <2>1, <2>2, <2>4
  <1>3. /\ ost[o] = "FINISH_WAITING" /\ ~asking[o] /\ calls[o] = 1
        /\ at[o] \in {"callback", "deliver", "done"} /\ (late[o] <=> at[o] # "callback")
        /\ (late[o] => timer[o] = "none")
    <2>1. at[o] = "callback" \/ late[o]
      BY DEF Leave, Returned
    <2>2. ost[o] = "FINISH_WAITING" /\ (late[o] => at[o] \in {"deliver", "done"} /\ timer[o] = "none")
      BY <1>1, <2>1 DEF OpGood, Places, Called
    <2>3. ~asking[o]
      BY <1>1, <2>1, <2>2 DEF OpGood, Called
    <2> QED
      BY <1>1, <2>1, <2>2, <2>3 DEF OpGood, Called, One
  <1>4. /\ at'[o] \in {"closing", "deliver", "done"}
        /\ at[o] # "callback" => at'[o] = at[o]
        /\ o # CloseOp /\ at[o] = "callback" => at'[o] \in {"closing", "deliver"}
        /\ o # OpenOp => at'[o] # "closing"
        /\ o = CloseOp => at'[o] = "done"
        /\ o # CloseOp => (at'[o] \in Counted <=> at[o] \in Counted)
    BY <1>1, <1>3, Kinds3 DEF AfterCallback, OpGood, Places, Counted
  <1>5. n = One(FALSE) + Tim(o)' + Reg(o)' + Kick(o)' + Clo(o)'
    <2>1. Tim(o)' = Tim(o) /\ Reg(o)' = Reg(o) /\ Clo(o)' = Clo(o)
      BY DEF Tim, Reg, Clo
    <2>2. Kick(o)' = Kick(o)
      BY <1>4 DEF Kick, One
    <2>3. Own(o) = 1
      BY <1>3 DEF Own, Live, One
    <2>4. oref[o] = Own(o) + Tim(o) + Reg(o) + Kick(o) + Clo(o)
      BY <1>1, HoldersAre DEF OpGood, Refs
    <2>5. Tim(o) \in Int /\ Reg(o) \in Int /\ Kick(o) \in Int /\ Clo(o) \in Int
      BY HoldersAre
    <2> QED
      BY <2>1, <2>2, <2>3, <2>4, <2>5 DEF One
  <1>6. /\ Refs(o)' /\ n \in Nat
        /\ n = 0 => /\ timer'[o] = "none" /\ reg'[o] = "none"
                    /\ o # CloseOp => at'[o] \notin Counted
                    /\ o = CloseOp => ~inClose'
    <2> DEFINE v == "FINISHED"
    <2>1. v \notin {"NONE", "FREED"} /\ ost'[o] = (IF n = 0 THEN "FREED" ELSE v)
      BY <1>2
    <2>2. One(v # "FINISHED" /\ ~(at'[o] = "failed" /\ reg'[o] = "none")) = One(FALSE)
      BY DEF One
    <2>3. n = One(v # "FINISHED" /\ ~(at'[o] = "failed" /\ reg'[o] = "none"))
                + Tim(o)' + Reg(o)' + Kick(o)' + Clo(o)'
      BY <1>5, <2>2
    <2> HIDE DEF n, v
    <2> QED
      BY <1>2, <2>1, <2>3, Released
  <1> HIDE DEF n
  <1>7. ost'[o] = "FREED" => at[o] = "done" \/ o = CloseOp
    BY <1>2, <1>3, <1>4, <1>6 DEF Counted
  <1>8. late'[o] = FALSE /\ late' \in [Op -> BOOLEAN] /\ \A x \in Op : x # o => late'[x] = late[x]
    BY <1>1 DEF Leave
  <1>9. Places(o)'
    BY <1>1, <1>2, <1>3, <1>4, <1>6 DEF OpGood, Places, Operating, Before, Counted
  <1>10. Threads(o)'
    BY <1>1, <1>2, <1>4, <1>6, <1>8, Kinds3 DEF OpGood, Threads, Timed
  <1>11. Called(o)'
    BY <1>2, <1>3, <1>4, <1>8 DEF Called, One
  <1>12. (n = 0 <=> ost'[o] = "FREED") /\ ost'[o] \in Over
    BY <1>2 DEF Over
  <1>13. oref[o] - 1 >= 0
    BY <1>6 DEF n
  <1>14. oref[o] - 1 = 0 <=> ost'[o] = "FREED"
    BY <1>12 DEF n
  <1>15. oref' \in [Op -> Nat]
    BY <1>2, <1>6
  <1>16. ost'[o] = "FREED" /\ o = CloseOp => ~inClose
    BY <1>6, <1>12
  <1> QED
    BY <1>2, <1>3, <1>6, <1>7, <1>8, <1>9, <1>10, <1>11, <1>12, <1>13, <1>14, <1>15, <1>16 DEF OpGood

\* The kickout has delivered the operation.
LEMMA OpDelivered ==
  ASSUME Good, NEW o \in Op, at[o] = "deliver", Release(o, 1, ost, 0, hstate),
         at'[o] = "done", early' = [early EXCEPT ![o] = FALSE],
         conf' = conf, timer' = timer, asking' = asking, reg' = reg, late' = late, calls' = calls,
         inClose' = inClose
  PROVE  /\ OpGood(o)' /\ o # CloseOp
         /\ Live(o) /\ oref' \in [Op -> Nat] /\ ost' \in [Op -> OpStates]
         /\ early' \in [Op -> BOOLEAN] /\ ~early'[o]
         /\ ost'[o] = ost[o] \/ (ost[o] = "FINISHED" /\ ost'[o] = "FREED")
         /\ href' = href - One(ost'[o] = "FREED")
         /\ \A x \in Op : x # o => oref'[x] = oref[x] /\ ost'[x] = ost[x] /\ early'[x] = early[x]
         /\ fault' = (fault \/ ~(href' >= 0 /\ (href' = 0 => hstate = "CLOSED")))
  <1> DEFINE n == oref[o] - 1
  <1>1. /\ OpGood(o) /\ ost \in [Op -> OpStates] /\ oref \in [Op -> Nat] /\ href \in Nat
        /\ early \in [Op -> BOOLEAN]
    BY DEF Good, OpInv, OpGood, TypeOK, OpStates
  <1>2. /\ oref'[o] = n /\ n \in Int
        /\ ost'[o] = IF n = 0 THEN "FREED" ELSE ost[o]
        /\ \A x \in Op : x # o => oref'[x] = oref[x] /\ ost'[x] = ost[x]
        /\ href' = href - 0 - One(n = 0)
        /\ ost' \in [Op -> OpStates]
        /\ (n >= 0 => oref' \in [Op -> Nat])
        /\ fault' = (fault \/ ~(n >= 0 /\ href' >= 0 /\ (href' = 0 => hstate = "CLOSED")))
    <2>1. /\ oref' = [oref EXCEPT ![o] = n] /\ ost' = (IF n = 0 THEN [ost EXCEPT ![o] = "FREED"] ELSE ost)
          /\ href' = href - 0 - One(n = 0)
          /\ fault' = (fault \/ ~(n >= 0 /\ href' >= 0 /\ (href' = 0 => hstate = "CLOSED")))
      BY DEF Release, ReleaseIf, Insist
    <2>2. n \in Int
      BY <1>1
    <2> HIDE DEF n
    <2>3. /\ oref'[o] = n /\ ost'[o] = (IF n = 0 THEN "FREED" ELSE ost[o])
          /\ \A x \in Op : x # o => oref'[x] = oref[x] /\ ost'[x] = ost[x]
          /\ ost' \in [Op -> OpStates] /\ (n >= 0 => oref' \in [Op -> Nat])
      BY <1>1, <2>1, <2>2, Unref
    <2> QED
      BY <2>1, <2>2, <2>3
  <1>3. ost[o] \in {"FINISH_WAITING", "FINISHED"} /\ o # CloseOp
    BY <1>1 DEF OpGood, Places, Operating, Before, OpStates
  <1>4. n = One(ost[o] # "FINISHED" /\ ~(at'[o] = "failed" /\ reg'[o] = "none"))
              + Tim(o)' + Reg(o)' + Kick(o)' + Clo(o)'
    <2>1. Tim(o)' = Tim(o) /\ Reg(o)' = Reg(o) /\ Clo(o)' = Clo(o)
      BY DEF Tim, Reg, Clo
    <2>2. Kick(o)' = 0 /\ Kick(o) = 1
      BY <1>3 DEF Kick, One, Counted
    <2>3. Own(o) = One(ost[o] # "FINISHED" /\ ~(at'[o] = "failed" /\ reg'[o] = "none"))
      BY <1>3 DEF Own, Live, One
    <2>4. oref[o] = Own(o) + Tim(o) + Reg(o) + Kick(o) + Clo(o)
      BY <1>1, HoldersAre DEF OpGood, Refs
    <2>5. Own(o) \in Int /\ Tim(o) \in Int /\ Reg(o) \in Int /\ Clo(o) \in Int
      BY HoldersAre
    <2> QED
      BY <2>1, <2>2, <2>3, <2>4, <2>5
  <1>5. /\ Refs(o)' /\ n \in Nat
        /\ n = 0 => ost[o] = "FINISHED" /\ timer'[o] = "none" /\ reg'[o] = "none"
    <2>1. ost[o] \notin {"NONE", "FREED"}
      BY <1>3
    <2> HIDE DEF n
    <2> QED
      BY <1>2, <1>4, <2>1, Released
  <1> HIDE DEF n
  <1>6. early' \in [Op -> BOOLEAN] /\ early'[o] = FALSE /\ \A x \in Op : x # o => early'[x] = early[x]
    BY <1>1
  <1>7. Places(o)'
    BY <1>1, <1>2, <1>3, <1>5 DEF OpGood, Places, Operating, Before, Counted
  <1>8. Threads(o)'
    BY <1>1, <1>2, <1>5, <1>6 DEF OpGood, Threads, Timed
  <1>9. Called(o)'
    BY <1>1, <1>2, <1>3, <1>5 DEF OpGood, Called, One
  <1>10. (n = 0 <=> ost'[o] = "FREED") /\ Live(o)
    BY <1>2, <1>3 DEF Live
  <1>11. href' = href - One(ost'[o] = "FREED")
    <2>1. One(n = 0) = One(ost'[o] = "FREED")
      BY <1>10
    <2>2. One(n = 0) \in Int
      BY DEF One
    <2> QED
      BY <1>1, <1>2, <2>1, <2>2
  <1>12. fault' = (fault \/ ~(href' >= 0 /\ (href' = 0 => hstate = "CLOSED")))
    <2>1. n >= 0
      BY <1>5
    <2> QED
      BY <1>2, <2>1
  <1>13. oref' \in [Op -> Nat]
    BY <1>2, <1>5
  <1>14. ost'[o] = ost[o] \/ (ost[o] = "FINISHED" /\ ost'[o] = "FREED")
    BY <1>2, <1>5
  <1> QED
    BY <1>2, <1>3, <1>5, <1>6, <1>7, <1>8, <1>9, <1>10, <1>11, <1>12, <1>13, <1>14 DEF OpGood

-----------------------------------------------------------------------------
(* The actions of data operations *)

PlaceSet == {"new", "unopened", "deferred", "toPass", "cached", "starting", "driver",
             "fired", "callback", "closing", "deliver", "done", "failed"}

LEMMA OutPositive ==
  ASSUME Good, NEW o \in Out
  PROVE  outstanding > 0 /\ outstanding \in Nat /\ outstanding - 1 \in Nat
  <1>1. Out \in SUBSET Op /\ outstanding = Cardinality(Out)
    BY DEF Out, Good, Counts
  <1>2. Cardinality(Out) > 0 /\ Cardinality(Out) \in Nat
    BY <1>1, OpCard
  <1> QED
    BY <1>1, <1>2

\* The driver has finished an operation.
LEMMA OpFired ==
  ASSUME Good, NEW o \in Op, at[o] = "driver", at'[o] = "fired", conf' = conf,
         UNCHANGED <<ost, oref, timer, asking, reg, early, late, calls, inClose>>
  PROVE  OpGood(o)' /\ (o \in Out' <=> o \in Out) /\ (o \in Owners' <=> o \in Owners)
  <1>1. OpGood(o)
    BY DEF Good, OpInv, OpGood
  <1>2. Places(o)' /\ Threads(o)'
    BY <1>1 DEF OpGood, Places, Threads, Timed, Operating, Before, Counted
  <1>3. Called(o)'
    <2>1. ost[o] \in Operating
      BY <1>1 DEF OpGood, Places, Before
    <2> QED
      BY <1>1, <2>1 DEF OpGood, Called, Operating, One
  <1>4. Own(o)' = Own(o) /\ Tim(o)' = Tim(o) /\ Reg(o)' = Reg(o) /\ Kick(o)' = Kick(o) /\ Clo(o)' = Clo(o)
    BY DEF Own, Live, Tim, Reg, Kick, Clo, Counted, One
  <1>5. Holders(o)' = Holders(o)
    BY <1>4, HoldersAre, HoldersNext
  <1>6. Refs(o)'
    BY <1>1, <1>5 DEF OpGood, Refs, Live
  <1> QED
    BY <1>2, <1>3, <1>6 DEF OpGood, Out, Owners, Live, Counted

LEMMA KeepFinishedData ==
  ASSUME Good, NEW o \in Data, FinishedData(o)
  PROVE  Good'
  <1> USE DEF FinishedData, refs, links, timing, below
  <1>1. /\ at \in [Op -> PlaceSet] /\ o \in Op /\ o # CloseOp /\ CloseOp \in Op
        /\ href \in Nat /\ outstanding \in Nat
    BY Kinds3 DEF Good, TypeOK, PlaceSet
  <1>2. at'[o] = "fired" /\ at[o] = "driver" /\ \A x \in Op : x # o => at'[x] = at[x]
    BY <1>1
  <1>3. \A x \in Op : x # o => Untouched(x)
    BY <1>2 DEF Untouched
  <1>4. OpGood(o)' /\ (o \in Out' <=> o \in Out) /\ (o \in Owners' <=> o \in Owners)
    BY <1>1, <1>2, OpFired
  <1>5. at[CloseOp] = "cached" => outstanding' > 0
    BY DEF Good, Entry
  <1>6. /\ outstanding' = outstanding + One(o \in Out') - One(o \in Out)
        /\ href' = href + One(o \in Owners') - One(o \in Owners)
    BY <1>1, <1>4 DEF One
  <1>7. /\ OpInv' /\ Lifecycle' /\ Waiting' /\ DataOpen' /\ Entry' /\ Counts'
    BY <1>1, <1>2, <1>3, <1>4, <1>5, <1>6, DataStep DEF Below
  <1>8. TypeOK' /\ fault' = FALSE
    BY <1>1 DEF Good, TypeOK, PlaceSet
  <1> QED
    BY <1>7, <1>8 DEF Good

LEMMA KeepDataCallback ==
  ASSUME Good, NEW o \in Data, HandleCallback(o)
  PROVE  Good'
  <1> USE DEF HandleCallback, below
  <1>1. /\ o \in Op /\ o # CloseOp /\ o # OpenOp /\ CloseOp \in Op
        /\ href \in Nat /\ outstanding \in Nat /\ closeOp \in BOOLEAN
    BY Kinds3 DEF Good, TypeOK
  <1>2. /\ OpGood(o)' /\ ost[o] \in Operating /\ ost'[o] = "FINISH_WAITING"
        /\ at[o] = "fired" /\ ~early[o] /\ early'[o] = early[o]
        /\ at'[o] \in {"callback", "deliver"}
        /\ \A x \in Op : x # o => Untouched(x)
        /\ oref' \in [Op -> Nat] /\ timer' \in [Op -> {"none", "registered", "firing", "refused"}]
        /\ canceled' \in [Op -> BOOLEAN] /\ calls' \in [Op -> Nat]
        /\ ost' \in [Op -> OpStates]
        /\ at' \in [Op -> PlaceSet]
    BY <1>1, OpCompleted DEF PlaceSet
  <1>3. hstate' = hstate /\ closeOp' = closeOp
    BY <1>1
  <1>4. UNCHANGED <<conf, href, openOp, asking, reg, early, late, cstate, outstanding, closeStarted,
                    inClose, openOk, deferred>>
    BY DEF Completed
  <1>5. (o \in Out' <=> o \in Out) /\ (o \in Owners' <=> o \in Owners)
    BY <1>1, <1>2, <1>4 DEF Out, Owners, Counted, Live, Operating
  <1>6. at[CloseOp] = "cached" => outstanding' > 0
    BY <1>4 DEF Good, Entry
  <1>7. /\ outstanding' = outstanding + One(o \in Out') - One(o \in Out)
        /\ href' = href + One(o \in Owners') - One(o \in Owners)
    BY <1>1, <1>4, <1>5 DEF One
  <1>8. /\ OpInv' /\ Lifecycle' /\ Waiting' /\ DataOpen' /\ Entry' /\ Counts'
    <2>1. at[o] # "new" /\ at'[o] # "new" /\ (at'[o] \in Below => at[o] \in Below)
      BY <1>2 DEF Below
    <2> QED
      BY <1>1, <1>2, <1>3, <1>4, <1>5, <1>6, <1>7, <2>1, DataStep
  <1>9. TypeOK' /\ fault' = FALSE
    <2>1. hstate \in {"OPEN", "CLOSING"}
      BY <1>2 DEF Good, DataOpen, Below
    <2>2. fault' = FALSE
      BY <1>1, <2>1 DEF Good, Insist
    <2> QED
      BY <1>2, <1>3, <1>4, <2>2 DEF Good, TypeOK, PlaceSet, OpStates
  <1> QED
    BY <1>8, <1>9 DEF Good

LEMMA KeepDataKickoutEnds ==
  ASSUME Good, NEW o \in Data, DataKickoutEnds(o)
  PROVE  Good'
  <1> USE DEF DataKickoutEnds, links, timing, below
  <1>1. /\ o \in Op /\ o # CloseOp /\ o # OpenOp /\ CloseOp \in Op
        /\ href \in Nat /\ outstanding \in Nat /\ at \in [Op -> PlaceSet]
    BY Kinds3 DEF Good, TypeOK, PlaceSet
  <1>2. at'[o] = AfterCallback(o) /\ \A x \in Op : x # o => at'[x] = at[x]
    BY <1>1
  <1>3. /\ oref' = [oref EXCEPT ![o] = oref[o] - 1]
        /\ ost' = IF oref[o] - 1 = 0 THEN [[ost EXCEPT ![o] = "FINISHED"] EXCEPT ![o] = "FREED"]
                                     ELSE [ost EXCEPT ![o] = "FINISHED"]
        /\ href' = href - 0 - One(oref[o] - 1 = 0)
        /\ fault' = (fault \/ ~(oref[o] - 1 >= 0 /\ href' >= 0 /\ (href' = 0 => hstate = "CLOSED")))
    BY DEF Release, ReleaseIf, Insist
  <1>4. /\ OpGood(o)' /\ ost[o] = "FINISH_WAITING"
        /\ at[o] \in {"callback", "deliver", "done"} /\ (late[o] <=> at[o] # "callback")
        /\ ost'[o] \in Over /\ oref' \in [Op -> Nat] /\ ost' \in [Op -> OpStates]
        /\ late' \in [Op -> BOOLEAN]
        /\ oref[o] - 1 >= 0 /\ (oref[o] - 1 = 0 <=> ost'[o] = "FREED")
        /\ \A x \in Op : x # o => oref'[x] = oref[x] /\ ost'[x] = ost[x] /\ late'[x] = late[x]
    BY <1>1, <1>2, <1>3, OpReturned
  <1>5. at'[o] \in {"deliver", "done"} /\ (at'[o] = "done" <=> at[o] = "done")
    BY <1>1, <1>2, <1>4 DEF AfterCallback
  <1>6. (o \in Out' <=> o \in Out) /\ o \in Owners /\ (o \in Owners' <=> ost'[o] # "FREED")
    BY <1>1, <1>4, <1>5 DEF Out, Owners, Counted, Live, Over
  <1>7. at[CloseOp] = "cached" => outstanding' > 0
    BY DEF Good, Entry
  <1>8. /\ outstanding' = outstanding + One(o \in Out') - One(o \in Out)
        /\ href' = href + One(o \in Owners') - One(o \in Owners)
    BY <1>1, <1>3, <1>4, <1>6 DEF One
  <1>9. \A x \in Op : x # o => Untouched(x)
    BY <1>2, <1>4 DEF Untouched
  <1>10. /\ OpInv' /\ Lifecycle' /\ Waiting' /\ DataOpen' /\ Entry' /\ Counts'
         /\ href' \in Nat /\ (href' = 0 => hstate = "CLOSED")
    <2>1. at[o] # "new" /\ at'[o] # "new" /\ (at'[o] \in Below => at[o] \in Below)
      BY <1>4, <1>5 DEF Below
    <2> QED
      BY <1>1, <1>4, <1>6, <1>7, <1>8, <1>9, <2>1, DataStep
  <1>11. TypeOK' /\ fault' = FALSE
    <2>1. href' >= 0
      BY <1>10
    <2>2. fault' = FALSE
      BY <1>3, <1>4, <1>10, <2>1 DEF Good
    <2>3. at' \in [Op -> PlaceSet]
      BY <1>1, <1>5 DEF PlaceSet
    <2> QED
      BY <1>4, <1>10, <2>2, <2>3 DEF Good, TypeOK, PlaceSet, OpStates
  <1> QED
    BY <1>10, <1>11 DEF Good

\* The delivery of a data operation lets a close go when it is the last one.
LEMMA DataDelivered ==
  ASSUME Good, NEW o \in Data, o \in Out, NEW a \in [Op -> PlaceSet], ContextDelivered(o, a),
         a[CloseOp] = at[CloseOp]
  PROVE  /\ outstanding' = outstanding - 1 /\ UNCHANGED <<cstate, inClose, openOk>>
         /\ \A x \in Op : x # CloseOp => at'[x] = a[x]
         /\ at' \in [Op -> PlaceSet] /\ closeStarted' \in BOOLEAN
         /\ \/ /\ at'[CloseOp] = at[CloseOp] /\ closeStarted' = closeStarted
               /\ at[CloseOp] = "cached" => outstanding' > 0
            \/ at[CloseOp] = "cached" /\ at'[CloseOp] = "starting" /\ outstanding' = 0
  <1> DEFINE n == outstanding - 1
             start == BarrierReached(n)
  <1>1. o # OpenOp /\ o # CloseOp /\ CloseOp \in Op /\ closeStarted \in BOOLEAN
    BY Kinds3 DEF Good, TypeOK
  <1>2. /\ outstanding' = n /\ cstate' = cstate /\ closeStarted' = (closeStarted \/ start)
        /\ at' = [a EXCEPT ![CloseOp] = IF start THEN "starting" ELSE @]
        /\ UNCHANGED <<inClose, openOk>>
    BY <1>1 DEF ContextDelivered
  <1>3. n \in Nat /\ outstanding > 0
    BY OutPositive
  <1>4. start => at[CloseOp] = "cached" /\ n = 0
    BY DEF BarrierReached
  <1>5. at[CloseOp] = "cached" /\ n = 0 => start
    <2>1. openOk
      BY DEF Good, DataOpen, Idle, Out, Counted
    <2> QED
      BY <2>1 DEF BarrierReached, Good, Entry
  <1> HIDE DEF n, start
  <1>6. /\ \A x \in Op : x # CloseOp => at'[x] = a[x]
        /\ at'[CloseOp] = IF start THEN "starting" ELSE at[CloseOp]
        /\ at' \in [Op -> PlaceSet]
    BY <1>1, <1>2 DEF PlaceSet
  <1>7. CASE start
    <2>1. closeStarted' \in BOOLEAN
      BY <1>1, <1>2
    <2> QED
      BY <1>2, <1>4, <1>6, <1>7, <2>1 DEF n
  <1>8. CASE ~start
    <2>1. closeStarted' = closeStarted
      BY <1>1, <1>2, <1>8
    <2>2. at[CloseOp] = "cached" => n > 0
      BY <1>3, <1>5, <1>8
    <2> QED
      BY <1>1, <1>2, <1>6, <1>8, <2>1, <2>2 DEF n
  <1> QED
    BY <1>7, <1>8

LEMMA KeepDataDelivered ==
  ASSUME Good, NEW o \in Data, Delivered(o)
  PROVE  Good'
  <1> USE DEF Delivered, links, timing
  <1>1. /\ o \in Op /\ o # CloseOp /\ o # OpenOp /\ CloseOp \in Op
        /\ href \in Nat /\ outstanding \in Nat /\ at \in [Op -> PlaceSet]
        /\ early \in [Op -> BOOLEAN]
    BY Kinds3 DEF Good, TypeOK, PlaceSet
  <1> DEFINE a == [at EXCEPT ![o] = "done"]
  <1>2. a \in [Op -> PlaceSet] /\ a[o] = "done" /\ \A x \in Op : x # o => a[x] = at[x]
    BY <1>1 DEF PlaceSet
  <1>3. o \in Out <=> ~early[o]
    BY <1>1 DEF Out, Counted
  <1>4. /\ outstanding' = outstanding - One(~early[o]) /\ UNCHANGED <<cstate, inClose, openOk>>
        /\ at'[o] = "done" /\ \A x \in Op : x # CloseOp => at'[x] = a[x]
        /\ at' \in [Op -> PlaceSet] /\ closeStarted' \in BOOLEAN
        /\ \/ /\ at'[CloseOp] = at[CloseOp] /\ closeStarted' = closeStarted
              /\ at[CloseOp] = "cached" => outstanding' > 0
           \/ at[CloseOp] = "cached" /\ at'[CloseOp] = "starting" /\ outstanding' = 0
    <2>1. CASE early[o]
      <3>1. at' = a /\ UNCHANGED below
        BY <2>1
      <3>2. closeStarted \in BOOLEAN /\ (at[CloseOp] = "cached" => outstanding > 0)
        BY DEF Good, TypeOK, Entry
      <3>3. outstanding' = outstanding - One(~early[o])
        BY <1>1, <2>1, <3>1 DEF below, One
      <3> HIDE DEF a
      <3> QED
        BY <1>1, <1>2, <3>1, <3>2, <3>3 DEF below
    <2>2. CASE ~early[o]
      <3>1. ContextDelivered(o, a)
        BY <2>2
      <3> HIDE DEF a
      <3>2. /\ outstanding' = outstanding - 1 /\ UNCHANGED <<cstate, inClose, openOk>>
            /\ \A x \in Op : x # CloseOp => at'[x] = a[x]
            /\ at' \in [Op -> PlaceSet] /\ closeStarted' \in BOOLEAN
            /\ \/ /\ at'[CloseOp] = at[CloseOp] /\ closeStarted' = closeStarted
                  /\ at[CloseOp] = "cached" => outstanding' > 0
               \/ at[CloseOp] = "cached" /\ at'[CloseOp] = "starting" /\ outstanding' = 0
        BY <1>1, <1>2, <1>3, <2>2, <3>1, DataDelivered
      <3>3. outstanding' = outstanding - One(~early[o])
        BY <2>2, <3>2 DEF One
      <3> QED
        BY <1>1, <1>2, <3>2, <3>3
    <2> QED
      BY <2>1, <2>2
  <1> HIDE DEF a
  <1>5. /\ OpGood(o)' /\ Live(o) /\ oref' \in [Op -> Nat] /\ ost' \in [Op -> OpStates]
        /\ early' \in [Op -> BOOLEAN] /\ ~early'[o]
        /\ ost'[o] = ost[o] \/ (ost[o] = "FINISHED" /\ ost'[o] = "FREED")
        /\ href' = href - One(ost'[o] = "FREED")
        /\ \A x \in Op : x # o => oref'[x] = oref[x] /\ ost'[x] = ost[x] /\ early'[x] = early[x]
        /\ fault' = (fault \/ ~(href' >= 0 /\ (href' = 0 => hstate = "CLOSED")))
    BY <1>1, <1>4, OpDelivered
  <1>6. o \notin Out' /\ o \in Owners /\ (o \in Owners' <=> ost'[o] # "FREED")
    BY <1>1, <1>4, <1>5 DEF Out, Owners, Counted, Live
  <1>7. /\ outstanding' = outstanding + One(o \in Out') - One(o \in Out)
        /\ href' = href + One(o \in Owners') - One(o \in Owners)
    <2>1. outstanding' = outstanding + One(o \in Out') - One(o \in Out)
      BY <1>1, <1>3, <1>4, <1>6 DEF One
    <2>2. href' = href + One(o \in Owners') - One(o \in Owners)
      BY <1>1, <1>5, <1>6 DEF One
    <2> QED
      BY <2>1, <2>2
  <1>8. \A x \in Op : x # o /\ x # CloseOp => Untouched(x)
    BY <1>2, <1>4, <1>5 DEF Untouched
  <1>9. /\ OpInv' /\ Lifecycle' /\ Waiting' /\ DataOpen' /\ Entry' /\ Counts'
        /\ href' \in Nat /\ outstanding' \in Nat /\ (href' = 0 => hstate = "CLOSED")
    <2>1. at[o] # "new" /\ at'[o] # "new" /\ (at'[o] \in Below => at[o] \in Below)
      BY <1>4 DEF Below
    <2>2. /\ ost'[CloseOp] = ost[CloseOp] /\ oref'[CloseOp] = oref[CloseOp]
          /\ timer'[CloseOp] = timer[CloseOp] /\ asking'[CloseOp] = asking[CloseOp]
          /\ reg'[CloseOp] = reg[CloseOp] /\ early'[CloseOp] = early[CloseOp]
          /\ late'[CloseOp] = late[CloseOp] /\ calls'[CloseOp] = calls[CloseOp]
          /\ at'[CloseOp] = at[CloseOp] => Untouched(CloseOp)
      BY <1>1, <1>4, <1>5 DEF Untouched
    <2>3. \/ /\ Untouched(CloseOp) /\ closeStarted' = closeStarted
             /\ at[CloseOp] = "cached" => outstanding' > 0
          \/ at[CloseOp] = "cached" /\ at'[CloseOp] = "starting" /\ outstanding' = 0
      BY <1>4, <2>2
    <2> QED
      BY <1>1, <1>4, <1>5, <1>6, <1>7, <1>8, <2>1, <2>2, <2>3, DataStep
  <1>10. TypeOK' /\ fault' = FALSE
    <2>1. href' >= 0
      BY <1>9
    <2>2. fault' = FALSE
      BY <1>5, <1>9, <2>1 DEF Good
    <2> QED
      BY <1>4, <1>5, <1>9, <2>2 DEF Good, TypeOK, PlaceSet, OpStates
  <1> QED
    BY <1>9, <1>10 DEF Good

\* The delivery that a blocking callback triggers.
LEMMA OpEarly ==
  ASSUME Good, NEW o \in Op, DeliveredEarly(o), at'[o] = at[o], inClose' = inClose
  PROVE  /\ OpGood(o)' /\ o \in Out /\ o \notin Out' /\ (o \in Owners' <=> o \in Owners)
         /\ early' \in [Op -> BOOLEAN] /\ \A x \in Op : x # o => early'[x] = early[x]
  <1> USE DEF DeliveredEarly, refs, links, timing
  <1>1. OpGood(o) /\ early \in [Op -> BOOLEAN]
    BY DEF Good, OpInv, OpGood, TypeOK
  <1>2. early'[o] = TRUE /\ early' \in [Op -> BOOLEAN] /\ \A x \in Op : x # o => early'[x] = early[x]
    BY <1>1
  <1>3. Places(o)' /\ Threads(o)' /\ Called(o)'
    <2>1. Places(o)' /\ Called(o)'
      BY <1>1 DEF OpGood, Places, Called
    <2>2. Threads(o)'
      BY <1>1, <1>2 DEF OpGood, Threads, Timed
    <2> QED
      BY <2>1, <2>2
  <1>4. Refs(o)'
    BY <1>1, RefsStay DEF OpGood
  <1> QED
    BY <1>2, <1>3, <1>4 DEF OpGood, Out, Owners, Live, Counted

LEMMA KeepDataEarly ==
  ASSUME Good, NEW o \in Data, DeliveredEarly(o)
  PROVE  Good'
  <1> USE DEF DeliveredEarly, refs, links, timing
  <1>1. /\ o \in Op /\ o # CloseOp /\ o # OpenOp /\ CloseOp \in Op
        /\ href \in Nat /\ outstanding \in Nat /\ at \in [Op -> PlaceSet]
    BY Kinds3 DEF Good, TypeOK, PlaceSet
  <1>2. o \in Out
    BY <1>1 DEF Out, Counted
  <1>3. /\ outstanding' = outstanding - 1 /\ UNCHANGED <<cstate, inClose, openOk>>
        /\ \A x \in Op : x # CloseOp => at'[x] = at[x]
        /\ at' \in [Op -> PlaceSet] /\ closeStarted' \in BOOLEAN
        /\ \/ /\ at'[CloseOp] = at[CloseOp] /\ closeStarted' = closeStarted
              /\ at[CloseOp] = "cached" => outstanding' > 0
           \/ at[CloseOp] = "cached" /\ at'[CloseOp] = "starting" /\ outstanding' = 0
    BY <1>1, <1>2, DataDelivered
  <1>4. /\ OpGood(o)' /\ o \in Out /\ o \notin Out' /\ (o \in Owners' <=> o \in Owners)
        /\ early' \in [Op -> BOOLEAN] /\ \A x \in Op : x # o => early'[x] = early[x]
    BY <1>1, <1>3, OpEarly
  <1>5. /\ outstanding' = outstanding + One(o \in Out') - One(o \in Out)
        /\ href' = href + One(o \in Owners') - One(o \in Owners)
    BY <1>1, <1>3, <1>4 DEF One
  <1>6. \A x \in Op : x # o /\ x # CloseOp => Untouched(x)
    BY <1>3, <1>4 DEF Untouched
  <1>7. /\ OpInv' /\ Lifecycle' /\ Waiting' /\ DataOpen' /\ Entry' /\ Counts'
        /\ href' \in Nat /\ outstanding' \in Nat
    <2>1. at[o] # "new" /\ at'[o] # "new" /\ (at'[o] \in Below => at[o] \in Below)
      BY <1>1, <1>3 DEF Below
    <2>2. /\ early'[CloseOp] = early[CloseOp]
          /\ at'[CloseOp] = at[CloseOp] => Untouched(CloseOp)
      BY <1>1, <1>3, <1>4 DEF Untouched
    <2>3. \/ /\ Untouched(CloseOp) /\ closeStarted' = closeStarted
             /\ at[CloseOp] = "cached" => outstanding' > 0
          \/ at[CloseOp] = "cached" /\ at'[CloseOp] = "starting" /\ outstanding' = 0
      BY <1>3, <2>2
    <2> QED
      BY <1>3, <1>4, <1>5, <1>6, <2>1, <2>2, <2>3, DataStep
  <1>8. TypeOK' /\ fault' = FALSE
    BY <1>3, <1>4, <1>7 DEF Good, TypeOK, PlaceSet
  <1> QED
    BY <1>7, <1>8 DEF Good

LEMMA KeepPassFails ==
  ASSUME Safe, Good, NEW o \in Op, PassFails(o)
  PROVE  Good'
  <1> USE DEF PassFails, links, timing
  <1>1. /\ o # CloseOp /\ o # OpenOp /\ o \in Data /\ CloseOp \in Op /\ ~Timed(o)
        /\ Kind(o) \in conf.fails
    <2>1. Kind(o) # "open" /\ Kind(o) \notin conf.timed
      BY DEF Safe
    <2> QED
      BY <2>1, Kinds3 DEF Timed
  <1>2. /\ href \in Nat /\ outstanding \in Nat /\ at \in [Op -> PlaceSet]
        /\ oref \in [Op -> Nat] /\ ost \in [Op -> OpStates] /\ OpGood(o)
        /\ reg \in [Op -> {"none", "inPass", "returned", "failed"}]
    BY DEF Good, TypeOK, PlaceSet, OpStates, OpInv, OpGood
  <1>3. ost[o] = "OPERATING" /\ timer[o] = "none" /\ ~asking[o] /\ ~early[o] /\ calls[o] = 0 /\ ~late[o]
    <2>1. ost[o] \in Operating /\ timer[o] = "none" /\ ~early[o]
      BY <1>1, <1>2 DEF OpGood, Places, Threads, Before
    <2>2. ~asking[o] /\ ost[o] = "OPERATING"
      BY <1>2, <2>1 DEF OpGood, Called, Operating
    <2> QED
      BY <1>2, <2>1, <2>2 DEF OpGood, Called, One
  <1>4. oref[o] = 4
    <2>1. oref[o] = Own(o) + Tim(o) + Reg(o) + Kick(o) + Clo(o)
      BY <1>2, HoldersAre DEF OpGood, Refs
    <2>2. Own(o) = 1 /\ Tim(o) = 0 /\ Reg(o) = 2 /\ Kick(o) = 1 /\ Clo(o) = 0
      BY <1>1, <1>3 DEF Own, Live, Tim, Reg, Kick, Counted, Clo, One
    <2> QED
      BY <2>1, <2>2
  <1>5. /\ oref' = [oref EXCEPT ![o] = 2] /\ ost' = ost /\ href' = href
        /\ fault' = (fault \/ ~(href' >= 0 /\ (href' = 0 => hstate = "CLOSED")))
    <2> DEFINE n == oref[o] - 2
    <2>1. n = 2
      BY <1>4
    <2>2. /\ oref' = [oref EXCEPT ![o] = n] /\ ost' = (IF n = 0 THEN [ost EXCEPT ![o] = "FREED"] ELSE ost)
          /\ href' = href - 0 - One(n = 0)
          /\ fault' = (fault \/ ~(n >= 0 /\ href' >= 0 /\ (href' = 0 => hstate = "CLOSED")))
      BY DEF Release, ReleaseIf, Insist
    <2> HIDE DEF n
    <2>3. oref' = [oref EXCEPT ![o] = 2] /\ ost' = ost /\ href' = href
      BY <1>2, <2>1, <2>2 DEF One
    <2>4. n >= 0
      BY <2>1
    <2> QED
      BY <2>2, <2>3, <2>4
  <1>6. /\ at'[o] = "failed" /\ reg'[o] = "failed" /\ oref'[o] = 2 /\ oref' \in [Op -> Nat]
        /\ at' \in [Op -> PlaceSet] /\ reg' \in [Op -> {"none", "inPass", "returned", "failed"}]
        /\ \A x \in Op : x # o => reg'[x] = reg[x] /\ oref'[x] = oref[x]
        /\ \A x \in Op : x # o /\ x # CloseOp => at'[x] = at[x]
    BY <1>1, <1>2, <1>5 DEF PlaceSet
  <1>7. OpGood(o)'
    <2>1. Places(o)' /\ Threads(o)'
      BY <1>1, <1>3, <1>5, <1>6, Kinds3 DEF Places, Threads, Timed, Operating, Before, Kind
    <2>2. Called(o)'
      BY <1>3, <1>5, <1>6 DEF Called, One
    <2>3. Own(o)' = 1 /\ Tim(o)' = 0 /\ Reg(o)' = 1 /\ Kick(o)' = 0 /\ Clo(o)' = 0
      BY <1>1, <1>3, <1>5, <1>6 DEF Own, Live, Tim, Reg, Kick, Counted, Clo, One
    <2>4. Refs(o)'
      BY <1>6, <2>3, HoldersNext DEF Refs
    <2> QED
      BY <2>1, <2>2, <2>4 DEF OpGood
  <1>8. o \in Out /\ o \notin Out' /\ o \in Owners /\ o \in Owners'
    BY <1>1, <1>3, <1>5, <1>6 DEF Out, Owners, Counted, Live
  <1>9. outstanding' = outstanding - 1 /\ outstanding - 1 \in Nat /\ outstanding > 0
    BY <1>8, OutPositive
  <1>10. /\ outstanding' = outstanding + One(o \in Out') - One(o \in Out)
         /\ href' = href + One(o \in Owners') - One(o \in Owners)
    BY <1>2, <1>5, <1>8, <1>9 DEF One
  <1> DEFINE close == outstanding - 1 = 0 /\ cstate = "CLOSING" /\ ~closeStarted
  <1>11. close <=> outstanding - 1 = 0 /\ at[CloseOp] = "cached"
    <2>1. openOk /\ ~Idle
      BY <1>1 DEF Good, DataOpen, Idle
    <2>2. at[CloseOp] = "cached" => cstate = "CLOSING" /\ ~closeStarted
      BY <2>1 DEF Good, Entry
    <2>3. cstate = "CLOSING" => at[CloseOp] = "cached"
      <3>1. at[CloseOp] \in PlaceSet /\ at[CloseOp] \notin {"closing", "deliver"}
        BY <1>1, <1>2, Kinds3 DEF Good, OpInv, Places
      <3> QED
        BY <1>9, <2>1, <3>1 DEF Good, Entry, PlaceSet
    <2> QED
      BY <2>2, <2>3
  <1>12. at'[CloseOp] = IF close THEN "starting" ELSE at[CloseOp]
    BY <1>1, <1>2
  <1> HIDE DEF close
  <1>13. \A x \in Op : x # o /\ x # CloseOp => Untouched(x)
    BY <1>5, <1>6 DEF Untouched
  <1>14. /\ OpInv' /\ Lifecycle' /\ Waiting' /\ DataOpen' /\ Entry' /\ Counts'
         /\ href' \in Nat /\ outstanding' \in Nat /\ (href' = 0 => hstate = "CLOSED")
    <2>1. at[o] # "new" /\ at'[o] # "new" /\ (at'[o] \in Below => at[o] \in Below)
      BY <1>6 DEF Below
    <2>2. /\ ost'[CloseOp] = ost[CloseOp] /\ oref'[CloseOp] = oref[CloseOp]
          /\ reg'[CloseOp] = reg[CloseOp]
          /\ at'[CloseOp] = at[CloseOp] => Untouched(CloseOp)
      BY <1>1, <1>5, <1>6 DEF Untouched
    <2>3. \/ /\ Untouched(CloseOp) /\ closeStarted' = closeStarted
             /\ at[CloseOp] = "cached" => outstanding' > 0
          \/ at[CloseOp] = "cached" /\ at'[CloseOp] = "starting" /\ outstanding' = 0
      <3>1. CASE close
        BY <1>9, <1>11, <1>12, <3>1
      <3>2. CASE ~close
        <4>1. at'[CloseOp] = at[CloseOp]
          BY <1>12, <3>2
        <4>3. Untouched(CloseOp)
          BY <2>2, <4>1
        <4>2. at[CloseOp] = "cached" => outstanding' > 0
          <5>1. at[CloseOp] = "cached" => outstanding - 1 # 0
            BY <1>11, <3>2
          <5> QED
            BY <1>2, <1>9, <5>1
        <4> QED
          BY <4>2, <4>3
      <3> QED
        BY <3>1, <3>2
    <2> QED
      BY <1>1, <1>7, <1>8, <1>10, <1>13, <2>1, <2>2, <2>3, DataStep
  <1>15. TypeOK' /\ fault' = FALSE
    <2>1. href' >= 0
      BY <1>14
    <2>2. fault' = FALSE
      BY <1>5, <1>14, <2>1 DEF Good
    <2> QED
      BY <1>5, <1>6, <1>14, <2>2 DEF Good, TypeOK, PlaceSet
  <1> QED
    BY <1>14, <1>15 DEF Good

LEMMA KeepRegisterFails ==
  ASSUME Safe, Good, Patience, NEW o \in Op, RegisterFails(o)
  PROVE  Good'
  <1> USE DEF RegisterFails, links, below
  <1>1. /\ href \in Nat /\ outstanding \in Nat
        /\ oref \in [Op -> Nat] /\ ost \in [Op -> OpStates] /\ OpGood(o)
        /\ timer \in [Op -> {"none", "registered", "firing", "refused"}]
        /\ reg \in [Op -> {"none", "inPass", "returned", "failed"}]
    BY DEF Good, TypeOK, OpStates, OpInv, OpGood
  <1>2. /\ o # CloseOp /\ o # OpenOp /\ o \in Data /\ CloseOp \in Op /\ ~Timed(o)
        /\ at[o] = "failed" /\ Kind(o) \in conf.fails
    <2>1. at[o] = "failed" /\ Kind(o) \in conf.fails
      BY <1>1 DEF OpGood, Places, Threads
    <2>2. Kind(o) # "open" /\ Kind(o) \notin conf.timed
      BY <2>1 DEF Safe
    <2> QED
      BY <2>1, <2>2, Kinds3 DEF Timed
  <1>3. ost[o] = "OPERATING" /\ timer[o] = "none" /\ ~asking[o] /\ ~early[o] /\ calls[o] = 0 /\ ~late[o]
    <2>1. ost[o] \in Operating /\ timer[o] = "none" /\ ~early[o]
      BY <1>1, <1>2 DEF OpGood, Places, Threads
    <2>2. ~asking[o] /\ ost[o] = "OPERATING"
      BY <1>1, <2>1 DEF OpGood, Called, Operating
    <2> QED
      BY <1>1, <2>1, <2>2 DEF OpGood, Called, One
  <1>4. oref[o] = 2
    <2>1. oref[o] = Own(o) + Tim(o) + Reg(o) + Kick(o) + Clo(o)
      BY <1>1, HoldersAre DEF OpGood, Refs
    <2>2. Own(o) = 1 /\ Tim(o) = 0 /\ Reg(o) = 1 /\ Kick(o) = 0 /\ Clo(o) = 0
      BY <1>2, <1>3 DEF Own, Live, Tim, Reg, Kick, Counted, Clo, One
    <2> QED
      BY <2>1, <2>2
  <1>5. /\ oref' = [oref EXCEPT ![o] = 0] /\ ost' = [ost EXCEPT ![o] = "FREED"] /\ href' = href - 1
        /\ fault' = (fault \/ ~(href > 1 /\ href' >= 0 /\ (href' = 0 => hstate = "CLOSED")))
        /\ hstate' = hstate /\ timer' = timer
    <2>1. hstate' = hstate /\ timer' = timer /\ ~Unregistered(o)
      BY <1>1, <1>2, <1>3 DEF Unregistered
    <2> DEFINE k == 2 + One(Unregistered(o))
               n == oref[o] - k
    <2>2. k = 2
      BY <2>1 DEF One
    <2>3. /\ oref' = [oref EXCEPT ![o] = n] /\ ost' = (IF n = 0 THEN [ost EXCEPT ![o] = "FREED"] ELSE ost)
          /\ href' = href - 0 - One(n = 0)
          /\ fault' = (fault \/ ~((oref[o] = k => href > 1) /\ n >= 0 /\ href' >= 0
                                     /\ (href' = 0 => hstate' = "CLOSED")))
      BY DEF ReleaseIf, Insist
    <2> HIDE DEF k
    <2>4. n = 0 /\ oref[o] = k
      BY <1>4, <2>2
    <2> HIDE DEF n
    <2>5. oref' = [oref EXCEPT ![o] = 0] /\ ost' = [ost EXCEPT ![o] = "FREED"] /\ href' = href - 1
      BY <1>1, <2>3, <2>4 DEF One
    <2>6. n >= 0
      BY <2>4
    <2>7. (fault \/ ~((oref[o] = k => href > 1) /\ n >= 0 /\ href' >= 0
                         /\ (href' = 0 => hstate' = "CLOSED")))
            = (fault \/ ~(href > 1 /\ href' >= 0 /\ (href' = 0 => hstate = "CLOSED")))
      BY <2>1, <2>4, <2>6, Zenon
    <2> QED
      BY <2>1, <2>3, <2>5, <2>7
  <1>6. /\ reg'[o] = "none" /\ oref'[o] = 0 /\ ost'[o] = "FREED"
        /\ oref' \in [Op -> Nat] /\ ost' \in [Op -> OpStates]
        /\ reg' \in [Op -> {"none", "inPass", "returned", "failed"}]
        /\ \A x \in Op : x # o => reg'[x] = reg[x] /\ oref'[x] = oref[x] /\ ost'[x] = ost[x]
    BY <1>1, <1>5 DEF OpStates
  <1>7. OpGood(o)'
    <2>1. Places(o)' /\ Threads(o)'
      BY <1>2, <1>3, <1>5, <1>6 DEF Places, Threads, Operating, Before, Kind
    <2>2. Called(o)'
      BY <1>2, <1>3, <1>5, <1>6 DEF Called, One
    <2>3. Own(o)' = 0 /\ Tim(o)' = 0 /\ Reg(o)' = 0 /\ Kick(o)' = 0 /\ Clo(o)' = 0
      BY <1>2, <1>3, <1>5, <1>6 DEF Own, Live, Tim, Reg, Kick, Counted, Clo, One
    <2>4. Refs(o)'
      BY <1>6, <2>3, HoldersNext DEF Refs, Live
    <2> QED
      BY <2>1, <2>2, <2>4 DEF OpGood
  <1>8. o \notin Out /\ o \notin Out' /\ o \in Owners /\ o \notin Owners'
    BY <1>2, <1>3, <1>5, <1>6 DEF Out, Owners, Counted, Live
  <1>9. /\ outstanding' = outstanding + One(o \in Out') - One(o \in Out)
        /\ href' = href + One(o \in Owners') - One(o \in Owners)
    BY <1>1, <1>5, <1>8 DEF One
  <1>10. \A x \in Op : x # o => Untouched(x)
    BY <1>5, <1>6 DEF Untouched
  <1>11. at[CloseOp] = "cached" => outstanding' > 0
    BY DEF Good, Entry
  <1>12. /\ OpInv' /\ Lifecycle' /\ Waiting' /\ DataOpen' /\ Entry' /\ Counts'
         /\ href' \in Nat /\ (href' = 0 => hstate = "CLOSED")
    <2>1. at[o] # "new" /\ at'[o] # "new" /\ (at'[o] \in Below => at[o] \in Below)
      BY <1>2 DEF Below
    <2> QED
      BY <1>2, <1>5, <1>7, <1>8, <1>9, <1>10, <1>11, <2>1, DataStep
  <1>13. TypeOK' /\ fault' = FALSE
    <2>1. href' >= 0
      BY <1>12
    <2>2. href > 1
      <3>1. hstate = "OPEN"
        <4>1. ~conf.hasty
          BY <1>2, Kinds3 DEF Safe
        <4>2. reg[o] # "none"
          OBVIOUS
        <4> QED
          BY <1>2, <4>1, <4>2 DEF Patience
      <3>2. Owners \in SUBSET Op /\ Cardinality(Owners) \in Nat /\ Cardinality(Owners) > 0
        BY <1>8, OpCard DEF Owners
      <3> QED
        BY <3>1, <3>2 DEF Good, Counts, One
    <2>3. fault' = FALSE
      BY <1>5, <1>12, <2>1, <2>2 DEF Good
    <2> QED
      BY <1>5, <1>6, <1>12, <2>3 DEF Good, TypeOK, OpStates
  <1> QED
    BY <1>12, <1>13 DEF Good

\* A new operation that was given to the driver.
LEMMA OpRegistered ==
  ASSUME Good, NEW o \in Op, o # CloseOp, at[o] = "new", ost'[o] = "OPERATING", at'[o] = "driver",
         reg'[o] = "inPass", oref'[o] = 4 + One(Timed(o)), conf' = conf,
         timer'[o] = IF Timed(o) THEN "registered" ELSE "none",
         UNCHANGED <<asking, early, late, calls>>
  PROVE  OpGood(o)' /\ o \notin Out /\ o \in Out' /\ o \notin Owners /\ o \in Owners'
  <1>1. OpGood(o)
    BY DEF Good, OpInv, OpGood
  <1>2. ost[o] = "NONE" /\ ~asking[o] /\ ~early[o] /\ ~late[o] /\ calls[o] = 0
    BY <1>1 DEF OpGood, Places, Threads, Called, One
  <1>3. Places(o)' /\ Threads(o)'
    <2>1. Timed(o)' <=> Timed(o)
      BY DEF Timed
    <2> QED
      BY <1>2, <2>1 DEF Places, Threads, Operating, Before, Counted
  <1>4. Called(o)'
    BY <1>2 DEF Called, One
  <1>5. Own(o)' = 1 /\ Tim(o)' = One(Timed(o)) /\ Reg(o)' = 2 /\ Kick(o)' = 1 /\ Clo(o)' = 0
    BY DEF Own, Live, Tim, Reg, Kick, Counted, Clo, One
  <1>6. One(Timed(o)) \in {0, 1}
    BY DEF One
  <1>7. Refs(o)'
    <2>1. Holders(o)' = 1 + One(Timed(o)) + 2 + 1 + 0
      BY <1>5, HoldersNext
    <2> QED
      BY <1>6, <2>1 DEF Refs
  <1> QED
    BY <1>2, <1>3, <1>4, <1>7 DEF OpGood, Out, Owners, Live, Counted

LEMMA KeepRegisterData ==
  ASSUME Good, NEW o \in Data, RegisterData(o)
  PROVE  Good'
  <1> USE DEF RegisterData, links
  <1>1. /\ href \in Nat /\ outstanding \in Nat /\ o \in Op /\ o # CloseOp /\ o # OpenOp
        /\ oref \in [Op -> Nat] /\ ost \in [Op -> OpStates] /\ OpGood(o)
        /\ timer \in [Op -> {"none", "registered", "firing", "refused"}] /\ at \in [Op -> PlaceSet]
        /\ reg \in [Op -> {"none", "inPass", "returned", "failed"}]
        /\ OpenOp \in Op /\ CloseOp \in Op
    BY Kinds3 DEF Good, TypeOK, OpStates, OpInv, OpGood, PlaceSet
  <1>2. at[o] = "new"
    BY <1>1 DEF OpGood, Places
  <1>3. /\ ost'[o] = "OPERATING" /\ at'[o] = "driver" /\ reg'[o] = "inPass"
        /\ timer'[o] = IF Timed(o) THEN "registered" ELSE "none"
        /\ \A x \in Op : x # o => /\ ost'[x] = ost[x] /\ at'[x] = at[x] /\ reg'[x] = reg[x]
                                  /\ timer'[x] = timer[x]
    BY <1>1
  <1>4. /\ oref'[o] = 4 + One(Timed(o)) /\ oref' \in [Op -> Nat]
        /\ \A x \in Op : x # o => oref'[x] = oref[x]
    <2>1. 4 + One(Timed(o)) \in Nat
      BY DEF One
    <2> QED
      BY <1>1, <2>1
  <1>5. OpGood(o)' /\ o \notin Out /\ o \in Out' /\ o \notin Owners /\ o \in Owners'
    BY <1>1, <1>2, <1>3, <1>4, OpRegistered
  <1>6. \A x \in Op : x # o => Untouched(x)
    BY <1>3, <1>4 DEF Untouched
  <1>7. OpInv'
    <2>1. ASSUME NEW x \in Op, x # o PROVE OpGood(x)'
      BY <1>6, <2>1, UntouchedKeeps
    <2> QED
      BY <1>5, <2>1 DEF OpInv, OpGood
  <1>8. /\ at'[OpenOp] = at[OpenOp] /\ ost'[OpenOp] = ost[OpenOp]
        /\ at'[CloseOp] = at[CloseOp] /\ ost'[CloseOp] = ost[CloseOp] /\ reg'[CloseOp] = reg[CloseOp]
    BY <1>1, <1>3
  <1>9. at[CloseOp] = "new" /\ openOk
    BY DEF Good, Lifecycle, DataOpen
  <1>10. Lifecycle' /\ Waiting'
    BY <1>8 DEF Good, Lifecycle, Waiting, Live
  <1>11. DataOpen'
    BY <1>8, <1>9 DEF Good, DataOpen, Opening
  <1>12. Entry'
    BY <1>8, <1>9 DEF Good, Entry
  <1>13. Counts' /\ href' \in Nat /\ outstanding' \in Nat
    <2>1. \A x \in Op : x # o => (x \in Out <=> x \in Out') /\ (x \in Owners <=> x \in Owners')
      BY <1>6 DEF Untouched, Out, Owners, Live
    <2>2. Counts /\ One(hstate # "CLOSED") \in Int /\ hstate' = hstate
      BY DEF Good, One
    <2>3. outstanding' = outstanding + One(o \in Out') - One(o \in Out)
      BY <1>1, <1>5 DEF One
    <2>4. href' = href + One(o \in Owners') - One(o \in Owners)
                   + One(hstate' # "CLOSED") - One(hstate # "CLOSED")
      BY <1>1, <1>5, <2>2 DEF One
    <2> QED
      BY <1>1, <2>1, <2>2, <2>3, <2>4, CountsStep
  <1>14. TypeOK' /\ fault' = FALSE
    BY <1>1, <1>4, <1>13 DEF Good, TypeOK, PlaceSet, OpStates
  <1> QED
    BY <1>7, <1>10, <1>11, <1>12, <1>13, <1>14 DEF Good

-----------------------------------------------------------------------------
(* The open *)

\* A step of one operation, seen by all operations and by the counts.
LEMMA OneOpStep ==
  ASSUME Good, NEW o \in Op, conf' = conf,
         \A x \in Op : x # o => Untouched(x), OpGood(o)',
         outstanding' = outstanding + One(o \in Out') - One(o \in Out),
         href' = href + One(o \in Owners') - One(o \in Owners)
                   + One(hstate' # "CLOSED") - One(hstate # "CLOSED")
  PROVE  /\ OpInv' /\ Counts' /\ href' \in Nat /\ outstanding' \in Nat
         /\ href' = 0 => hstate' = "CLOSED"
  <1>1. OpInv'
    <2>1. ASSUME NEW x \in Op, x # o PROVE OpGood(x)'
      BY <2>1, UntouchedKeeps
    <2> QED
      BY <2>1 DEF OpInv, OpGood
  <1>2. \A x \in Op : x # o => (x \in Out <=> x \in Out') /\ (x \in Owners <=> x \in Owners')
    BY DEF Untouched, Out, Owners, Live
  <1>3. Counts
    BY DEF Good
  <1>4. Counts' /\ href' \in Nat /\ outstanding' \in Nat /\ (href' = 0 => hstate' = "CLOSED")
    BY <1>2, <1>3, CountsStep
  <1> QED
    BY <1>1, <1>4

\* What the handle's part of the invariant sees of data operations.
LEMMA DataSame ==
  ASSUME \A x \in Data : at'[x] = at[x]
  PROVE  Idle' = Idle /\ \A x \in Data : (at'[x] \in Below <=> at[x] \in Below)
  BY DEF Idle

LEMMA KeepRegisterOpen ==
  ASSUME Good, RegisterOpen
  PROVE  Good'
  <1> USE DEF RegisterOpen
  <1> DEFINE o == OpenOp
  <1>1. /\ href \in Nat /\ outstanding \in Nat /\ o \in Op /\ o # CloseOp /\ CloseOp \in Op
        /\ oref \in [Op -> Nat] /\ ost \in [Op -> OpStates] /\ OpGood(CloseOp)
        /\ timer \in [Op -> {"none", "registered", "firing", "refused"}] /\ at \in [Op -> PlaceSet]
        /\ reg \in [Op -> {"none", "inPass", "returned", "failed"}]
        /\ \A x \in Data : x # o /\ x \in Op
    BY Kinds3 DEF Good, TypeOK, OpStates, OpInv, OpGood, PlaceSet
  <1>2. at[o] = "new" /\ at[CloseOp] = "new" /\ ost[CloseOp] = "NONE" /\ ~openOk /\ Idle
    <2>1. at[o] = "new" /\ at[CloseOp] = "new"
      BY DEF Good, Lifecycle, Opening
    <2>2. ~openOk
      BY <2>1 DEF Good, Entry
    <2>3. Idle
      BY <2>2 DEF Good, DataOpen
    <2> QED
      BY <1>1, <2>1, <2>2, <2>3 DEF OpGood, Places
  <1>3. /\ ost'[o] = "OPERATING" /\ at'[o] = "driver" /\ reg'[o] = "inPass"
        /\ timer'[o] = IF Timed(o) THEN "registered" ELSE "none"
        /\ \A x \in Op : x # o => /\ ost'[x] = ost[x] /\ at'[x] = at[x] /\ reg'[x] = reg[x]
                                  /\ timer'[x] = timer[x]
    BY <1>1
  <1>4. /\ oref'[o] = 4 + One(Timed(o)) /\ oref' \in [Op -> Nat]
        /\ \A x \in Op : x # o => oref'[x] = oref[x]
    <2>1. 4 + One(Timed(o)) \in Nat
      BY DEF One
    <2> QED
      BY <1>1, <2>1
  <1>5. OpGood(o)' /\ o \notin Out /\ o \in Out' /\ o \notin Owners /\ o \in Owners'
    BY <1>1, <1>2, <1>3, <1>4, OpRegistered
  <1>6. \A x \in Op : x # o => Untouched(x)
    BY <1>3, <1>4 DEF Untouched
  <1>7. OpInv' /\ Counts' /\ href' \in Nat /\ outstanding' \in Nat
    <2>1. outstanding' = outstanding + One(o \in Out') - One(o \in Out)
      BY <1>1, <1>5 DEF One
    <2>2. href' = href + One(o \in Owners') - One(o \in Owners)
                   + One(hstate' # "CLOSED") - One(hstate # "CLOSED")
      BY <1>1, <1>5 DEF One
    <2> QED
      BY <1>1, <1>5, <1>6, <2>1, <2>2, OneOpStep
  <1>8. /\ at'[CloseOp] = "new" /\ ost'[CloseOp] = "NONE" /\ reg'[CloseOp] = reg[CloseOp]
        /\ Idle' /\ \A x \in Data : at'[x] = "new"
    BY <1>1, <1>2, <1>3 DEF Idle
  <1>9. Lifecycle'
    BY <1>2, <1>3, <1>8 DEF Good, Lifecycle, Below, Opening, Operating
  <1>10. Waiting'
    BY <1>2, <1>3, <1>8 DEF Good, Waiting
  <1>11. DataOpen'
    BY <1>2, <1>3, <1>8 DEF Good, DataOpen, Below
  <1>12. Entry'
    BY <1>2, <1>3, <1>8 DEF Good, Entry
  <1>13. TypeOK' /\ fault' = FALSE
    BY <1>1, <1>4, <1>7 DEF Good, TypeOK, PlaceSet, OpStates, HandleStates
  <1> QED
    BY <1>7, <1>9, <1>10, <1>11, <1>12, <1>13 DEF Good

LEMMA KeepFinishedOpen ==
  ASSUME Good, NEW success \in BOOLEAN, FinishedOpen(success)
  PROVE  Good'
  <1> USE DEF FinishedOpen, refs, links, timing
  <1> DEFINE o == OpenOp
  <1>1. /\ href \in Nat /\ outstanding \in Nat /\ o \in Op /\ o # CloseOp /\ CloseOp \in Op
        /\ at \in [Op -> PlaceSet] /\ OpGood(o) /\ OpGood(CloseOp)
        /\ \A x \in Data : x # o /\ x \in Op
    BY Kinds3 DEF Good, TypeOK, OpInv, OpGood, PlaceSet
  <1>2. at'[o] = "fired" /\ at[o] = "driver" /\ \A x \in Op : x # o => at'[x] = at[x]
    BY <1>1
  <1>3. \A x \in Op : x # o => Untouched(x)
    BY <1>2 DEF Untouched
  <1>4. OpGood(o)' /\ (o \in Out' <=> o \in Out) /\ (o \in Owners' <=> o \in Owners)
    BY <1>1, <1>2, OpFired
  <1>5. OpInv' /\ Counts' /\ href' \in Nat /\ outstanding' \in Nat
    <2>1. outstanding' = outstanding + One(o \in Out') - One(o \in Out)
      BY <1>1, <1>4 DEF One
    <2>2. href' = href + One(o \in Owners') - One(o \in Owners)
                   + One(hstate' # "CLOSED") - One(hstate # "CLOSED")
      BY <1>1, <1>4 DEF One
    <2> QED
      BY <1>1, <1>3, <1>4, <2>1, <2>2, OneOpStep
  <1>6. /\ hstate \in {"OPENING", "OPENING_AND_CLOSING"} /\ Idle /\ ~openOk
        /\ at[CloseOp] \in {"new", "deferred"} /\ ost[o] \in Operating /\ ~early[o]
    <2>1. hstate \in {"OPENING", "OPENING_AND_CLOSING"}
      BY DEF Good, Lifecycle, Below
    <2>2. ost[o] \in Operating /\ ~early[o]
      BY <1>1 DEF OpGood, Places, Threads, Before
    <2>3. at[CloseOp] \in {"new", "unopened", "deferred"}
      BY <2>1 DEF Good, Lifecycle, Opening
    <2>4. at[CloseOp] # "unopened"
      BY <2>2 DEF Good, Waiting, Operating, Over
    <2>5. ~openOk /\ Idle
      BY <2>1 DEF Good, DataOpen, Entry
    <2> QED
      BY <2>1, <2>2, <2>3, <2>4, <2>5
  <1>7. /\ at'[CloseOp] = at[CloseOp] /\ Idle' /\ \A x \in Data : at'[x] = "new"
    BY <1>1, <1>2, <1>6 DEF Idle
  <1>8. Lifecycle'
    BY <1>2, <1>6, <1>7 DEF Good, Lifecycle, Below
  <1>9. Waiting'
    BY <1>2, <1>6, <1>7 DEF Good, Waiting, Below, Live
  <1>10. DataOpen'
    BY <1>2, <1>6, <1>7 DEF Good, DataOpen, Below
  <1>11. Entry'
    <2>1. cstate' = (IF openOk' THEN "OPEN" ELSE "OPEN_FAILED")
      OBVIOUS
    <2> QED
      BY <1>2, <1>6, <1>7, <2>1 DEF Good, Entry, Counted
  <1>12. TypeOK' /\ fault' = FALSE
    BY <1>1 DEF Good, TypeOK, PlaceSet
  <1> QED
    BY <1>5, <1>8, <1>9, <1>10, <1>11, <1>12 DEF Good

LEMMA KeepOpenCallback ==
  ASSUME Safe, Good, HandleCallback(OpenOp)
  PROVE  Good'
  <1> USE DEF HandleCallback
  <1> DEFINE o == OpenOp
  <1>1. /\ href \in Nat /\ outstanding \in Nat /\ o \in Op /\ o # CloseOp /\ CloseOp \in Op
        /\ OpGood(o) /\ OpGood(CloseOp) /\ closeOp \in BOOLEAN /\ openOk \in BOOLEAN
        /\ \A x \in Data : x # o /\ x # CloseOp /\ x \in Op
    BY Kinds3 DEF Good, TypeOK, OpInv, OpGood, PlaceSet
  <1>2. /\ OpGood(o)' /\ ost[o] \in Operating /\ ost'[o] = "FINISH_WAITING"
        /\ at[o] = "fired" /\ ~early[o] /\ early'[o] = early[o]
        /\ at'[o] \in {"callback", "deliver"}
        /\ \A x \in Op : x # o => Untouched(x)
        /\ oref' \in [Op -> Nat] /\ timer' \in [Op -> {"none", "registered", "firing", "refused"}]
        /\ canceled' \in [Op -> BOOLEAN] /\ calls' \in [Op -> Nat]
        /\ ost' \in [Op -> OpStates]
        /\ at' \in [Op -> PlaceSet]
    BY <1>1, OpCompleted DEF PlaceSet
  <1>3. UNCHANGED <<conf, href, openOp, asking, reg, early, late, cstate, outstanding, closeStarted,
                    inClose, openOk, deferred>>
    BY DEF Completed, below
  <1>4. /\ hstate \in {"OPENING", "OPENING_AND_CLOSING"} /\ Idle
        /\ at[CloseOp] \in {"new", "deferred"} /\ (hstate = "OPENING" => at[CloseOp] = "new")
    <2>1. hstate \in {"OPENING", "OPENING_AND_CLOSING"}
      BY <1>2 DEF Good, Lifecycle, Below
    <2>3. at[CloseOp] \in {"new", "unopened", "deferred"} /\ (hstate = "OPENING" => at[CloseOp] = "new")
      BY <2>1 DEF Good, Lifecycle, Opening
    <2>4. at[CloseOp] # "unopened"
      BY <1>2 DEF Good, Waiting, Operating, Over
    <2>5. Idle
      BY <2>1 DEF Good, DataOpen, Opening
    <2> QED
      BY <2>1, <2>3, <2>4, <2>5
  <1>5. /\ closeOp' = closeOp
        /\ hstate' = IF hstate = "OPENING" THEN (IF openOk THEN "OPEN" ELSE "OPENING_FAILED") ELSE hstate
    BY <1>1
  <1>6. at[CloseOp] = "deferred" => at'[o] = "callback"
    <2>1. ASSUME at[CloseOp] = "deferred" PROVE at'[o] = "callback"
      <3>1. Kind(o) \notin conf.timed
        BY <2>1, Kinds3 DEF Good, Waiting, Safe
      <3>2. timer[o] = "none"
        BY <1>1, <3>1 DEF OpGood, Threads, Timed
      <3>3. ost[o] # "TIMEOUT_PENDING"
        BY <1>1, <3>2 DEF OpGood, Called
      <3> QED
        BY <1>1, <3>3 DEF Completed, Good, TypeOK
    <2> QED
      BY <2>1
  <1>7. (o \in Out' <=> o \in Out) /\ (o \in Owners' <=> o \in Owners)
    BY <1>1, <1>2, <1>3 DEF Out, Owners, Counted, Live, Operating
  <1>8. OpInv' /\ Counts' /\ href' \in Nat /\ outstanding' \in Nat
    <2>1. outstanding' = outstanding + One(o \in Out') - One(o \in Out)
      BY <1>1, <1>3, <1>7 DEF One
    <2>2. One(hstate' # "CLOSED") = One(hstate # "CLOSED") /\ One(hstate # "CLOSED") \in Int
      BY <1>4, <1>5 DEF One
    <2>3. href' = href + One(o \in Owners') - One(o \in Owners)
                   + One(hstate' # "CLOSED") - One(hstate # "CLOSED")
      BY <1>1, <1>3, <1>7, <2>2 DEF One
    <2> QED
      BY <1>1, <1>2, <1>3, <2>1, <2>3, OneOpStep
  <1>9. /\ at'[CloseOp] = at[CloseOp] /\ ost'[CloseOp] = ost[CloseOp] /\ reg'[CloseOp] = reg[CloseOp]
        /\ Idle' /\ \A x \in Data : at'[x] = "new"
    BY <1>1, <1>2, <1>4 DEF Idle, Untouched
  <1>10. Lifecycle'
    BY <1>2, <1>3, <1>4, <1>5, <1>9 DEF Good, Lifecycle, Below, Opening
  <1>11. Waiting'
    BY <1>2, <1>3, <1>4, <1>6, <1>9 DEF Good, Waiting, Live
  <1>12. DataOpen'
    BY <1>2, <1>3, <1>4, <1>5, <1>9 DEF Good, DataOpen, Entry, Below
  <1>13. Entry'
    BY <1>2, <1>3, <1>4, <1>9 DEF Good, Entry, Counted
  <1>14. TypeOK' /\ fault' = FALSE
    <2>1. fault' = FALSE
      BY <1>1, <1>4 DEF Good, Insist
    <2>2. hstate' \in HandleStates
      BY <1>4, <1>5 DEF HandleStates
    <2> QED
      BY <1>2, <1>3, <1>5, <2>1, <2>2 DEF Good, TypeOK, PlaceSet, OpStates
  <1> QED
    BY <1>8, <1>10, <1>11, <1>12, <1>13, <1>14 DEF Good

\* A close that the open kickout is about to pass down.
LEMMA ClosePasses ==
  ASSUME Good, conf' = conf, at[CloseOp] = "deferred", at'[CloseOp] = "toPass",
         ost'[CloseOp] = ost[CloseOp], oref'[CloseOp] = oref[CloseOp],
         timer'[CloseOp] = timer[CloseOp], asking'[CloseOp] = asking[CloseOp],
         reg'[CloseOp] = reg[CloseOp], early'[CloseOp] = early[CloseOp],
         late'[CloseOp] = late[CloseOp], calls'[CloseOp] = calls[CloseOp], inClose' = inClose
  PROVE  /\ OpGood(CloseOp)'
         /\ CloseOp \in Out <=> CloseOp \in Out'
         /\ CloseOp \in Owners <=> CloseOp \in Owners'
  <1>1. OpGood(CloseOp) /\ CloseOp \in Op
    BY Kinds3 DEF Good, OpInv, OpGood
  <1>2. Places(CloseOp)' /\ Threads(CloseOp)'
    BY <1>1 DEF OpGood, Places, Threads, Timed, Operating, Before
  <1>3. Called(CloseOp)'
    <2>1. ost[CloseOp] \in Operating
      BY <1>1 DEF OpGood, Places, Before
    <2> QED
      BY <1>1, <2>1 DEF OpGood, Called, One, Operating
  <1>4. Own(CloseOp)' = Own(CloseOp) /\ Tim(CloseOp)' = Tim(CloseOp) /\ Reg(CloseOp)' = Reg(CloseOp)
        /\ Kick(CloseOp)' = Kick(CloseOp) /\ Clo(CloseOp)' = Clo(CloseOp)
    BY DEF Own, Live, Tim, Reg, Kick, Clo, One
  <1>5. Holders(CloseOp)' = Holders(CloseOp)
    BY <1>1, <1>4, HoldersAre, HoldersNext
  <1>6. Refs(CloseOp)'
    BY <1>1, <1>5 DEF OpGood, Refs, Live
  <1> QED
    BY <1>2, <1>3, <1>6 DEF OpGood, Out, Owners

LEMMA KeepOpenKickoutEnds ==
  ASSUME Safe, Good, OpenKickoutEnds
  PROVE  Good'
  <1> USE DEF OpenKickoutEnds, timing, below
  <1> DEFINE o == OpenOp
             close == hstate = "OPENING_AND_CLOSING"
  <1>1. /\ href \in Nat /\ outstanding \in Nat /\ o \in Op /\ o # CloseOp /\ CloseOp \in Op
        /\ OpGood(o) /\ OpGood(CloseOp) /\ at \in [Op -> PlaceSet]
        /\ \A x \in Data : x # o /\ x # CloseOp /\ x \in Op
    BY Kinds3 DEF Good, TypeOK, OpInv, OpGood, PlaceSet
  <1>2. /\ at'[o] = (IF close /\ ~late[o] THEN "closing" ELSE AfterCallback(o))
        /\ at'[CloseOp] = (IF close THEN "toPass" ELSE at[CloseOp])
        /\ \A x \in Op : x # o /\ x # CloseOp => at'[x] = at[x]
    BY <1>1
  <1>3. /\ oref' = [oref EXCEPT ![o] = oref[o] - 1]
        /\ ost' = IF oref[o] - 1 = 0 THEN [[ost EXCEPT ![o] = "FINISHED"] EXCEPT ![o] = "FREED"]
                                     ELSE [ost EXCEPT ![o] = "FINISHED"]
        /\ href' = href - 0 - One(oref[o] - 1 = 0)
        /\ fault' = (fault \/ ~(/\ ost[o] = "FINISH_WAITING"
                                /\ hstate \notin {"CLIENT", "OPENING", "OPEN_FAILED"}
                                /\ close => closeOp
                                /\ oref[o] - 1 >= 0 /\ href' >= 0 /\ (href' = 0 => hstate' = "CLOSED")))
    BY DEF ReleaseIf, Insist
  <1>4. /\ OpGood(o)' /\ ost[o] = "FINISH_WAITING" /\ ~asking[o]
        /\ at[o] \in {"callback", "deliver", "done"} /\ (late[o] <=> at[o] # "callback")
        /\ ost'[o] \in Over /\ oref' \in [Op -> Nat] /\ ost' \in [Op -> OpStates]
        /\ late' \in [Op -> BOOLEAN]
        /\ (ost'[o] = "FREED" => at[o] = "done" \/ o = CloseOp)
        /\ oref[o] - 1 >= 0 /\ (oref[o] - 1 = 0 <=> ost'[o] = "FREED")
        /\ \A x \in Op : x # o => oref'[x] = oref[x] /\ ost'[x] = ost[x] /\ late'[x] = late[x]
    <2>1. at'[o] = AfterCallback(o) \/ (o = OpenOp /\ ~late[o] /\ at'[o] = "closing")
      BY <1>2
    <2> HIDE DEF o
    <2> QED
      BY <1>1, <1>3, <2>1, OpReturned DEF o
  <1>5. hstate \notin {"CLIENT", "OPENING", "OPEN_FAILED"}
    <2>1. hstate # "CLIENT"
      BY <1>4 DEF Good, Lifecycle
    <2>2. hstate # "OPENING"
      BY <1>4 DEF Good, Lifecycle, Below
    <2>3. hstate # "OPEN_FAILED"
      BY <1>4 DEF Good, Lifecycle, Over
    <2> QED
      BY <2>1, <2>2, <2>3
  <1>6. close => /\ at[CloseOp] = "deferred" /\ deferred /\ closeOp /\ at[o] = "callback" /\ ~late[o]
                 /\ ~early[o] /\ cstate \in {"OPEN", "OPEN_FAILED"} /\ at'[o] = "closing"
    <2>1. ASSUME close
          PROVE /\ at[CloseOp] = "deferred" /\ deferred /\ closeOp /\ at[o] = "callback" /\ ~late[o]
                /\ ~early[o] /\ cstate \in {"OPEN", "OPEN_FAILED"} /\ at'[o] = "closing"
      <3>1. at[CloseOp] \in {"unopened", "deferred"}
        BY <2>1 DEF Good, Lifecycle
      <3>2. at[CloseOp] = "deferred"
        BY <1>4, <3>1 DEF Good, Waiting, Over
      <3>3. deferred /\ closeOp /\ at[o] \in Below \cup {"callback"} /\ conf.eager
        BY <3>2 DEF Good, Waiting
      <3>4. at[o] = "callback" /\ ~late[o]
        BY <1>4, <3>3 DEF Below
      <3>5. ~early[o]
        BY <1>1, <3>3 DEF OpGood, Threads, Safe
      <3>6. cstate \in {"OPEN", "OPEN_FAILED"}
        BY <3>2, <3>4, <3>5 DEF Good, Entry
      <3> QED
        BY <1>2, <2>1, <3>2, <3>3, <3>4, <3>5, <3>6
    <2> QED
      BY <2>1
  <1>7. /\ at'[o] \in {"closing", "deliver", "done"} /\ (at'[o] = "done" <=> at[o] = "done")
        /\ (at'[o] = "closing" <=> close) /\ (at[o] = "deliver" => at'[o] = "deliver")
        /\ at[o] # "closing"
    <2>1. ~close => at'[o] = IF late[o] THEN at[o] ELSE "deliver"
      BY <1>1, <1>2 DEF AfterCallback
    <2>2. close => at'[o] = "closing" /\ at[o] = "callback"
      BY <1>6
    <2> HIDE DEF close
    <2> QED
      BY <1>4, <2>1, <2>2
  <1>8. (o \in Out' <=> o \in Out) /\ o \in Owners /\ (o \in Owners' <=> ost'[o] # "FREED")
    BY <1>1, <1>4, <1>7 DEF Out, Owners, Counted, Live, Over
  <1>9. /\ OpGood(CloseOp)' /\ (CloseOp \in Out <=> CloseOp \in Out')
        /\ (CloseOp \in Owners <=> CloseOp \in Owners')
    <2>1. ost'[CloseOp] = ost[CloseOp] /\ oref'[CloseOp] = oref[CloseOp] /\ late'[CloseOp] = late[CloseOp]
      BY <1>1, <1>4
    <2>2. CASE close
      BY <1>2, <1>6, <2>1, <2>2, ClosePasses
    <2>3. CASE ~close
      <3>1. Untouched(CloseOp)
        BY <1>2, <2>1, <2>3 DEF Untouched
      <3> QED
        BY <1>1, <3>1, UntouchedKeeps DEF Untouched, Out, Owners, Live
    <2> QED
      BY <2>2, <2>3
  <1>10. \A x \in Op : x # o /\ x # CloseOp => Untouched(x)
    BY <1>2, <1>4 DEF Untouched
  <1>11. OpInv'
    <2>1. ASSUME NEW x \in Op, x # o, x # CloseOp PROVE OpGood(x)'
      BY <1>10, <2>1, UntouchedKeeps
    <2> QED
      BY <1>4, <1>9, <2>1 DEF OpInv, OpGood
  <1>12. hstate' = CASE hstate = "OPENING_FAILED" -> "OPEN_FAILED" [] close -> "CLOSING" [] OTHER -> hstate
    OBVIOUS
  <1>13. Counts' /\ href' \in Nat /\ outstanding' \in Nat /\ (href' = 0 => hstate' = "CLOSED")
    <2>1. \A x \in Op : x # o => (x \in Out <=> x \in Out') /\ (x \in Owners <=> x \in Owners')
      BY <1>9, <1>10 DEF Untouched, Out, Owners, Live
    <2>2. Counts /\ One(hstate # "CLOSED") \in Int /\ One(hstate' # "CLOSED") = One(hstate # "CLOSED")
      BY <1>12 DEF Good, One
    <2>3. outstanding' = outstanding + One(o \in Out') - One(o \in Out)
      BY <1>1, <1>8 DEF One
    <2>4. href' = href + One(o \in Owners') - One(o \in Owners)
                   + One(hstate' # "CLOSED") - One(hstate # "CLOSED")
      <3>1. href' = href + One(o \in Owners') - One(o \in Owners)
        BY <1>1, <1>3, <1>4, <1>8 DEF One
      <3>2. One(o \in Owners') \in Int /\ One(o \in Owners) \in Int
        BY DEF One
      <3> QED
        BY <1>1, <2>2, <3>1, <3>2
    <2> QED
      BY <1>1, <2>1, <2>2, <2>3, <2>4, CountsStep
  <1>14. /\ Idle' = Idle /\ \A x \in Data : (at'[x] \in Below <=> at[x] \in Below)
         /\ ost'[CloseOp] = ost[CloseOp]
    BY <1>1, <1>2, <1>4, DataSame
  <1>15. Lifecycle'
    <2>1. CASE close
      <3>1. hstate' = "CLOSING" /\ at'[CloseOp] = "toPass" /\ at'[o] = "closing"
        BY <1>2, <1>6, <1>12, <2>1
      <3>2. ost[CloseOp] \in Operating
        BY <1>1, <1>6, <2>1 DEF OpGood, Places, Before
      <3> QED
        BY <1>14, <3>1, <3>2 DEF Lifecycle, Below, Opening, Operating
    <2>2. CASE ~close
      <3>1. /\ hstate' = (IF hstate = "OPENING_FAILED" THEN "OPEN_FAILED" ELSE hstate)
            /\ at'[CloseOp] = at[CloseOp] /\ at'[o] \in {"deliver", "done"}
        BY <1>2, <1>7, <1>12, <2>2
      <3> QED
        BY <1>4, <1>5, <1>14, <2>2, <3>1 DEF Good, Lifecycle, Below, Opening
    <2> QED
      BY <2>1, <2>2
  <1>16. Waiting'
    <2>1. CASE close
      BY <1>2, <1>4, <1>6, <1>7, <1>14, <2>1 DEF Good, Waiting, Live
    <2>2. CASE ~close
      <3>1. at'[CloseOp] = at[CloseOp] /\ at'[o] # "closing" /\ at[CloseOp] # "deferred"
        BY <1>2, <1>7, <2>2 DEF Good, Lifecycle
      <3> QED
        BY <1>4, <1>7, <1>14, <3>1 DEF Good, Waiting, Live
    <2> QED
      BY <2>1, <2>2
  <1>17. DataOpen'
    BY <1>5, <1>7, <1>12, <1>14 DEF Good, DataOpen, Opening
  <1>18. Entry'
    <2>1. CASE close
      BY <1>2, <1>6, <1>7, <1>14, <2>1 DEF Good, Entry, Counted
    <2>2. CASE ~close
      <3>1. at'[CloseOp] = at[CloseOp]
        BY <1>2, <2>2
      <3> QED
        BY <1>4, <1>7, <1>14, <3>1 DEF Good, Entry, Counted
    <2> QED
      BY <2>1, <2>2
  <1>19. TypeOK' /\ fault' = FALSE
    <2>1. href' >= 0
      BY <1>13
    <2>2. fault' = FALSE
      BY <1>3, <1>4, <1>5, <1>6, <1>13, <2>1 DEF Good
    <2>3. hstate' \in HandleStates
      BY <1>12 DEF Good, TypeOK, HandleStates
    <2>4. at' \in [Op -> PlaceSet]
      BY <1>1, <1>2, <1>7 DEF PlaceSet
    <2> QED
      BY <1>4, <1>13, <2>2, <2>3, <2>4 DEF Good, TypeOK, PlaceSet, OpStates
  <1> QED
    BY <1>11, <1>13, <1>15, <1>16, <1>17, <1>18, <1>19 DEF Good

\* The delivery of the open ends a failed open, and lets a close go that waits for it: to
\* the driver, or to the user when there is nothing to close.
LEMMA OpenContext ==
  ASSUME Good, OpenOp \in Out, NEW a \in [Op -> PlaceSet], ContextDelivered(OpenOp, a),
         a[CloseOp] = at[CloseOp]
  PROVE  /\ outstanding' = outstanding - 1 /\ outstanding' \in Nat /\ UNCHANGED <<inClose, openOk>>
         /\ \A x \in Op : x # CloseOp => at'[x] = a[x]
         /\ at' \in [Op -> PlaceSet] /\ closeStarted' \in BOOLEAN
         /\ cstate' = IF cstate = "OPEN_FAILED" THEN "CLOSED"
                      ELSE IF cstate = "OPENING_AND_CLOSING" THEN "CLOSING" ELSE cstate
         /\ \/ /\ at'[CloseOp] = at[CloseOp] /\ closeStarted' = closeStarted
               /\ cstate # "OPENING_AND_CLOSING"
               /\ at[CloseOp] = "cached" => outstanding' > 0
            \/ /\ at[CloseOp] = "cached" /\ outstanding' = 0
               /\ at'[CloseOp] = IF cstate = "CLOSING" THEN "starting" ELSE "fired"
  <1> DEFINE n == outstanding - 1
             failedOpen == cstate = "OPENING_AND_CLOSING" /\ n = 0 /\ ~closeStarted
                             /\ at[CloseOp] = "cached"
             start == BarrierReached(n)
  <1>1. OpenOp # CloseOp /\ CloseOp \in Op /\ OpenOp \in Op /\ closeStarted \in BOOLEAN
    BY Kinds3 DEF Good, TypeOK
  <1>2. /\ outstanding' = n
        /\ cstate' = CASE cstate = "OPEN_FAILED" -> "CLOSED"
                       [] cstate = "OPENING_AND_CLOSING" -> "CLOSING"
                       [] OTHER -> cstate
        /\ closeStarted' = (closeStarted \/ start \/ failedOpen)
        /\ at' = [a EXCEPT ![CloseOp] = IF start THEN "starting" ELSE IF failedOpen THEN "fired" ELSE @]
        /\ UNCHANGED <<inClose, openOk>>
    BY DEF ContextDelivered
  <1>3. n \in Nat /\ outstanding > 0 /\ outstanding \in Nat
    BY OutPositive
  <1>4. start <=> at[CloseOp] = "cached" /\ n = 0 /\ cstate = "CLOSING"
    BY DEF BarrierReached, Good, Entry
  <1>5. cstate = "OPENING_AND_CLOSING" => failedOpen
    <2>1. ASSUME cstate = "OPENING_AND_CLOSING" PROVE failedOpen
      <3>1. at[CloseOp] = "cached" /\ ~openOk /\ ~closeStarted
        BY <2>1 DEF Good, Entry
      <3>2. Idle
        BY <3>1 DEF Good, DataOpen
      <3>3. Out = {OpenOp}
        <4>1. ASSUME NEW x \in Out PROVE x = OpenOp
          <5>1. x \in Op /\ x # CloseOp /\ at[x] # "new"
            BY DEF Out, Counted
          <5> QED
            BY <3>2, <5>1, Kinds3 DEF Idle
        <4> QED
          BY <4>1
      <3>4. Cardinality(Out) = 1
        BY <3>3, FS_Singleton
      <3>5. n = 0
        BY <3>4 DEF Good, Counts
      <3> QED
        BY <2>1, <3>1, <3>5
    <2> QED
      BY <2>1
  <1>6. failedOpen => at[CloseOp] = "cached" /\ n = 0 /\ cstate = "OPENING_AND_CLOSING"
    OBVIOUS
  <1>7. at[CloseOp] = "cached" => cstate \in {"CLOSING", "OPENING_AND_CLOSING"}
    BY DEF Good, Entry
  <1> HIDE DEF n, start, failedOpen
  <1>8. /\ \A x \in Op : x # CloseOp => at'[x] = a[x]
        /\ at'[CloseOp] = (IF start THEN "starting" ELSE IF failedOpen THEN "fired" ELSE at[CloseOp])
        /\ at' \in [Op -> PlaceSet]
    BY <1>1, <1>2 DEF PlaceSet
  <1>9. cstate' = IF cstate = "OPEN_FAILED" THEN "CLOSED"
                  ELSE IF cstate = "OPENING_AND_CLOSING" THEN "CLOSING" ELSE cstate
    BY <1>2
  <1>10. closeStarted' \in BOOLEAN
    BY <1>1, <1>2
  <1>11. outstanding' = outstanding - 1 /\ outstanding' \in Nat
    BY <1>2, <1>3 DEF n
  <1>12. CASE start \/ failedOpen
    <2>1. at[CloseOp] = "cached" /\ outstanding' = 0
      BY <1>2, <1>4, <1>6, <1>12
    <2>2. at'[CloseOp] = IF cstate = "CLOSING" THEN "starting" ELSE "fired"
      BY <1>4, <1>6, <1>8, <1>12
    <2> QED
      BY <1>2, <1>8, <1>9, <1>10, <1>11, <2>1, <2>2
  <1>13. CASE ~start /\ ~failedOpen
    <2>1. closeStarted' = closeStarted
      BY <1>1, <1>2, <1>13
    <2>2. at[CloseOp] = "cached" => n # 0
      BY <1>4, <1>5, <1>7, <1>13
    <2>3. at[CloseOp] = "cached" => outstanding' > 0
      BY <1>2, <1>3, <2>2
    <2>4. at'[CloseOp] = at[CloseOp] /\ cstate # "OPENING_AND_CLOSING"
      BY <1>5, <1>8, <1>13
    <2> QED
      BY <1>2, <1>8, <1>9, <1>10, <1>11, <2>1, <2>3, <2>4
  <1> QED
    BY <1>12, <1>13

\* The handle's part of such a step.
LEMMA OpenMoves ==
  ASSUME Good, UNCHANGED <<conf, hstate, openOp, closeOp, deferred, openOk, inClose>>,
         \A x \in Data : at'[x] = at[x],
         ost'[CloseOp] = ost[CloseOp], reg'[CloseOp] = reg[CloseOp],
         ost'[OpenOp] = ost[OpenOp] \/ (ost[OpenOp] = "FINISHED" /\ ost'[OpenOp] = "FREED"),
         \/ at[OpenOp] = "deliver" /\ at'[OpenOp] = "done"
         \/ /\ at[OpenOp] = "callback" /\ at'[OpenOp] = "callback" /\ early'[OpenOp]
            /\ at[CloseOp] # "deferred" /\ ~deferred,
         outstanding \in Nat, outstanding' \in Nat, outstanding' <= outstanding,
         early[OpenOp] \/ outstanding > 0,
         cstate' = IF cstate = "OPEN_FAILED" THEN "CLOSED"
                   ELSE IF cstate = "OPENING_AND_CLOSING" THEN "CLOSING" ELSE cstate,
         \/ /\ at'[CloseOp] = at[CloseOp] /\ closeStarted' = closeStarted
            /\ cstate # "OPENING_AND_CLOSING"
            /\ at[CloseOp] = "cached" => outstanding' > 0
         \/ /\ at[CloseOp] = "cached" /\ outstanding' = 0
            /\ at'[CloseOp] = IF cstate = "CLOSING" THEN "starting" ELSE "fired"
  PROVE  Lifecycle' /\ Waiting' /\ DataOpen' /\ Entry'
  <1>1. Idle' = Idle /\ \A x \in Data : (at'[x] \in Below <=> at[x] \in Below)
    BY DataSame
  <1>2. Lifecycle'
    BY <1>1 DEF Good, Lifecycle, Below, Over, Operating
  <1>3. Waiting'
    BY <1>1 DEF Good, Waiting, Below, Over, Live
  <1>4. DataOpen'
    BY <1>1 DEF Good, DataOpen
  <1>5. Entry'
    <2>1. at'[CloseOp] \in {"starting", "driver", "fired"} => outstanding' = 0
      BY DEF Good, Entry
    <2>2. at'[CloseOp] \in {"callback", "done", "failed"} => outstanding' = 0 \/ Idle'
      BY <1>1 DEF Good, Entry
    <2>3. at'[CloseOp] \in {"starting", "driver"} => cstate' = "CLOSING"
      BY DEF Good, Entry
    <2>4. at'[CloseOp] = "toPass" => cstate' \in {"OPEN", "OPEN_FAILED"}
      <3>1. at'[CloseOp] = "toPass" => at[CloseOp] = "toPass" /\ openOk
        BY DEF Good, Waiting
      <3> QED
        BY <3>1 DEF Good, Entry
    <2>5. at'[CloseOp] = "cached" => /\ cstate' \in {"CLOSING", "OPENING_AND_CLOSING"}
                                     /\ ~closeStarted' /\ outstanding' > 0
      BY DEF Good, Entry
    <2>6. at'[CloseOp] \in {"new", "unopened", "deferred", "toPass"} =>
             ~closeStarted' /\ cstate' \notin {"CLOSING", "OPENING_AND_CLOSING"}
      BY DEF Good, Entry
    <2>7. cstate' \notin {"OPEN_FAILED", "OPENING_AND_CLOSING", "NONE", "OPENING"}
      BY DEF Good, Entry
    <2>8. /\ at'[OpenOp] \notin {"new", "driver", "fired"} /\ (at'[OpenOp] = "callback" => early'[OpenOp])
      OBVIOUS
    <2> QED
      BY <2>1, <2>2, <2>3, <2>4, <2>5, <2>6, <2>7, <2>8 DEF Entry
  <1> QED
    BY <1>2, <1>3, <1>4, <1>5

\* ... and the operations and the counts.
LEMMA OpenStep ==
  ASSUME Good, conf' = conf, hstate' = hstate, inClose' = inClose, OpGood(OpenOp)',
         \A x \in Op : x # OpenOp /\ x # CloseOp => Untouched(x),
         \/ at'[CloseOp] = at[CloseOp]
         \/ at[CloseOp] = "cached" /\ at'[CloseOp] \in {"starting", "fired"},
         ost'[CloseOp] = ost[CloseOp], oref'[CloseOp] = oref[CloseOp],
         timer'[CloseOp] = timer[CloseOp], asking'[CloseOp] = asking[CloseOp],
         reg'[CloseOp] = reg[CloseOp], early'[CloseOp] = early[CloseOp],
         late'[CloseOp] = late[CloseOp], calls'[CloseOp] = calls[CloseOp],
         outstanding' = outstanding + One(OpenOp \in Out') - One(OpenOp \in Out),
         href' = href + One(OpenOp \in Owners') - One(OpenOp \in Owners)
  PROVE  /\ OpInv' /\ Counts' /\ href' \in Nat /\ outstanding' \in Nat
         /\ href' = 0 => hstate' = "CLOSED"
  <1>1. OpenOp \in Op /\ CloseOp \in Op /\ OpenOp # CloseOp /\ href \in Nat
    BY Kinds3 DEF Good, TypeOK
  <1>2. /\ OpGood(CloseOp)' /\ (CloseOp \in Out <=> CloseOp \in Out')
        /\ (CloseOp \in Owners <=> CloseOp \in Owners')
    <2>1. CASE at'[CloseOp] = at[CloseOp]
      <3>1. Untouched(CloseOp)
        BY <2>1 DEF Untouched
      <3> QED
        BY <1>1, <3>1, UntouchedKeeps DEF Untouched, Out, Owners, Live
    <2>2. CASE at'[CloseOp] # at[CloseOp]
      BY <2>2, CloseStarts
    <2> QED
      BY <2>1, <2>2
  <1>3. OpInv'
    <2>1. ASSUME NEW x \in Op, x # OpenOp, x # CloseOp PROVE OpGood(x)'
      BY <2>1, UntouchedKeeps
    <2> QED
      BY <1>2, <2>1 DEF OpInv, OpGood
  <1>4. \A x \in Op : x # OpenOp => (x \in Out <=> x \in Out') /\ (x \in Owners <=> x \in Owners')
    BY <1>2 DEF Untouched, Out, Owners, Live
  <1>5. Counts /\ One(hstate # "CLOSED") \in Int /\ One(OpenOp \in Owners') \in Int
        /\ One(OpenOp \in Owners) \in Int
    BY DEF Good, One
  <1>6. href' = href + One(OpenOp \in Owners') - One(OpenOp \in Owners)
                   + One(hstate' # "CLOSED") - One(hstate # "CLOSED")
    BY <1>1, <1>5
  <1> QED
    BY <1>1, <1>3, <1>4, <1>5, <1>6, CountsStep

LEMMA KeepOpenDelivered ==
  ASSUME Good, Delivered(OpenOp)
  PROVE  Good'
  <1> USE DEF Delivered, links, timing
  <1> DEFINE o == OpenOp
             a == [at EXCEPT ![o] = "done"]
  <1>1. /\ o \in Op /\ o # CloseOp /\ CloseOp \in Op /\ closeStarted \in BOOLEAN
        /\ href \in Nat /\ outstanding \in Nat /\ at \in [Op -> PlaceSet]
        /\ early \in [Op -> BOOLEAN] /\ \A x \in Data : x # o /\ x # CloseOp /\ x \in Op
    BY Kinds3 DEF Good, TypeOK, PlaceSet
  <1>2. a \in [Op -> PlaceSet] /\ a[o] = "done" /\ \A x \in Op : x # o => a[x] = at[x]
    BY <1>1 DEF PlaceSet
  <1>3. o \in Out <=> ~early[o]
    BY <1>1 DEF Out, Counted
  <1>4. /\ outstanding' = outstanding - One(~early[o]) /\ outstanding' \in Nat
        /\ outstanding' <= outstanding /\ (early[o] \/ outstanding > 0)
        /\ UNCHANGED <<inClose, openOk>>
        /\ \A x \in Op : x # CloseOp => at'[x] = a[x]
        /\ at' \in [Op -> PlaceSet] /\ closeStarted' \in BOOLEAN
        /\ cstate' = IF cstate = "OPEN_FAILED" THEN "CLOSED"
                     ELSE IF cstate = "OPENING_AND_CLOSING" THEN "CLOSING" ELSE cstate
        /\ \/ /\ at'[CloseOp] = at[CloseOp] /\ closeStarted' = closeStarted
              /\ cstate # "OPENING_AND_CLOSING"
              /\ at[CloseOp] = "cached" => outstanding' > 0
           \/ /\ at[CloseOp] = "cached" /\ outstanding' = 0
              /\ at'[CloseOp] = IF cstate = "CLOSING" THEN "starting" ELSE "fired"
    <2>1. CASE early[o]
      <3>1. at' = a /\ UNCHANGED below
        BY <2>1
      <3>2. cstate \notin {"OPEN_FAILED", "OPENING_AND_CLOSING"} /\ (at[CloseOp] = "cached" => outstanding > 0)
        BY <2>1 DEF Good, Entry
      <3>3. outstanding' = outstanding - One(~early[o]) /\ outstanding' = outstanding
        BY <1>1, <2>1, <3>1 DEF below, One
      <3>4. outstanding' \in Nat /\ outstanding' <= outstanding
        BY <1>1, <3>3
      <3> HIDE DEF a
      <3> QED
        BY <1>1, <1>2, <2>1, <3>1, <3>2, <3>3, <3>4 DEF below
    <2>2. CASE ~early[o]
      <3>1. ContextDelivered(o, a) /\ a[CloseOp] = at[CloseOp] /\ o \in Out
        BY <1>1, <1>2, <1>3, <2>2
      <3> HIDE DEF a
      <3>2. /\ outstanding' = outstanding - 1 /\ outstanding' \in Nat /\ UNCHANGED <<inClose, openOk>>
            /\ \A x \in Op : x # CloseOp => at'[x] = a[x]
            /\ at' \in [Op -> PlaceSet] /\ closeStarted' \in BOOLEAN
            /\ cstate' = IF cstate = "OPEN_FAILED" THEN "CLOSED"
                         ELSE IF cstate = "OPENING_AND_CLOSING" THEN "CLOSING" ELSE cstate
            /\ \/ /\ at'[CloseOp] = at[CloseOp] /\ closeStarted' = closeStarted
                  /\ cstate # "OPENING_AND_CLOSING"
                  /\ at[CloseOp] = "cached" => outstanding' > 0
               \/ /\ at[CloseOp] = "cached" /\ outstanding' = 0
                  /\ at'[CloseOp] = IF cstate = "CLOSING" THEN "starting" ELSE "fired"
        BY <1>2, <3>1, OpenContext
      <3>3. outstanding' = outstanding - One(~early[o]) /\ outstanding' <= outstanding /\ outstanding > 0
        BY <1>1, <2>2, <3>2 DEF One
      <3> QED
        BY <3>2, <3>3
    <2> QED
      BY <2>1, <2>2
  <1> HIDE DEF a
  <1>5. at'[o] = "done" /\ \A x \in Op : x # o /\ x # CloseOp => at'[x] = at[x]
    BY <1>1, <1>2, <1>4
  <1>6. /\ OpGood(o)' /\ Live(o) /\ oref' \in [Op -> Nat] /\ ost' \in [Op -> OpStates]
        /\ early' \in [Op -> BOOLEAN] /\ ~early'[o]
        /\ ost'[o] = ost[o] \/ (ost[o] = "FINISHED" /\ ost'[o] = "FREED")
        /\ href' = href - One(ost'[o] = "FREED")
        /\ \A x \in Op : x # o => oref'[x] = oref[x] /\ ost'[x] = ost[x] /\ early'[x] = early[x]
        /\ fault' = (fault \/ ~(href' >= 0 /\ (href' = 0 => hstate = "CLOSED")))
    BY <1>1, <1>4, <1>5, OpDelivered
  <1>7. o \notin Out' /\ o \in Owners /\ (o \in Owners' <=> ost'[o] # "FREED")
    BY <1>1, <1>5, <1>6 DEF Out, Owners, Counted, Live
  <1>8. /\ outstanding' = outstanding + One(o \in Out') - One(o \in Out)
        /\ href' = href + One(o \in Owners') - One(o \in Owners)
    <2>1. outstanding' = outstanding + One(o \in Out') - One(o \in Out)
      BY <1>1, <1>3, <1>4, <1>7 DEF One
    <2>2. href' = href + One(o \in Owners') - One(o \in Owners)
      BY <1>1, <1>6, <1>7 DEF One
    <2> QED
      BY <2>1, <2>2
  <1>9. \A x \in Op : x # o /\ x # CloseOp => Untouched(x)
    BY <1>5, <1>6 DEF Untouched
  <1>10. /\ ost'[CloseOp] = ost[CloseOp] /\ oref'[CloseOp] = oref[CloseOp]
         /\ early'[CloseOp] = early[CloseOp]
         /\ \/ at'[CloseOp] = at[CloseOp]
            \/ at[CloseOp] = "cached" /\ at'[CloseOp] \in {"starting", "fired"}
    BY <1>1, <1>4, <1>6
  <1>11. OpInv' /\ Counts' /\ href' \in Nat /\ (href' = 0 => hstate' = "CLOSED")
    BY <1>4, <1>6, <1>8, <1>9, <1>10, OpenStep
  <1>12. Lifecycle' /\ Waiting' /\ DataOpen' /\ Entry'
    BY <1>1, <1>4, <1>5, <1>6, <1>10, OpenMoves
  <1>13. TypeOK' /\ fault' = FALSE
    <2>1. href' >= 0
      BY <1>11
    <2>2. fault' = FALSE
      BY <1>6, <1>11, <2>1 DEF Good
    <2>3. cstate' \in {"NONE", "OPENING", "OPEN", "OPEN_FAILED", "OPENING_AND_CLOSING", "CLOSING", "CLOSED"}
      BY <1>4 DEF Good, TypeOK
    <2> QED
      BY <1>4, <1>6, <1>11, <2>2, <2>3 DEF Good, TypeOK, PlaceSet, OpStates
  <1> QED
    BY <1>11, <1>12, <1>13 DEF Good

LEMMA KeepOpenEarly ==
  ASSUME Safe, Good, DeliveredEarly(OpenOp)
  PROVE  Good'
  <1> USE DEF DeliveredEarly, refs, links, timing
  <1> DEFINE o == OpenOp
  <1>1. /\ o \in Op /\ o # CloseOp /\ CloseOp \in Op
        /\ href \in Nat /\ outstanding \in Nat /\ at \in [Op -> PlaceSet]
        /\ early \in [Op -> BOOLEAN] /\ \A x \in Data : x # o /\ x # CloseOp /\ x \in Op
    BY Kinds3 DEF Good, TypeOK, PlaceSet
  <1>2. o \in Out
    BY <1>1 DEF Out, Counted
  <1>3. /\ outstanding' = outstanding - 1 /\ outstanding' \in Nat /\ UNCHANGED <<inClose, openOk>>
        /\ \A x \in Op : x # CloseOp => at'[x] = at[x]
        /\ at' \in [Op -> PlaceSet] /\ closeStarted' \in BOOLEAN
        /\ cstate' = IF cstate = "OPEN_FAILED" THEN "CLOSED"
                     ELSE IF cstate = "OPENING_AND_CLOSING" THEN "CLOSING" ELSE cstate
        /\ \/ /\ at'[CloseOp] = at[CloseOp] /\ closeStarted' = closeStarted
              /\ cstate # "OPENING_AND_CLOSING"
              /\ at[CloseOp] = "cached" => outstanding' > 0
           \/ /\ at[CloseOp] = "cached" /\ outstanding' = 0
              /\ at'[CloseOp] = IF cstate = "CLOSING" THEN "starting" ELSE "fired"
    BY <1>1, <1>2, OpenContext
  <1>4. outstanding' <= outstanding /\ outstanding > 0
    BY <1>1, <1>3
  <1>5. at'[o] = at[o] /\ at[o] = "callback" /\ \A x \in Op : x # o /\ x # CloseOp => at'[x] = at[x]
    BY <1>1, <1>3
  <1>6. /\ OpGood(o)' /\ o \notin Out' /\ (o \in Owners' <=> o \in Owners)
        /\ early' \in [Op -> BOOLEAN] /\ \A x \in Op : x # o => early'[x] = early[x]
    BY <1>1, <1>3, <1>5, OpEarly
  <1>7. early'[o] = TRUE
    BY <1>1
  <1>8. ~deferred /\ at[CloseOp] # "deferred"
    BY DEF Safe, Good, Waiting
  <1>9. /\ outstanding' = outstanding + One(o \in Out') - One(o \in Out)
        /\ href' = href + One(o \in Owners') - One(o \in Owners)
    BY <1>1, <1>2, <1>3, <1>6 DEF One
  <1>10. \A x \in Op : x # o /\ x # CloseOp => Untouched(x)
    BY <1>3, <1>5, <1>6 DEF Untouched
  <1>11. /\ early'[CloseOp] = early[CloseOp]
         /\ \/ at'[CloseOp] = at[CloseOp]
            \/ at[CloseOp] = "cached" /\ at'[CloseOp] \in {"starting", "fired"}
    BY <1>1, <1>3, <1>6
  <1>12. OpInv' /\ Counts'
    BY <1>3, <1>6, <1>9, <1>10, <1>11, OpenStep
  <1>13. Lifecycle' /\ Waiting' /\ DataOpen' /\ Entry'
    BY <1>1, <1>3, <1>4, <1>5, <1>7, <1>8, OpenMoves
  <1>14. TypeOK' /\ fault' = FALSE
    <2>1. cstate' \in {"NONE", "OPENING", "OPEN", "OPEN_FAILED", "OPENING_AND_CLOSING", "CLOSING", "CLOSED"}
      BY <1>3 DEF Good, TypeOK
    <2> QED
      BY <1>3, <1>6, <2>1 DEF Good, TypeOK, PlaceSet
  <1> QED
    BY <1>12, <1>13, <1>14 DEF Good

-----------------------------------------------------------------------------
(* The close *)

\* The user is called back for a close when no data operation is below any more.
LEMMA DataQuiet ==
  ASSUME Good, at[CloseOp] \in {"callback", "done", "failed"}
  PROVE  \A x \in Data : at[x] \notin Below
  <1>1. ASSUME NEW x \in Data, at[x] \in Below PROVE FALSE
    <2>1. x \in Op /\ x # CloseOp /\ OpGood(x)
      BY Kinds3 DEF Good, OpInv, OpGood
    <2>2. ~early[x]
      BY <1>1, <2>1 DEF OpGood, Threads, Below
    <2>3. x \in Out
      BY <1>1, <2>1, <2>2 DEF Out, Below, Counted
    <2>4. outstanding > 0 /\ outstanding \in Nat
      BY <2>3, OutPositive
    <2>5. ~Idle
      BY <1>1 DEF Idle, Below
    <2> QED
      BY <2>4, <2>5 DEF Good, Entry
  <1> QED
    BY <1>1

\* A close under way that does not wait for the open.
LEMMA ClosingState ==
  ASSUME Good, ost[CloseOp] \in Operating \cup {"FINISH_WAITING"},
         at[CloseOp] \notin {"unopened", "deferred"}
  PROVE  hstate = "CLOSING" /\ at[OpenOp] \notin Below
  <1>1. OpGood(CloseOp) /\ hstate \in HandleStates
    BY Kinds3 DEF Good, OpInv, OpGood, TypeOK
  <1>2. at[CloseOp] # "new"
    BY <1>1 DEF OpGood, Places, Operating
  <1>3. hstate = "CLOSING"
    BY <1>1, <1>2 DEF Good, Lifecycle, HandleStates, Opening, Operating, Over
  <1> QED
    BY <1>3 DEF Good, Lifecycle

LEMMA FreshClose ==
  ASSUME Good, ost[CloseOp] = "NONE"
  PROVE  /\ at[CloseOp] = "new" /\ reg[CloseOp] = "none" /\ timer[CloseOp] = "none"
         /\ ~asking[CloseOp] /\ ~early[CloseOp] /\ ~late[CloseOp] /\ calls[CloseOp] = 0
         /\ ~inClose /\ ~deferred
  <1>1. OpGood(CloseOp) /\ CloseOp \in Op
    BY Kinds3 DEF Good, OpInv, OpGood
  <1>2. at[CloseOp] = "new"
    BY <1>1 DEF OpGood, Places
  <1>3. reg[CloseOp] = "none" /\ timer[CloseOp] = "none" /\ ~early[CloseOp]
    BY <1>1, <1>2 DEF OpGood, Threads
  <1>4. ~asking[CloseOp] /\ ~late[CloseOp] /\ calls[CloseOp] = 0
    BY <1>1 DEF OpGood, Called, One
  <1>5. ~inClose /\ ~deferred
    BY <1>2 DEF Good, Waiting
  <1> QED
    BY <1>2, <1>3, <1>4, <1>5

\* A new close operation.
LEMMA OpClose ==
  ASSUME Good, ost[CloseOp] = "NONE", conf' = conf,
         \/ ost'[CloseOp] = "FINISH_WAITING" /\ at'[CloseOp] = "unopened"
         \/ ost'[CloseOp] = "OPERATING" /\ at'[CloseOp] \in {"deferred", "toPass"},
         oref'[CloseOp] = 1, timer'[CloseOp] = timer[CloseOp],
         UNCHANGED <<asking, reg, early, late, calls, inClose>>
  PROVE  /\ OpGood(CloseOp)' /\ CloseOp \notin Out /\ CloseOp \notin Out' /\ CloseOp \notin Owners
         /\ CloseOp \in Owners' <=> at'[CloseOp] = "unopened"
  <1>1. /\ at[CloseOp] = "new" /\ reg[CloseOp] = "none" /\ timer[CloseOp] = "none"
        /\ ~asking[CloseOp] /\ ~early[CloseOp] /\ ~late[CloseOp] /\ calls[CloseOp] = 0 /\ ~inClose
    BY FreshClose
  <1>2. CloseOp \in Op /\ CloseOp # OpenOp
    BY Kinds3
  <1>3. Places(CloseOp)' /\ Threads(CloseOp)'
    BY <1>1, <1>2 DEF Places, Threads, Operating, Before
  <1>4. Called(CloseOp)'
    BY <1>1 DEF Called, One
  <1>5. Own(CloseOp)' = 1 /\ Tim(CloseOp)' = 0 /\ Reg(CloseOp)' = 0 /\ Kick(CloseOp)' = 0 /\ Clo(CloseOp)' = 0
    BY <1>1 DEF Own, Live, Tim, Reg, Kick, Clo, One
  <1>6. Refs(CloseOp)'
    BY <1>2, <1>5, HoldersNext DEF Refs
  <1> QED
    BY <1>1, <1>2, <1>3, <1>4, <1>6 DEF OpGood, Out, Owners, Live

LEMMA KeepCloseUnopened ==
  ASSUME Good, CloseUnopened
  PROVE  Good'
  <1> USE DEF CloseUnopened, MayClose, NewCloseOp, timing, below
  <1> DEFINE o == CloseOp
  <1>1. /\ o \in Op /\ o # OpenOp /\ OpenOp \in Op /\ OpGood(OpenOp)
        /\ href \in Nat /\ outstanding \in Nat /\ at \in [Op -> PlaceSet]
        /\ ost \in [Op -> OpStates] /\ oref \in [Op -> Nat]
        /\ \A x \in Data : x # o /\ x \in Op
    BY Kinds3 DEF Good, TypeOK, OpInv, OpGood, PlaceSet, OpStates
  <1>2. /\ ost'[o] = "FINISH_WAITING" /\ at'[o] = "unopened" /\ oref'[o] = 1
        /\ \A x \in Op : x # o => ost'[x] = ost[x] /\ at'[x] = at[x] /\ oref'[x] = oref[x]
    BY <1>1
  <1>3. at[o] = "new" /\ reg[o] = "none" /\ ~inClose /\ ~deferred
    BY FreshClose
  <1>4. OpGood(o)' /\ o \notin Out /\ o \notin Out' /\ o \notin Owners /\ o \in Owners'
    BY <1>2, OpClose
  <1>5. hstate \in {"CLIENT", "OPEN_FAILED"} /\ ost[OpenOp] \in {"NONE"} \cup Over /\ ~openOk
        /\ at[OpenOp] \notin Below /\ Idle
    <2>1. hstate \in {"CLIENT", "OPEN_FAILED"}
      BY DEF Unopened
    <2>2. hstate = "CLIENT" => ost[OpenOp] = "NONE" /\ ~openOk
      BY <1>1 DEF Good, Lifecycle, Entry, OpGood, Places
    <2>3. hstate = "OPEN_FAILED" => ost[OpenOp] \in Over /\ ~openOk
      BY DEF Good, Lifecycle
    <2>4. at[OpenOp] \notin Below
      BY <2>1 DEF Good, Lifecycle
    <2>5. Idle
      BY <2>1 DEF Good, DataOpen, Opening
    <2> QED
      BY <2>1, <2>2, <2>3, <2>4, <2>5
  <1>6. \A x \in Op : x # o => Untouched(x)
    BY <1>2 DEF Untouched
  <1>7. OpInv' /\ Counts' /\ href' \in Nat
    <2>1. outstanding' = outstanding + One(o \in Out') - One(o \in Out)
      BY <1>1, <1>4 DEF One
    <2>2. href' = href + One(o \in Owners') - One(o \in Owners)
                   + One(hstate' # "CLOSED") - One(hstate # "CLOSED")
      BY <1>1, <1>4, <1>5 DEF One
    <2> QED
      BY <1>1, <1>4, <1>6, <2>1, <2>2, OneOpStep
  <1>8. at'[OpenOp] = at[OpenOp] /\ ost'[OpenOp] = ost[OpenOp] /\ Idle' /\ \A x \in Data : at'[x] = "new"
    BY <1>1, <1>2, <1>5 DEF Idle
  <1>9. Lifecycle'
    BY <1>2, <1>5, <1>8 DEF Good, Lifecycle, Opening, Operating
  <1>10. Waiting'
    BY <1>2, <1>3, <1>5, <1>8 DEF Good, Waiting
  <1>11. DataOpen'
    BY <1>5, <1>8 DEF Good, DataOpen, Below
  <1>12. Entry'
    BY <1>2, <1>3, <1>8 DEF Good, Entry
  <1>13. TypeOK' /\ fault' = FALSE
    BY <1>1, <1>7 DEF Good, TypeOK, PlaceSet, OpStates, HandleStates
  <1> QED
    BY <1>7, <1>9, <1>10, <1>11, <1>12, <1>13 DEF Good

LEMMA KeepUnopenedCloseCallback ==
  ASSUME Good, UnopenedCloseCallback
  PROVE  Good'
  <1> USE DEF UnopenedCloseCallback, refs, links, timing, below
  <1> DEFINE o == CloseOp
  <1>1. /\ o \in Op /\ o # OpenOp /\ OpenOp \in Op /\ OpGood(OpenOp) /\ OpGood(o)
        /\ href \in Nat /\ outstanding \in Nat /\ at \in [Op -> PlaceSet] /\ calls \in [Op -> Nat]
        /\ \A x \in Data : x # o /\ x \in Op
    BY Kinds3 DEF Good, TypeOK, OpInv, OpGood, PlaceSet
  <1>2. /\ hstate = "OPENING_AND_CLOSING" /\ ost[o] = "FINISH_WAITING" /\ calls[o] = 0 /\ ~inClose
        /\ reg[o] = "none" /\ timer[o] = "none" /\ ~asking[o] /\ ~late[o]
    <2>1. hstate = "OPENING_AND_CLOSING" /\ ~inClose
      BY DEF Good, Lifecycle, Waiting
    <2>2. ost[o] = "FINISH_WAITING" /\ reg[o] = "none" /\ timer[o] = "none"
      BY <1>1 DEF OpGood, Places, Threads
    <2> QED
      BY <1>1, <2>1, <2>2 DEF OpGood, Called, One
  <1>3. /\ at'[o] = "callback" /\ calls'[o] = 1 /\ calls' \in [Op -> Nat]
        /\ \A x \in Op : x # o => at'[x] = at[x] /\ calls'[x] = calls[x]
    BY <1>1, <1>2
  <1>4. OpGood(o)'
    <2>1. Places(o)' /\ Threads(o)'
      BY <1>1, <1>2, <1>3 DEF OpGood, Places, Threads, Timed, Operating, Before
    <2>2. Called(o)'
      BY <1>2, <1>3 DEF Called, One
    <2>3. Own(o)' = Own(o) /\ Tim(o)' = Tim(o) /\ Reg(o)' = Reg(o) /\ Kick(o)' = Kick(o) /\ Clo(o)' = Clo(o)
      BY <1>3 DEF Own, Live, Tim, Reg, Kick, Clo, One
    <2>4. Holders(o)' = Holders(o)
      BY <1>1, <2>3, HoldersAre, HoldersNext
    <2>5. Refs(o)'
      BY <1>1, <2>4 DEF OpGood, Refs, Live
    <2> QED
      BY <2>1, <2>2, <2>5 DEF OpGood
  <1>5. o \notin Out /\ o \notin Out' /\ o \in Owners /\ o \in Owners'
    BY <1>1, <1>2, <1>3 DEF Out, Owners, Live
  <1>6. ost[OpenOp] \in {"NONE"} \cup Over /\ ~openOk /\ Idle /\ at[OpenOp] \notin Below
    <2>1. ost[OpenOp] \in {"NONE"} \cup Over /\ ~openOk
      BY DEF Good, Waiting
    <2>2. Idle
      BY <2>1 DEF Good, DataOpen
    <2>3. at[OpenOp] \notin Below
      BY <1>1, <2>1 DEF OpGood, Places, Over, Operating, Before, Below
    <2> QED
      BY <2>1, <2>2, <2>3
  <1>7. \A x \in Op : x # o => Untouched(x)
    BY <1>3 DEF Untouched
  <1>8. OpInv' /\ Counts'
    <2>1. outstanding' = outstanding + One(o \in Out') - One(o \in Out)
      BY <1>1, <1>5 DEF One
    <2>2. href' = href + One(o \in Owners') - One(o \in Owners)
                   + One(hstate' # "CLOSED") - One(hstate # "CLOSED")
      BY <1>1, <1>2, <1>5 DEF One
    <2> QED
      BY <1>1, <1>4, <1>7, <2>1, <2>2, OneOpStep
  <1>9. at'[OpenOp] = at[OpenOp] /\ Idle' /\ \A x \in Data : at'[x] = "new"
    BY <1>1, <1>3, <1>6 DEF Idle
  <1>10. Lifecycle'
    BY <1>2, <1>3, <1>6, <1>9 DEF Good, Lifecycle, Opening, Operating
  <1>11. Waiting'
    BY <1>2, <1>3, <1>6, <1>9 DEF Good, Waiting
  <1>12. DataOpen'
    BY <1>6, <1>9 DEF Good, DataOpen, Below
  <1>13. Entry'
    BY <1>3, <1>9 DEF Good, Entry
  <1>14. TypeOK' /\ fault' = FALSE
    BY <1>1, <1>3 DEF Good, TypeOK, PlaceSet, HandleStates
  <1> QED
    BY <1>8, <1>10, <1>11, <1>12, <1>13, <1>14 DEF Good

LEMMA KeepCloseOpening ==
  ASSUME Safe, Good, NEW cancel \in BOOLEAN, CloseOpening(cancel)
  PROVE  Good'
  <1> USE DEF CloseOpening, MayClose, NewCloseOp, below
  <1> DEFINE o == CloseOp
  <1>1. /\ o \in Op /\ o # OpenOp /\ OpenOp \in Op /\ OpGood(OpenOp)
        /\ href \in Nat /\ outstanding \in Nat /\ at \in [Op -> PlaceSet]
        /\ ost \in [Op -> OpStates] /\ oref \in [Op -> Nat] /\ canceled \in [Op -> BOOLEAN]
        /\ timer \in [Op -> {"none", "registered", "firing", "refused"}]
        /\ \A x \in Data : x # o /\ x \in Op
    BY Kinds3 DEF Good, TypeOK, OpInv, OpGood, PlaceSet, OpStates
  <1>2. conf.eager /\ "open" \notin conf.timed /\ ~Timed(OpenOp) /\ timer[OpenOp] = "none"
    <2>1. conf.eager /\ "open" \notin conf.timed
      BY DEF Safe
    <2> QED
      BY <1>1, <2>1, Kinds3 DEF Timed, OpGood, Threads
  <1>3. /\ timer' = timer /\ oref' = [x \in Op |-> IF x = o THEN 1 ELSE oref[x]]
    <2> DEFINE hit == IF cancel /\ hstate = "OPENING" /\ ~canceled[OpenOp]
                          /\ Unregistered(OpenOp) THEN {OpenOp} ELSE {}
    <2>1. hit = {}
      BY <1>2 DEF Unregistered
    <2>2. /\ timer' = [x \in Op |-> IF x \in hit THEN "none" ELSE timer[x]]
          /\ oref' = [x \in Op |-> IF x = o THEN 1 ELSE oref[x] - One(x \in hit)]
      OBVIOUS
    <2> HIDE DEF hit
    <2>3. timer' = timer
      BY <1>1, <2>1, <2>2
    <2>4. oref' = [x \in Op |-> IF x = o THEN 1 ELSE oref[x]]
      BY <1>1, <2>1, <2>2 DEF One
    <2> QED
      BY <2>3, <2>4
  <1>4. /\ ost'[o] = "OPERATING" /\ at'[o] = "deferred" /\ oref'[o] = 1 /\ oref' \in [Op -> Nat]
        /\ \A x \in Op : x # o => ost'[x] = ost[x] /\ at'[x] = at[x] /\ oref'[x] = oref[x]
    BY <1>1, <1>3
  <1>5. at[o] = "new" /\ reg[o] = "none" /\ ~inClose /\ ~deferred
    BY FreshClose
  <1>6. OpGood(o)' /\ o \notin Out /\ o \notin Out' /\ o \notin Owners /\ o \notin Owners'
    BY <1>3, <1>4, OpClose
  <1>7. hstate \in {"OPENING", "OPENING_FAILED"} /\ at[OpenOp] \in Below \cup {"callback"} /\ Idle
    <2>1. hstate \in {"OPENING", "OPENING_FAILED"}
      BY DEF StillOpening
    <2>2. hstate = "OPENING" => at[OpenOp] \in Below
      BY DEF Good, Lifecycle
    <2>3. hstate = "OPENING_FAILED" => at[OpenOp] = "callback"
      <3>1. ASSUME hstate = "OPENING_FAILED" PROVE at[OpenOp] = "callback"
        <4>1. ost[OpenOp] = "FINISH_WAITING"
          BY <3>1 DEF Good, Lifecycle
        <4>2. ~asking[OpenOp] /\ ~late[OpenOp]
          BY <1>1, <1>2 DEF OpGood, Threads, Called
        <4> QED
          BY <1>1, <4>1, <4>2 DEF OpGood, Places, Called, Counted
      <3> QED
        BY <3>1
    <2>4. Idle
      BY <2>1 DEF Good, DataOpen, Opening
    <2> QED
      BY <2>1, <2>2, <2>3, <2>4
  <1>8. \A x \in Op : x # o => Untouched(x)
    BY <1>3, <1>4 DEF Untouched
  <1>9. OpInv' /\ Counts' /\ href' \in Nat
    <2>1. outstanding' = outstanding + One(o \in Out') - One(o \in Out)
      BY <1>1, <1>6 DEF One
    <2>2. href' = href + One(o \in Owners') - One(o \in Owners)
                   + One(hstate' # "CLOSED") - One(hstate # "CLOSED")
      BY <1>1, <1>6, <1>7 DEF One
    <2> QED
      BY <1>1, <1>6, <1>8, <2>1, <2>2, OneOpStep
  <1>10. at'[OpenOp] = at[OpenOp] /\ ost'[OpenOp] = ost[OpenOp] /\ Idle' /\ \A x \in Data : at'[x] = "new"
    BY <1>1, <1>4, <1>7 DEF Idle
  <1>11. Lifecycle'
    BY <1>4, <1>7, <1>10 DEF Good, Lifecycle, Opening, Operating
  <1>12. Waiting'
    BY <1>2, <1>4, <1>5, <1>7, <1>10 DEF Good, Waiting, Below
  <1>13. DataOpen'
    BY <1>7, <1>10 DEF Good, DataOpen, Below
  <1>14. Entry'
    BY <1>4, <1>5, <1>10 DEF Good, Entry
  <1>15. TypeOK' /\ fault' = FALSE
    <2>1. hstate = "OPENING" => openOp /\ Live(OpenOp)
      <3>1. hstate = "OPENING" => openOp
        BY DEF Good, Lifecycle
      <3>2. openOp => Live(OpenOp)
        BY DEF Good, Lifecycle, Operating, Live
      <3> QED
        BY <3>1, <3>2
    <2>2. fault' = FALSE
      BY <2>1 DEF Good, Insist
    <2>3. canceled' \in [Op -> BOOLEAN]
      BY <1>1
    <2> QED
      BY <1>1, <1>3, <1>4, <1>9, <2>2, <2>3 DEF Good, TypeOK, PlaceSet, OpStates, HandleStates
  <1> QED
    BY <1>9, <1>11, <1>12, <1>13, <1>14, <1>15 DEF Good

LEMMA KeepCloseOpen ==
  ASSUME Good, NEW cancel \in BOOLEAN, CloseOpen(cancel)
  PROVE  Good'
  <1> USE DEF CloseOpen, MayClose, NewCloseOp, below
  <1> DEFINE o == CloseOp
             hit == {x \in Listed : cancel /\ ~canceled[x] /\ Unregistered(x)}
  <1>1. /\ o \in Op /\ o # OpenOp /\ OpenOp \in Op
        /\ href \in Nat /\ outstanding \in Nat /\ at \in [Op -> PlaceSet]
        /\ ost \in [Op -> OpStates] /\ oref \in [Op -> Nat] /\ canceled \in [Op -> BOOLEAN]
        /\ timer \in [Op -> {"none", "registered", "firing", "refused"}]
        /\ \A x \in Data : x # o /\ x # OpenOp /\ x \in Op
    BY Kinds3 DEF Good, TypeOK, OpInv, OpGood, PlaceSet, OpStates
  <1>2. /\ timer' = [x \in Op |-> IF x \in hit THEN "none" ELSE timer[x]]
        /\ oref' = [x \in Op |-> IF x = o THEN 1 ELSE oref[x] - One(x \in hit)]
        /\ ost'[o] = "OPERATING" /\ at'[o] = "toPass"
        /\ \A x \in Op : x # o => ost'[x] = ost[x] /\ at'[x] = at[x]
        /\ canceled' \in [Op -> BOOLEAN]
    BY <1>1
  <1>3. \A x \in hit : x \in Data /\ x # o /\ x # OpenOp /\ timer[x] # "none" /\ ost[x] \in Operating
    <2>1. ASSUME NEW x \in hit PROVE x \in Data /\ timer[x] # "none" /\ ost[x] \in Operating
      <3>1. x \in Data /\ (at[x] \in Below \/ reg[x] = "failed") /\ timer[x] # "none"
        BY DEF Listed, Unregistered, Below
      <3>2. OpGood(x)
        BY <1>1, <3>1 DEF Good, OpInv, OpGood
      <3> QED
        BY <3>1, <3>2 DEF OpGood, Places, Threads, Below, Before
    <2> QED
      BY <1>1, <2>1
  <1>4. at[o] = "new" /\ reg[o] = "none" /\ ~inClose /\ ~deferred
    BY FreshClose
  <1> HIDE DEF hit
  <1>5. OpGood(o)' /\ o \notin Out /\ o \notin Out' /\ o \notin Owners /\ o \notin Owners'
    <2>1. timer'[o] = timer[o] /\ oref'[o] = 1
      BY <1>1, <1>2, <1>3
    <2> QED
      BY <1>2, <2>1, OpClose
  <1>6. ASSUME NEW x \in Op, x # o
        PROVE  OpGood(x)' /\ oref'[x] \in Nat /\ (x \in Out <=> x \in Out') /\ (x \in Owners <=> x \in Owners')
    <2>1. OpGood(x)
      BY DEF Good, OpInv, OpGood
    <2>2. CASE x \in hit
      <3>1. timer'[x] = "none" /\ oref'[x] = oref[x] - 1
        BY <1>2, <1>6, <2>2 DEF One
      <3>2. Own(x) = 1 /\ Own(x)' = 1
        BY <1>2, <1>3, <1>6, <2>1, <2>2 DEF OpGood, Own, Live, One, Places, Operating, Before
      <3>3. Refs(x)' /\ oref'[x] \in Nat
        BY <1>1, <1>2, <1>3, <1>6, <2>1, <2>2, <3>1, <3>2, TimerGoes DEF OpGood
      <3>4. ~asking[x] \/ timer[x] = "firing"
        BY <2>1 DEF OpGood, Called
      <3>5. ~asking[x]
        BY <2>2, <3>4 DEF hit, Unregistered
      <3>6. Places(x)' /\ Threads(x)' /\ Called(x)'
        <4>1. Places(x)' /\ Threads(x)'
          BY <1>2, <1>6, <2>1, <3>1 DEF OpGood, Places, Threads, Timed
        <4>2. Called(x)'
          BY <1>2, <1>6, <2>1, <3>1, <3>5 DEF OpGood, Called
        <4> QED
          BY <4>1, <4>2
      <3> QED
        BY <1>2, <1>6, <3>3, <3>6 DEF OpGood, Out, Owners, Live
    <2>3. CASE x \notin hit
      <3>1. timer'[x] = timer[x] /\ oref'[x] = oref[x]
        BY <1>1, <1>2, <1>6, <2>3 DEF One
      <3>2. Untouched(x)
        BY <1>2, <1>6, <3>1 DEF Untouched
      <3> QED
        BY <1>1, <3>1, <3>2, UntouchedKeeps DEF Untouched, Out, Owners, Live
    <2> QED
      BY <2>2, <2>3
  <1>7. OpInv'
    BY <1>5, <1>6 DEF OpInv, OpGood
  <1>8. Counts' /\ href' \in Nat
    <2>1. \A x \in Op : x # o => (x \in Out <=> x \in Out') /\ (x \in Owners <=> x \in Owners')
      BY <1>6
    <2>2. outstanding' = outstanding + One(o \in Out') - One(o \in Out)
      BY <1>1, <1>5 DEF One
    <2>3. href' = href + One(o \in Owners') - One(o \in Owners)
                   + One(hstate' # "CLOSED") - One(hstate # "CLOSED")
      BY <1>1, <1>5 DEF One
    <2> QED
      BY <1>1, <2>1, <2>2, <2>3, CountsStep DEF Good
  <1>9. /\ at'[OpenOp] = at[OpenOp] /\ ost'[OpenOp] = ost[OpenOp]
        /\ Idle' = Idle /\ \A x \in Data : (at'[x] \in Below <=> at[x] \in Below)
    BY <1>1, <1>2, DataSame
  <1>10. openOk /\ cstate = "OPEN" /\ at[OpenOp] \notin Below
    BY DEF Good, DataOpen, Below
  <1>11. Lifecycle'
    BY <1>2, <1>9, <1>10 DEF Good, Lifecycle, Opening, Operating
  <1>12. Waiting'
    BY <1>2, <1>4, <1>9, <1>10 DEF Good, Waiting
  <1>13. DataOpen'
    BY <1>9, <1>10 DEF Good, DataOpen, Opening
  <1>14. Entry'
    BY <1>2, <1>4, <1>9, <1>10 DEF Good, Entry
  <1>15. TypeOK' /\ fault' = FALSE
    <2>1. oref' \in [Op -> Nat]
      <3>1. \A x \in Op : oref'[x] \in Nat
        <4>1. oref'[o] = 1
          BY <1>1, <1>2
        <4> QED
          BY <1>6, <4>1
      <3> QED
        BY <1>2, <3>1
    <2>2. timer' \in [Op -> {"none", "registered", "firing", "refused"}]
      BY <1>1, <1>2
    <2> QED
      BY <1>1, <1>2, <1>8, <2>1, <2>2 DEF Good, TypeOK, PlaceSet, OpStates, HandleStates
  <1> QED
    BY <1>7, <1>8, <1>11, <1>12, <1>13, <1>14, <1>15 DEF Good

LEMMA KeepBlockingCloseUnopened ==
  ASSUME Good, BlockingCloseUnopened
  PROVE  Good'
  <1> USE DEF BlockingCloseUnopened, links, timing, below
  <1>1. \A x \in Op : Untouched(x)
    BY DEF Untouched
  <1>2. OpInv'
    BY <1>1, UntouchedKeeps DEF OpInv, OpGood
  <1>3. Out' = Out /\ Owners' = Owners
    BY DEF Out, Owners, Live
  <1>4. hstate \in {"CLIENT", "OPEN_FAILED"} /\ at[OpenOp] \notin Below /\ ~openOk /\ Idle
        /\ at[CloseOp] = "new"
    <2>1. hstate \in {"CLIENT", "OPEN_FAILED"} /\ at[CloseOp] = "new"
      BY FreshClose DEF Unopened
    <2>2. ~openOk /\ at[OpenOp] \notin Below
      BY <2>1 DEF Good, Lifecycle, Entry
    <2>3. Idle
      BY <2>2 DEF Good, DataOpen
    <2> QED
      BY <2>1, <2>2, <2>3
  <1>5. Counts' /\ href' \in Nat
    <2>1. Cardinality(Owners) \in Nat
      <3>1. Owners \in SUBSET Op
        BY DEF Owners
      <3> QED
        BY <3>1, OpCard
    <2>2. href' = 0 /\ Cardinality(Owners) = 0
      BY <1>4, <2>1 DEF Good, Counts, One
    <2> QED
      BY <1>3, <2>2 DEF Good, Counts, One
  <1>6. Idle' = Idle /\ \A x \in Data : at[x] \notin Below
    BY <1>4 DEF Idle, Below
  <1>7. Lifecycle'
    BY <1>4 DEF Good, Lifecycle
  <1>8. Waiting' /\ Entry'
    BY <1>6 DEF Good, Waiting, Entry, Live
  <1>9. DataOpen'
    BY <1>4, <1>6 DEF Good, DataOpen
  <1>10. TypeOK' /\ fault' = FALSE
    BY <1>5 DEF Good, TypeOK, HandleStates
  <1> QED
    BY <1>2, <1>5, <1>7, <1>8, <1>9, <1>10 DEF Good

LEMMA KeepRegisterClose ==
  ASSUME Safe, Good, RegisterClose
  PROVE  Good'
  <1> USE DEF RegisterClose, links
  <1> DEFINE o == CloseOp
             go == outstanding = 0
             p == OpenOp
  <1>1. /\ o \in Op /\ o # p /\ p \in Op /\ OpGood(p) /\ OpGood(o)
        /\ href \in Nat /\ outstanding \in Nat /\ at \in [Op -> PlaceSet]
        /\ oref \in [Op -> Nat] /\ timer \in [Op -> {"none", "registered", "firing", "refused"}]
        /\ reg \in [Op -> {"none", "inPass", "returned", "failed"}] /\ closeStarted \in BOOLEAN
        /\ \A x \in Data : x # o /\ x # p /\ x \in Op
    BY Kinds3 DEF Good, TypeOK, OpInv, OpGood, PlaceSet
  <1>2. /\ at'[o] = (IF go THEN "starting" ELSE "cached")
        /\ at'[p] = (IF at[p] = "closing" THEN "deliver" ELSE at[p])
        /\ reg'[o] = (IF go THEN "inPass" ELSE "returned")
        /\ timer'[o] = (IF Timed(o) THEN "registered" ELSE "none")
        /\ \A x \in Op : x # o => reg'[x] = reg[x] /\ timer'[x] = timer[x]
        /\ \A x \in Op : x # o /\ x # p => at'[x] = at[x]
    BY <1>1
  <1>3. /\ oref'[o] = oref[o] + 1 + One(Timed(o)) /\ oref' \in [Op -> Nat]
        /\ \A x \in Op : x # o => oref'[x] = oref[x]
    <2>1. oref[o] + 1 + One(Timed(o)) \in Nat
      BY <1>1 DEF One
    <2> QED
      BY <1>1, <2>1
  <1>4. /\ ost[o] = "OPERATING" /\ reg[o] = "none" /\ timer[o] = "none" /\ ~asking[o]
        /\ ~early[o] /\ ~late[o] /\ calls[o] = 0 /\ ~inClose /\ oref[o] = 1
    <2>1. ost[o] \in Operating /\ reg[o] = "none" /\ timer[o] = "none" /\ ~early[o]
      BY <1>1 DEF OpGood, Places, Threads, Before
    <2>2. ~asking[o] /\ ~late[o] /\ ost[o] = "OPERATING"
      BY <1>1, <2>1 DEF OpGood, Called, Operating
    <2>3. calls[o] = 0
      BY <1>1, <2>2 DEF OpGood, Called, One
    <2>4. ~inClose
      BY DEF Good, Waiting
    <2>5. oref[o] = Own(o) + Tim(o) + Reg(o) + Kick(o) + Clo(o)
      BY <1>1, HoldersAre DEF OpGood, Refs
    <2>6. Own(o) = 1 /\ Tim(o) = 0 /\ Reg(o) = 0 /\ Kick(o) = 0 /\ Clo(o) = 0
      BY <2>1, <2>2, <2>4 DEF Own, Live, Tim, Reg, Kick, Clo, One
    <2> QED
      BY <2>1, <2>2, <2>3, <2>4, <2>5, <2>6
  <1> HIDE DEF go
  <1>5. OpGood(o)'
    <2>1. Timed(o)' <=> Timed(o)
      BY DEF Timed
    <2>2. Places(o)' /\ Threads(o)'
      BY <1>1, <1>2, <1>4, <2>1 DEF Places, Threads, Operating, Before
    <2>3. Called(o)'
      BY <1>2, <1>4 DEF Called, One
    <2>4. Own(o)' = 1 /\ Tim(o)' = One(Timed(o)) /\ Reg(o)' = 1 /\ Kick(o)' = 0 /\ Clo(o)' = 0
      BY <1>2, <1>4 DEF Own, Live, Tim, Reg, Kick, Clo, One
    <2>5. One(Timed(o)) \in {0, 1}
      BY DEF One
    <2>6. Holders(o)' = 1 + One(Timed(o)) + 1 + 0 + 0
      BY <1>1, <2>4, HoldersNext
    <2>7. oref'[o] = 1 + 1 + One(Timed(o))
      BY <1>3, <1>4
    <2>8. Refs(o)'
      BY <2>5, <2>6, <2>7 DEF Refs
    <2> QED
      BY <2>2, <2>3, <2>8 DEF OpGood
  <1>6. OpGood(p)' /\ (p \in Out <=> p \in Out') /\ (p \in Owners <=> p \in Owners')
    <2>1. CASE at[p] = "closing"
      <3>1. ost[p] = "FINISHED" /\ at'[p] = "deliver"
        BY <1>1, <1>2, <2>1 DEF OpGood, Places
      <3>2. Places(p)' /\ Threads(p)'
        BY <1>1, <1>2, <2>1, <3>1 DEF OpGood, Places, Threads, Timed, Operating, Before, Counted
      <3>3. Called(p)'
        BY <1>1, <1>2, <2>1, <3>1 DEF OpGood, Called, One
      <3>4. Own(p)' = Own(p) /\ Tim(p)' = Tim(p) /\ Reg(p)' = Reg(p) /\ Kick(p)' = Kick(p) /\ Clo(p)' = Clo(p)
        BY <1>1, <1>2, <2>1, <3>1 DEF Own, Live, Tim, Reg, Kick, Clo, Counted, One
      <3>5. Holders(p)' = Holders(p)
        BY <1>1, <3>4, HoldersAre, HoldersNext
      <3>6. Refs(p)'
        BY <1>1, <1>3, <3>5 DEF OpGood, Refs, Live
      <3> QED
        BY <1>1, <2>1, <3>1, <3>2, <3>3, <3>6 DEF OpGood, Out, Owners, Live, Counted
    <2>2. CASE at[p] # "closing"
      <3>1. Untouched(p)
        BY <1>1, <1>2, <1>3, <2>2 DEF Untouched
      <3> QED
        BY <1>1, <3>1, UntouchedKeeps DEF Untouched, Out, Owners, Live
    <2> QED
      BY <2>1, <2>2
  <1>7. o \notin Out /\ o \notin Out' /\ o \notin Owners /\ o \in Owners'
    BY <1>1, <1>2, <1>4 DEF Out, Owners, Live
  <1>8. \A x \in Op : x # o /\ x # p => Untouched(x)
    BY <1>2, <1>3 DEF Untouched
  <1>9. OpInv'
    <2>1. ASSUME NEW x \in Op, x # o, x # p PROVE OpGood(x)'
      BY <1>8, <2>1, UntouchedKeeps
    <2> QED
      BY <1>5, <1>6, <2>1 DEF OpInv, OpGood
  <1>10. hstate = "CLOSING" /\ at[p] \notin Below
    BY <1>4, ClosingState DEF Operating
  <1>11. Counts' /\ href' \in Nat
    <2>1. \A x \in Op : x # o => (x \in Out <=> x \in Out') /\ (x \in Owners <=> x \in Owners')
      BY <1>6, <1>8 DEF Untouched, Out, Owners, Live
    <2>2. outstanding' = outstanding + One(o \in Out') - One(o \in Out)
      BY <1>1, <1>7 DEF One
    <2>3. href' = href + One(o \in Owners') - One(o \in Owners)
                   + One(hstate' # "CLOSED") - One(hstate # "CLOSED")
      BY <1>1, <1>7 DEF One
    <2> QED
      BY <1>1, <2>1, <2>2, <2>3, CountsStep DEF Good
  <1>12. /\ cstate \in {"OPEN", "OPEN_FAILED"} /\ ~closeStarted
         /\ cstate' = IF cstate = "OPEN" THEN "CLOSING" ELSE "OPENING_AND_CLOSING"
    <2>1. cstate \in {"OPEN", "OPEN_FAILED"} /\ ~closeStarted
      BY DEF Good, Entry
    <2> QED
      BY <2>1
  <1>13. deferred <=> at[p] = "closing"
    BY DEF Good, Waiting
  <1>14. cstate = "OPEN_FAILED" \/ deferred => ~go
    <2>1. ASSUME cstate = "OPEN_FAILED" \/ deferred PROVE p \in Out
      <3>1. CASE cstate = "OPEN_FAILED"
        BY <1>1, <3>1 DEF Good, Entry, Out
      <3>2. CASE deferred
        <4>1. conf.eager
          BY <3>2 DEF Good, Waiting
        <4>2. ~early[p]
          BY <1>1, <4>1 DEF Safe, OpGood, Threads
        <4> QED
          BY <1>1, <1>13, <3>2, <4>2 DEF Out, Counted
      <3> QED
        BY <2>1, <3>1, <3>2
    <2>2. ASSUME p \in Out PROVE outstanding > 0
      BY <2>2, OutPositive
    <2> QED
      BY <2>1, <2>2 DEF go
  <1>15. cstate = "OPEN_FAILED" => ~openOk /\ deferred /\ ~early[p]
    BY DEF Good, Entry, Waiting
  <1>16. /\ Idle' = Idle /\ \A x \in Data : (at'[x] \in Below <=> at[x] \in Below)
    BY <1>1, <1>2, DataSame
  <1>17. closeStarted' = go
    BY <1>1, <1>12 DEF go
  <1>18. Lifecycle'
    BY <1>2, <1>4, <1>10 DEF Good, Lifecycle, Below, Opening, Operating
  <1>19. Waiting'
    BY <1>2, <1>4, <1>13, <1>14 DEF Good, Waiting
  <1>20. DataOpen'
    BY <1>10, <1>16 DEF Good, DataOpen, Opening
  <1>21. Entry'
    <2>1. go => outstanding' = 0
      BY DEF go
    <2>2. ~go => outstanding' > 0
      BY <1>1 DEF go
    <2>3. at'[p] \notin {"new", "driver", "fired"}
      <3>1. at[p] # "new"
        BY <1>12 DEF Good, Entry
      <3> QED
        BY <1>2, <1>10, <3>1 DEF Below
    <2>4. cstate' \in {"CLOSING", "OPENING_AND_CLOSING"} /\ (go => cstate' = "CLOSING")
      BY <1>12, <1>14
    <2>5. cstate' = "OPENING_AND_CLOSING" => ~openOk /\ at'[p] = "deliver" /\ ~early[p] /\ at'[o] = "cached"
      BY <1>2, <1>12, <1>13, <1>14, <1>15
    <2> QED
      BY <1>2, <1>17, <2>1, <2>2, <2>3, <2>4, <2>5 DEF Entry
  <1>22. TypeOK' /\ fault' = FALSE
    <2>1. fault' = FALSE
      BY <1>12 DEF Good, Insist
    <2>2. closeStarted' \in BOOLEAN
      BY <1>1
    <2>3. /\ at' \in [Op -> PlaceSet] /\ timer' \in [Op -> {"none", "registered", "firing", "refused"}]
          /\ reg' \in [Op -> {"none", "inPass", "returned", "failed"}]
      BY <1>1 DEF PlaceSet
    <2>4. cstate' \in {"CLOSING", "OPENING_AND_CLOSING"}
      BY <1>12
    <2> QED
      BY <1>3, <1>11, <2>1, <2>2, <2>3, <2>4 DEF Good, TypeOK, PlaceSet
  <1> QED
    BY <1>9, <1>11, <1>18, <1>19, <1>20, <1>21, <1>22 DEF Good

LEMMA KeepStartClose ==
  ASSUME Good, StartClose
  PROVE  Good'
  <1> USE DEF StartClose, links, timing
  <1> DEFINE o == CloseOp
  <1>1. /\ o \in Op /\ o # OpenOp /\ OpenOp \in Op /\ OpGood(o)
        /\ href \in Nat /\ outstanding \in Nat /\ at \in [Op -> PlaceSet] /\ oref \in [Op -> Nat]
        /\ \A x \in Data : x # o /\ x \in Op
    BY Kinds3 DEF Good, TypeOK, OpInv, OpGood, PlaceSet
  <1>2. ~inClose /\ ost[o] \in Operating /\ outstanding = 0 /\ cstate = "CLOSING"
    BY <1>1 DEF Good, Waiting, Entry, OpGood, Places, Before
  <1>3. /\ at'[o] = "driver" /\ oref'[o] = oref[o] + 1 /\ oref' \in [Op -> Nat]
        /\ \A x \in Op : x # o => at'[x] = at[x] /\ oref'[x] = oref[x]
    BY <1>1
  <1>4. OpGood(o)'
    <2>1. Places(o)' /\ Threads(o)'
      BY <1>1, <1>3 DEF OpGood, Places, Threads, Timed, Before
    <2>2. Called(o)'
      BY <1>1, <1>2, <1>3 DEF OpGood, Called, Operating, One
    <2>3. Own(o)' = Own(o) /\ Tim(o)' = Tim(o) /\ Reg(o)' = Reg(o) /\ Kick(o)' = Kick(o)
          /\ Clo(o)' = 1 /\ Clo(o) = 0
      BY <1>2, <1>3 DEF Own, Live, Tim, Reg, Kick, Clo, One
    <2>4. oref[o] = Own(o) + Tim(o) + Reg(o) + Kick(o) + Clo(o)
      BY <1>1, HoldersAre DEF OpGood, Refs
    <2>5. Own(o) \in Int /\ Tim(o) \in Int /\ Reg(o) \in Int /\ Kick(o) \in Int
      BY <1>1, HoldersAre
    <2>6. Holders(o)' = Own(o) + Tim(o) + Reg(o) + Kick(o) + 1
      BY <1>1, <2>3, HoldersNext
    <2>7. Holders(o)' = oref'[o] /\ oref'[o] > 0
      BY <1>1, <1>3, <2>3, <2>4, <2>5, <2>6
    <2>8. Refs(o)'
      BY <2>7 DEF Refs
    <2> QED
      BY <2>1, <2>2, <2>8 DEF OpGood
  <1>5. o \notin Out /\ o \notin Out' /\ o \in Owners /\ o \in Owners'
    BY <1>1, <1>2, <1>3 DEF Out, Owners, Live, Operating
  <1>6. \A x \in Op : x # o => Untouched(x)
    BY <1>3 DEF Untouched
  <1>7. OpInv' /\ Counts'
    <2>1. outstanding' = outstanding + One(o \in Out') - One(o \in Out)
      BY <1>1, <1>5 DEF One
    <2>2. href' = href + One(o \in Owners') - One(o \in Owners)
                   + One(hstate' # "CLOSED") - One(hstate # "CLOSED")
      BY <1>1, <1>5 DEF One
    <2> QED
      BY <1>1, <1>4, <1>6, <2>1, <2>2, OneOpStep
  <1>8. /\ at'[OpenOp] = at[OpenOp]
        /\ Idle' = Idle /\ \A x \in Data : (at'[x] \in Below <=> at[x] \in Below)
    BY <1>1, <1>3, DataSame
  <1>9. inClose' = TRUE /\ Live(o)'
    <2>1. Live(o)'
      BY <1>2 DEF Live, Operating
    <2> QED
      BY <2>1
  <1>10. Lifecycle'
    BY <1>3, <1>8 DEF Good, Lifecycle
  <1>11. Waiting'
    BY <1>3, <1>8, <1>9 DEF Good, Waiting
  <1>12. DataOpen'
    BY <1>8 DEF Good, DataOpen
  <1>13. Entry'
    BY <1>2, <1>3, <1>8 DEF Good, Entry
  <1>14. TypeOK' /\ fault' = FALSE
    BY <1>1, <1>3 DEF Good, TypeOK, PlaceSet
  <1> QED
    BY <1>7, <1>10, <1>11, <1>12, <1>13, <1>14 DEF Good

LEMMA KeepFinishedClose ==
  ASSUME Good, FinishedClose
  PROVE  Good'
  <1> USE DEF FinishedClose, refs, links, timing
  <1> DEFINE o == CloseOp
  <1>1. /\ o \in Op /\ o # OpenOp /\ OpenOp \in Op /\ OpGood(o)
        /\ href \in Nat /\ outstanding \in Nat /\ at \in [Op -> PlaceSet]
        /\ \A x \in Data : x # o /\ x \in Op
    BY Kinds3 DEF Good, TypeOK, OpInv, OpGood, PlaceSet
  <1>2. at'[o] = "fired" /\ at[o] = "driver" /\ \A x \in Op : x # o => at'[x] = at[x]
    BY <1>1
  <1>3. ost[o] \in Operating /\ outstanding = 0 /\ cstate = "CLOSING"
    BY <1>1 DEF Good, Entry, OpGood, Places, Before
  <1>4. hstate = "CLOSING" /\ at[OpenOp] \notin Below
    BY <1>3, ClosingState
  <1>5. OpGood(o)' /\ (o \in Out' <=> o \in Out) /\ (o \in Owners' <=> o \in Owners)
    BY <1>1, <1>2, OpFired
  <1>6. \A x \in Op : x # o => Untouched(x)
    BY <1>2 DEF Untouched
  <1>7. OpInv' /\ Counts'
    <2>1. outstanding' = outstanding + One(o \in Out') - One(o \in Out)
      BY <1>1, <1>5 DEF One
    <2>2. href' = href + One(o \in Owners') - One(o \in Owners)
                   + One(hstate' # "CLOSED") - One(hstate # "CLOSED")
      BY <1>1, <1>5 DEF One
    <2> QED
      BY <1>1, <1>5, <1>6, <2>1, <2>2, OneOpStep
  <1>8. /\ at'[OpenOp] = at[OpenOp]
        /\ Idle' = Idle /\ \A x \in Data : (at'[x] \in Below <=> at[x] \in Below)
    BY <1>1, <1>2, DataSame
  <1>9. Lifecycle'
    BY <1>2, <1>8 DEF Good, Lifecycle
  <1>10. Waiting'
    BY <1>2, <1>8 DEF Good, Waiting, Live
  <1>11. DataOpen'
    BY <1>4, <1>8 DEF Good, DataOpen
  <1>12. Entry'
    BY <1>2, <1>3, <1>4, <1>8 DEF Good, Entry, Below
  <1>13. TypeOK' /\ fault' = FALSE
    BY <1>1 DEF Good, TypeOK, PlaceSet
  <1> QED
    BY <1>7, <1>9, <1>10, <1>11, <1>12, <1>13 DEF Good

LEMMA KeepCloseCallback ==
  ASSUME Good, HandleCallback(CloseOp)
  PROVE  Good'
  <1> USE DEF HandleCallback
  <1> DEFINE o == CloseOp
  <1>1. /\ href \in Nat /\ outstanding \in Nat /\ o \in Op /\ o # OpenOp /\ OpenOp \in Op
        /\ \A x \in Data : x # o /\ x \in Op
    BY Kinds3 DEF Good, TypeOK
  <1>2. /\ OpGood(o)' /\ ost[o] \in Operating /\ ost'[o] = "FINISH_WAITING"
        /\ at[o] = "fired" /\ at'[o] \in {"callback", "done"}
        /\ \A x \in Op : x # o => Untouched(x)
        /\ oref' \in [Op -> Nat] /\ timer' \in [Op -> {"none", "registered", "firing", "refused"}]
        /\ canceled' \in [Op -> BOOLEAN] /\ calls' \in [Op -> Nat]
        /\ ost' \in [Op -> OpStates]
        /\ at' \in [Op -> PlaceSet]
    BY <1>1, OpCompleted DEF PlaceSet
  <1>3. UNCHANGED <<conf, href, openOp, asking, reg, early, late, cstate, outstanding, closeStarted,
                    inClose, openOk, deferred>>
    BY DEF Completed, below
  <1>4. hstate = "CLOSING" /\ at[OpenOp] \notin Below
    BY <1>2, ClosingState
  <1>5. hstate' = hstate /\ closeOp' = FALSE
    BY <1>1
  <1>6. o \notin Out /\ o \notin Out' /\ o \in Owners /\ o \in Owners'
    BY <1>1, <1>2 DEF Out, Owners, Live, Operating
  <1>7. OpInv' /\ Counts'
    <2>1. outstanding' = outstanding + One(o \in Out') - One(o \in Out)
      BY <1>1, <1>3, <1>6 DEF One
    <2>2. href' = href + One(o \in Owners') - One(o \in Owners)
                   + One(hstate' # "CLOSED") - One(hstate # "CLOSED")
      BY <1>1, <1>3, <1>5, <1>6 DEF One
    <2> QED
      BY <1>1, <1>2, <1>3, <2>1, <2>2, OneOpStep
  <1>8. /\ at'[OpenOp] = at[OpenOp] /\ ost'[OpenOp] = ost[OpenOp]
        /\ Idle' = Idle /\ \A x \in Data : (at'[x] \in Below <=> at[x] \in Below)
    <2>1. \A x \in Op : x # o => at'[x] = at[x] /\ ost'[x] = ost[x]
      BY <1>2 DEF Untouched
    <2> QED
      BY <1>1, <2>1, DataSame
  <1>9. Lifecycle'
    BY <1>2, <1>3, <1>4, <1>5, <1>8 DEF Good, Lifecycle
  <1>10. Waiting'
    BY <1>2, <1>3, <1>8 DEF Good, Waiting, Live
  <1>11. DataOpen'
    BY <1>3, <1>4, <1>5, <1>8 DEF Good, DataOpen
  <1>12. Entry'
    BY <1>2, <1>3, <1>8 DEF Good, Entry
  <1>13. TypeOK' /\ fault' = FALSE
    <2>1. fault' = FALSE
      BY <1>1, <1>4 DEF Good, Insist
    <2> QED
      BY <1>2, <1>3, <1>5, <2>1 DEF Good, TypeOK, PlaceSet, OpStates
  <1> QED
    BY <1>7, <1>9, <1>10, <1>11, <1>12, <1>13 DEF Good

LEMMA KeepCloseKickoutEnds ==
  ASSUME Good, CloseKickoutEnds
  PROVE  Good'
  <1> USE DEF CloseKickoutEnds, timing, below
  <1> DEFINE o == CloseOp
  <1>1. /\ href \in Nat /\ outstanding \in Nat /\ o \in Op /\ o # OpenOp /\ OpenOp \in Op
        /\ at \in [Op -> PlaceSet] /\ \A x \in Data : x # o /\ x \in Op
    BY Kinds3 DEF Good, TypeOK, PlaceSet
  <1>2. at'[o] = AfterCallback(o) /\ \A x \in Op : x # o => at'[x] = at[x]
    BY <1>1
  <1>3. /\ oref' = [oref EXCEPT ![o] = oref[o] - 1]
        /\ ost' = IF oref[o] - 1 = 0 THEN [[ost EXCEPT ![o] = "FINISHED"] EXCEPT ![o] = "FREED"]
                                     ELSE [ost EXCEPT ![o] = "FINISHED"]
        /\ href' = href - 1 - One(oref[o] - 1 = 0)
        /\ fault' = (fault \/ ~(ost[o] = "FINISH_WAITING" /\ oref[o] - 1 >= 0 /\ href' >= 0))
    BY DEF ReleaseIf, Insist
  <1>4. /\ OpGood(o)' /\ ost[o] = "FINISH_WAITING"
        /\ at[o] \in {"callback", "deliver", "done"} /\ (late[o] <=> at[o] # "callback")
        /\ ost'[o] \in Over /\ oref' \in [Op -> Nat] /\ ost' \in [Op -> OpStates]
        /\ late' \in [Op -> BOOLEAN] /\ (ost'[o] = "FREED" => ~inClose)
        /\ oref[o] - 1 >= 0 /\ (oref[o] - 1 = 0 <=> ost'[o] = "FREED")
        /\ \A x \in Op : x # o => oref'[x] = oref[x] /\ ost'[x] = ost[x] /\ late'[x] = late[x]
    <2> HIDE DEF o
    <2>1. o = CloseOp
      BY DEF o
    <2> QED
      BY <1>1, <1>2, <1>3, <2>1, OpReturned
  <1>5. at[o] \in {"callback", "done"} /\ at'[o] = "done"
    <2>1. OpGood(o)
      BY <1>1 DEF Good, OpInv, OpGood
    <2>2. at[o] # "deliver"
      BY <2>1 DEF OpGood, Places
    <2> QED
      BY <1>2, <1>4, <2>2 DEF AfterCallback
  <1>6. hstate = "CLOSING" /\ at[OpenOp] \notin Below
    BY <1>4, <1>5, ClosingState
  <1>7. \A x \in Data : at[x] \notin Below
    BY <1>5, DataQuiet
  <1>8. o \notin Out /\ o \notin Out' /\ o \in Owners /\ (o \in Owners' <=> ost'[o] # "FREED")
    BY <1>1, <1>4, <1>5 DEF Out, Owners, Live, Over
  <1>9. \A x \in Op : x # o => Untouched(x)
    BY <1>2, <1>4 DEF Untouched
  <1>10. OpInv' /\ Counts' /\ href' \in Nat
    <2>1. outstanding' = outstanding + One(o \in Out') - One(o \in Out)
      BY <1>1, <1>8 DEF One
    <2>2. href' = href + One(o \in Owners') - One(o \in Owners)
                   + One(hstate' # "CLOSED") - One(hstate # "CLOSED")
      <3>1. One(hstate' # "CLOSED") = 0 /\ One(hstate # "CLOSED") = 1 /\ One(o \in Owners) = 1
        BY <1>6, <1>8 DEF One
      <3>2. One(o \in Owners') = 1 - One(oref[o] - 1 = 0) /\ One(oref[o] - 1 = 0) \in Int
        BY <1>4, <1>8 DEF One
      <3> QED
        BY <1>1, <1>3, <3>1, <3>2
    <2> QED
      BY <1>1, <1>4, <1>9, <2>1, <2>2, OneOpStep
  <1>11. /\ at'[OpenOp] = at[OpenOp] /\ ost'[OpenOp] = ost[OpenOp]
         /\ Idle' = Idle /\ \A x \in Data : (at'[x] \in Below <=> at[x] \in Below)
    BY <1>1, <1>2, <1>4, DataSame
  <1>12. Lifecycle'
    BY <1>4, <1>5, <1>6, <1>11 DEF Good, Lifecycle, Over, Opening
  <1>13. Waiting'
    BY <1>4, <1>5, <1>11 DEF Good, Waiting, Live, Over
  <1>14. DataOpen'
    BY <1>7, <1>11 DEF Good, DataOpen, Opening
  <1>15. Entry'
    BY <1>5, <1>11 DEF Good, Entry
  <1>16. TypeOK' /\ fault' = FALSE
    <2>1. href' >= 0
      BY <1>10
    <2>2. fault' = FALSE
      BY <1>3, <1>4, <2>1 DEF Good
    <2>3. at' \in [Op -> PlaceSet]
      BY <1>1, <1>5 DEF PlaceSet
    <2> QED
      BY <1>4, <1>10, <2>2, <2>3 DEF Good, TypeOK, PlaceSet, OpStates, HandleStates
  <1> QED
    BY <1>10, <1>12, <1>13, <1>14, <1>15, <1>16 DEF Good

LEMMA KeepPassCloseFails ==
  ASSUME Safe, Good, PassCloseFails
  PROVE  Good'
  <1> USE DEF PassCloseFails, links, timing
  <1> DEFINE o == CloseOp
  <1>1. /\ href \in Nat /\ outstanding \in Nat /\ o \in Op /\ o # OpenOp /\ OpenOp \in Op
        /\ at \in [Op -> PlaceSet] /\ oref \in [Op -> Nat] /\ OpGood(o)
        /\ reg \in [Op -> {"none", "inPass", "returned", "failed"}] /\ inClose = TRUE
        /\ ost \in [Op -> OpStates]
        /\ \A x \in Data : x # o /\ x \in Op
    BY Kinds3 DEF Good, TypeOK, PlaceSet, OpInv, OpGood, OpStates
  <1>2. ~Timed(o) /\ Kind(o) \in conf.fails /\ timer[o] = "none" /\ ~early[o]
    <2>1. ~Timed(o) /\ Kind(o) \in conf.fails
      BY Kinds3 DEF Safe, Timed
    <2> QED
      BY <1>1, <2>1 DEF OpGood, Threads
  <1>3. ost[o] = "OPERATING" /\ ~asking[o] /\ ~late[o] /\ calls[o] = 0
    <2>1. ost[o] \in Operating
      BY <1>1 DEF OpGood, Places, Before
    <2>2. ~asking[o] /\ ost[o] = "OPERATING"
      BY <1>1, <1>2, <2>1 DEF OpGood, Called, Operating
    <2> QED
      BY <1>1, <2>2 DEF OpGood, Called, One
  <1>4. oref[o] = 3
    <2>1. oref[o] = Own(o) + Tim(o) + Reg(o) + Kick(o) + Clo(o)
      BY <1>1, HoldersAre DEF OpGood, Refs
    <2>2. Own(o) = 1 /\ Tim(o) = 0 /\ Reg(o) = 1 /\ Kick(o) = 0 /\ Clo(o) = 1
      BY <1>1, <1>2, <1>3 DEF Own, Live, Tim, Reg, Kick, Clo, One
    <2> QED
      BY <2>1, <2>2
  <1>5. /\ oref' = [oref EXCEPT ![o] = 2] /\ ost' = ost /\ href' = href
        /\ fault' = (fault \/ ~(href' >= 0 /\ (href' = 0 => hstate = "CLOSED")))
    <2> DEFINE n == oref[o] - 1
    <2>1. n = 2
      BY <1>4
    <2>2. /\ oref' = [oref EXCEPT ![o] = n] /\ ost' = (IF n = 0 THEN [ost EXCEPT ![o] = "FREED"] ELSE ost)
          /\ href' = href - 0 - One(n = 0)
          /\ fault' = (fault \/ ~(n >= 0 /\ href' >= 0 /\ (href' = 0 => hstate = "CLOSED")))
      BY DEF Release, ReleaseIf, Insist
    <2> HIDE DEF n
    <2>3. oref' = [oref EXCEPT ![o] = 2] /\ ost' = ost /\ href' = href
      BY <1>1, <2>1, <2>2 DEF One
    <2>4. n >= 0
      BY <2>1
    <2> QED
      BY <2>2, <2>3, <2>4
  <1>6. /\ at'[o] = "failed" /\ reg'[o] = "failed" /\ oref'[o] = 2 /\ oref' \in [Op -> Nat]
        /\ \A x \in Op : x # o => at'[x] = at[x] /\ reg'[x] = reg[x] /\ oref'[x] = oref[x]
    BY <1>1, <1>5
  <1>7. OpGood(o)'
    <2>1. Places(o)' /\ Threads(o)'
      BY <1>1, <1>2, <1>3, <1>5, <1>6 DEF Places, Threads, Timed, Operating, Before, Kind
    <2>2. Called(o)'
      BY <1>3, <1>5, <1>6 DEF Called, One
    <2>3. Own(o)' = 1 /\ Tim(o)' = 0 /\ Reg(o)' = 1 /\ Kick(o)' = 0 /\ Clo(o)' = 0
      BY <1>2, <1>3, <1>5, <1>6 DEF Own, Live, Tim, Reg, Kick, Clo, One
    <2>4. Refs(o)'
      BY <1>1, <1>6, <2>3, HoldersNext DEF Refs
    <2> QED
      BY <2>1, <2>2, <2>4 DEF OpGood
  <1>8. o \notin Out /\ o \notin Out' /\ o \in Owners /\ o \in Owners'
    BY <1>1, <1>3, <1>5, <1>6 DEF Out, Owners, Live
  <1>9. \A x \in Op : x # o => Untouched(x)
    BY <1>5, <1>6 DEF Untouched
  <1>10. OpInv' /\ Counts' /\ href' \in Nat /\ (href' = 0 => hstate' = "CLOSED")
    <2>1. outstanding' = outstanding + One(o \in Out') - One(o \in Out)
      BY <1>1, <1>8 DEF One
    <2>2. href' = href + One(o \in Owners') - One(o \in Owners)
                   + One(hstate' # "CLOSED") - One(hstate # "CLOSED")
      BY <1>1, <1>5, <1>8 DEF One
    <2> QED
      BY <1>1, <1>7, <1>9, <2>1, <2>2, OneOpStep
  <1>11. hstate = "CLOSING" /\ at[OpenOp] \notin Below /\ outstanding = 0 /\ cstate = "CLOSING" /\ ~deferred
    <2>1. hstate = "CLOSING" /\ at[OpenOp] \notin Below
      BY <1>3, ClosingState DEF Operating
    <2> QED
      BY <2>1 DEF Good, Entry, Waiting
  <1>12. /\ at'[OpenOp] = at[OpenOp]
         /\ Idle' = Idle /\ \A x \in Data : (at'[x] \in Below <=> at[x] \in Below)
    BY <1>1, <1>6, DataSame
  <1>13. Lifecycle'
    BY <1>5, <1>6, <1>12 DEF Good, Lifecycle
  <1>14. Waiting'
    BY <1>5, <1>6, <1>11, <1>12 DEF Good, Waiting
  <1>15. DataOpen'
    BY <1>11, <1>12 DEF Good, DataOpen
  <1>16. Entry'
    BY <1>6, <1>11, <1>12 DEF Good, Entry, Below
  <1>17. TypeOK' /\ fault' = FALSE
    <2>1. href' >= 0
      BY <1>10
    <2>2. fault' = FALSE
      BY <1>5, <1>10, <2>1 DEF Good
    <2> QED
      BY <1>1, <1>5, <1>6, <1>10, <2>2 DEF Good, TypeOK, PlaceSet
  <1> QED
    BY <1>10, <1>13, <1>14, <1>15, <1>16, <1>17 DEF Good

LEMMA KeepRegisterCloseFails ==
  ASSUME Safe, Good, RegisterCloseFails
  PROVE  Good'
  <1> USE DEF RegisterCloseFails, links, below
  <1> DEFINE o == CloseOp
  <1>1. /\ href \in Nat /\ outstanding \in Nat /\ o \in Op /\ o # OpenOp /\ OpenOp \in Op
        /\ oref \in [Op -> Nat] /\ OpGood(o) /\ ost \in [Op -> OpStates]
        /\ timer \in [Op -> {"none", "registered", "firing", "refused"}]
        /\ reg \in [Op -> {"none", "inPass", "returned", "failed"}]
        /\ \A x \in Data : x # o /\ x \in Op
    BY Kinds3 DEF Good, TypeOK, OpStates, OpInv, OpGood
  <1>2. /\ at[o] = "failed" /\ Kind(o) \in conf.fails /\ timer[o] = "none" /\ ~early[o]
        /\ ~inClose /\ ~deferred
    <2>1. at[o] = "failed" /\ Kind(o) \in conf.fails
      BY <1>1 DEF OpGood, Places, Threads
    <2>2. Kind(o) \notin conf.timed
      BY <2>1 DEF Safe
    <2>3. timer[o] = "none" /\ ~early[o]
      BY <1>1, <2>1, <2>2 DEF OpGood, Threads, Timed
    <2>4. ~inClose /\ ~deferred
      BY <2>1 DEF Good, Waiting
    <2> QED
      BY <2>1, <2>3, <2>4
  <1>3. ost[o] = "OPERATING" /\ ~asking[o] /\ ~late[o] /\ calls[o] = 0
    <2>1. ost[o] \in Operating
      BY <1>1, <1>2 DEF OpGood, Places
    <2>2. ~asking[o] /\ ost[o] = "OPERATING"
      BY <1>1, <1>2, <2>1 DEF OpGood, Called, Operating
    <2> QED
      BY <1>1, <2>2 DEF OpGood, Called, One
  <1>4. oref[o] = 2
    <2>1. oref[o] = Own(o) + Tim(o) + Reg(o) + Kick(o) + Clo(o)
      BY <1>1, HoldersAre DEF OpGood, Refs
    <2>2. Own(o) = 1 /\ Tim(o) = 0 /\ Reg(o) = 1 /\ Kick(o) = 0 /\ Clo(o) = 0
      BY <1>2, <1>3 DEF Own, Live, Tim, Reg, Kick, Clo, One
    <2> QED
      BY <2>1, <2>2
  <1>5. /\ oref' = [oref EXCEPT ![o] = 0] /\ ost' = [ost EXCEPT ![o] = "FREED"] /\ href' = href - 1 - 1
        /\ fault' = (fault \/ ~(href' >= 0)) /\ timer' = timer
    <2>1. timer' = timer /\ ~Unregistered(o)
      BY <1>1, <1>2 DEF Unregistered
    <2> DEFINE k == 2 + One(Unregistered(o))
               n == oref[o] - k
    <2>2. k = 2
      BY <2>1 DEF One
    <2>3. /\ oref' = [oref EXCEPT ![o] = n] /\ ost' = (IF n = 0 THEN [ost EXCEPT ![o] = "FREED"] ELSE ost)
          /\ href' = href - 1 - One(n = 0)
          /\ fault' = (fault \/ ~(~deferred /\ n >= 0 /\ href' >= 0))
      BY DEF ReleaseIf, Insist
    <2> HIDE DEF k
    <2>4. n = 0
      BY <1>4, <2>2
    <2> HIDE DEF n
    <2>5. oref' = [oref EXCEPT ![o] = 0] /\ ost' = [ost EXCEPT ![o] = "FREED"] /\ href' = href - 1 - 1
      BY <1>1, <2>3, <2>4 DEF One
    <2>6. n >= 0
      BY <2>4
    <2> QED
      BY <1>2, <2>1, <2>3, <2>5, <2>6
  <1>6. /\ reg'[o] = "none" /\ oref'[o] = 0 /\ ost'[o] = "FREED"
        /\ oref' \in [Op -> Nat] /\ ost' \in [Op -> OpStates]
        /\ reg' \in [Op -> {"none", "inPass", "returned", "failed"}]
        /\ \A x \in Op : x # o => reg'[x] = reg[x] /\ oref'[x] = oref[x] /\ ost'[x] = ost[x]
    BY <1>1, <1>5 DEF OpStates
  <1>7. OpGood(o)'
    <2>1. Places(o)' /\ Threads(o)'
      BY <1>1, <1>2, <1>3, <1>5, <1>6 DEF Places, Threads, Operating, Before, Kind
    <2>2. Called(o)'
      BY <1>2, <1>3, <1>5, <1>6 DEF Called, One
    <2>3. Own(o)' = 0 /\ Tim(o)' = 0 /\ Reg(o)' = 0 /\ Kick(o)' = 0 /\ Clo(o)' = 0
      BY <1>2, <1>3, <1>5, <1>6 DEF Own, Live, Tim, Reg, Kick, Clo, One
    <2>4. Refs(o)'
      BY <1>1, <1>6, <2>3, HoldersNext DEF Refs, Live
    <2> QED
      BY <2>1, <2>2, <2>4 DEF OpGood
  <1>8. o \notin Out /\ o \notin Out' /\ o \in Owners /\ o \notin Owners'
    BY <1>1, <1>2, <1>3, <1>6 DEF Out, Owners, Live
  <1>9. \A x \in Op : x # o => Untouched(x)
    BY <1>5, <1>6 DEF Untouched
  <1>10. hstate = "CLOSING" /\ at[OpenOp] \notin Below
    BY <1>2, <1>3, ClosingState DEF Operating
  <1>11. OpInv' /\ Counts' /\ href' \in Nat
    <2>1. outstanding' = outstanding + One(o \in Out') - One(o \in Out)
      BY <1>1, <1>8 DEF One
    <2>2. href' = href + One(o \in Owners') - One(o \in Owners)
                   + One(hstate' # "CLOSED") - One(hstate # "CLOSED")
      BY <1>1, <1>5, <1>8, <1>10 DEF One
    <2> QED
      BY <1>1, <1>7, <1>9, <2>1, <2>2, OneOpStep
  <1>12. \A x \in Data : at[x] \notin Below
    BY <1>2, DataQuiet
  <1>13. /\ ost'[OpenOp] = ost[OpenOp] /\ Idle' = Idle
    BY <1>1, <1>6 DEF Idle
  <1>14. Lifecycle'
    BY <1>2, <1>6, <1>10, <1>13 DEF Good, Lifecycle, Over, Opening
  <1>15. Waiting'
    BY <1>2, <1>6, <1>13 DEF Good, Waiting
  <1>16. DataOpen'
    BY <1>12, <1>13 DEF Good, DataOpen, Opening
  <1>17. Entry'
    BY <1>13 DEF Good, Entry
  <1>18. TypeOK' /\ fault' = FALSE
    <2>1. href' >= 0
      BY <1>11
    <2>2. fault' = FALSE
      BY <1>5, <2>1 DEF Good
    <2> QED
      BY <1>5, <1>6, <1>11, <2>2 DEF Good, TypeOK, OpStates, HandleStates
  <1> QED
    BY <1>11, <1>14, <1>15, <1>16, <1>17, <1>18 DEF Good

-----------------------------------------------------------------------------
(* The invariant holds initially and every step keeps it *)

LEMMA InitGood == Init => HandleInv
  <1> SUFFICES ASSUME Init PROVE Good /\ Patience
    BY DEF HandleInv
  <1> USE DEF Init
  <1>1. \A o \in Op : /\ ost[o] = "NONE" /\ oref[o] = 0 /\ timer[o] = "none" /\ asking[o] = FALSE
                      /\ reg[o] = "none" /\ at[o] = "new" /\ early[o] = FALSE
                      /\ late[o] = FALSE /\ calls[o] = 0
    OBVIOUS
  <1>2. TypeOK
    BY DEF TypeOK, HandleStates
  <1>3. OpInv
    <2> SUFFICES ASSUME NEW o \in Op PROVE OpGood(o)
      BY DEF OpInv, OpGood
    <2>1. Places(o) /\ Threads(o)
      BY <1>1 DEF Places, Threads, Operating, Before
    <2>2. Called(o)
      BY <1>1 DEF Called, One
    <2>3. Own(o) = 0 /\ Tim(o) = 0 /\ Reg(o) = 0 /\ Kick(o) = 0 /\ Clo(o) = 0
      BY <1>1 DEF Own, Live, Tim, Reg, Kick, Clo, Counted, One
    <2>4. Refs(o)
      BY <1>1, <2>3, HoldersAre DEF Refs, Live
    <2> QED
      BY <2>1, <2>2, <2>4 DEF OpGood
  <1>4. at[OpenOp] = "new" /\ ost[OpenOp] = "NONE" /\ at[CloseOp] = "new" /\ ost[CloseOp] = "NONE"
        /\ reg[CloseOp] = "none" /\ Idle
    BY <1>1, Kinds3 DEF Idle
  <1>5. Lifecycle /\ Waiting /\ DataOpen /\ Entry
    BY <1>4 DEF Lifecycle, Waiting, DataOpen, Entry, Below, Opening, Counted, Idle
  <1>6. Counts
    <2>1. Out = {} /\ Owners = {}
      BY <1>1 DEF Out, Owners, Live, Counted
    <2>2. Cardinality(Out) = 0 /\ Cardinality(Owners) = 0
      BY <2>1, FS_EmptySet
    <2> QED
      BY <2>2 DEF Counts, One
  <1> QED
    BY <1>1, <1>2, <1>3, <1>5, <1>6, Kinds3 DEF Good, Patience

LEMMA KeepUnchanged ==
  ASSUME Good, UNCHANGED vars
  PROVE  Good'
  <1> USE DEF vars
  <1>1. OpInv'
    <2>1. ASSUME NEW o \in Op PROVE OpGood(o)'
      BY UntouchedKeeps DEF Untouched
    <2> QED
      BY <2>1 DEF OpInv, OpGood
  <1>2. TypeOK'
    BY DEF Good, TypeOK
  <1>3. Lifecycle' /\ Waiting' /\ DataOpen' /\ Entry'
    BY DEF Good, Lifecycle, Waiting, DataOpen, Entry, Idle, Live
  <1>4. Counts'
    <2>1. Out' = Out /\ Owners' = Owners
      BY DEF Out, Owners, Live
    <2> QED
      BY <2>1 DEF Good, Counts
  <1> QED
    BY <1>1, <1>2, <1>3, <1>4 DEF Good

LEMMA ConfFixed == [Next]_vars => conf' = conf
  <1> SUFFICES ASSUME [Next]_vars PROVE conf' = conf
    OBVIOUS
  <1>1. UserStep => conf' = conf
    BY DEF UserStep, RegisterOpen, RegisterData, CancelOperation, CloseUnopened,
       BlockingCloseUnopened, CloseOpening, CloseOpen
  <1>2. ASSUME NEW o \in Op PROVE RegisterStep(o) => conf' = conf
    BY DEF RegisterStep, PassReturns, RegisterReturns, PassFails, RegisterFails
  <1>3. ASSUME NEW o \in Op PROVE TimeoutStep(o) => conf' = conf
    BY DEF TimeoutStep, TimerFires, TimeoutTooLate, TimeoutAsks, TimeoutBlocked, PutBack,
       TimeoutAnswered
  <1>4. KickoutStep => conf' = conf
    BY DEF KickoutStep, HandleCallback, Completed, Delivered, DeliveredEarly, DataKickoutEnds,
       OpenKickoutEnds, UnopenedCloseCallback, CloseKickoutEnds
  <1>5. CloseStep => conf' = conf
    BY DEF CloseStep, RegisterClose, StartClose, StartCloseReturns, FinishedClose, PassCloseFails,
       RegisterCloseFails
  <1>6. (\E success \in BOOLEAN : FinishedOpen(success)) \/ (\E o \in Data : FinishedData(o))
          => conf' = conf
    BY DEF FinishedOpen, FinishedData
  <1> QED
    BY <1>1, <1>2, <1>3, <1>4, <1>5, <1>6 DEF Next, vars

LEMMA KeepUserStep ==
  ASSUME Safe, Good, UserStep
  PROVE  Good'
  <1>1. CASE RegisterOpen
    BY <1>1, KeepRegisterOpen
  <1>2. ASSUME NEW o \in Data, RegisterData(o) PROVE Good'
    BY <1>2, KeepRegisterData
  <1>3. ASSUME NEW o \in Op, CancelOperation(o) PROVE Good'
    BY <1>3, KeepCancelOperation
  <1>4. CASE CloseUnopened
    BY <1>4, KeepCloseUnopened
  <1>5. CASE BlockingCloseUnopened
    BY <1>5, KeepBlockingCloseUnopened
  <1>6. ASSUME NEW cancel \in BOOLEAN, CloseOpening(cancel) PROVE Good'
    BY <1>6, KeepCloseOpening
  <1>7. ASSUME NEW cancel \in BOOLEAN, CloseOpen(cancel) PROVE Good'
    BY <1>7, KeepCloseOpen
  <1> QED
    BY <1>1, <1>2, <1>3, <1>4, <1>5, <1>6, <1>7 DEF UserStep

LEMMA KeepThreadStep ==
  ASSUME Safe, Good, Patience, NEW o \in Op, RegisterStep(o) \/ TimeoutStep(o)
  PROVE  Good'
  <1>1. CASE PassReturns(o) \/ RegisterReturns(o) \/ TimeoutTooLate(o)
    BY <1>1, KeepReturns
  <1>2. CASE PassFails(o)
    BY <1>2, KeepPassFails
  <1>3. CASE RegisterFails(o)
    BY <1>3, KeepRegisterFails
  <1>4. CASE TimerFires(o)
    BY <1>4, KeepTimerFires
  <1>5. CASE TimeoutAsks(o)
    BY <1>5, KeepTimeoutAsks
  <1>6. CASE TimeoutBlocked(o)
    BY <1>6, KeepTimeoutBlocked
  <1>7. ASSUME NEW cancel \in BOOLEAN, TimeoutAnswered(o, cancel) PROVE Good'
    BY <1>7, KeepTimeoutAnswered
  <1>8. CASE PutBack(o)
    BY <1>8, KeepPutBack
  <1> QED
    BY <1>1, <1>2, <1>3, <1>4, <1>5, <1>6, <1>7, <1>8 DEF RegisterStep, TimeoutStep

LEMMA KeepKickoutStep ==
  ASSUME Safe, Good, KickoutStep
  PROVE  Good'
  <1>1. ASSUME NEW o \in Op, HandleCallback(o) PROVE Good'
    <2>1. CASE o \in Data
      BY <1>1, <2>1, KeepDataCallback
    <2>2. CASE o = OpenOp
      BY <1>1, <2>2, KeepOpenCallback
    <2>3. CASE o = CloseOp
      BY <1>1, <2>3, KeepCloseCallback
    <2> QED
      BY <2>1, <2>2, <2>3, Kinds3
  <1>2. ASSUME NEW o \in Op, Delivered(o) PROVE Good'
    <2>1. CASE o \in Data
      BY <1>2, <2>1, KeepDataDelivered
    <2>2. CASE o = OpenOp
      BY <1>2, <2>2, KeepOpenDelivered
    <2>3. o # CloseOp
      BY <1>2 DEF Delivered, Good, OpInv, Places
    <2> QED
      BY <2>1, <2>2, <2>3, Kinds3
  <1>3. ASSUME NEW o \in Op, DeliveredEarly(o) PROVE Good'
    <2>1. CASE o \in Data
      BY <1>3, <2>1, KeepDataEarly
    <2>2. CASE o = OpenOp
      BY <1>3, <2>2, KeepOpenEarly
    <2>3. o # CloseOp
      BY <1>3 DEF DeliveredEarly
    <2> QED
      BY <2>1, <2>2, <2>3, Kinds3
  <1>4. ASSUME NEW o \in Data, DataKickoutEnds(o) PROVE Good'
    BY <1>4, KeepDataKickoutEnds
  <1>5. CASE OpenKickoutEnds
    BY <1>5, KeepOpenKickoutEnds
  <1>6. CASE UnopenedCloseCallback
    BY <1>6, KeepUnopenedCloseCallback
  <1>7. CASE CloseKickoutEnds
    BY <1>7, KeepCloseKickoutEnds
  <1> QED
    BY <1>1, <1>2, <1>3, <1>4, <1>5, <1>6, <1>7 DEF KickoutStep

LEMMA KeepCloseStep ==
  ASSUME Safe, Good, CloseStep
  PROVE  Good'
  <1>1. CASE RegisterClose
    BY <1>1, KeepRegisterClose
  <1>2. CASE StartClose
    BY <1>2, KeepStartClose
  <1>3. CASE StartCloseReturns
    BY <1>3, KeepStartCloseReturns
  <1>4. CASE FinishedClose
    BY <1>4, KeepFinishedClose
  <1>5. CASE PassCloseFails
    BY <1>5, KeepPassCloseFails
  <1>6. CASE RegisterCloseFails
    BY <1>6, KeepRegisterCloseFails
  <1> QED
    BY <1>1, <1>2, <1>3, <1>4, <1>5, <1>6 DEF CloseStep

\* Who starts a registration finds the handle open, and who changes the state of an open
\* handle is the user that closes it.
LEMMA PatienceKept ==
  ASSUME Patience, conf' = conf, \A o \in Data : reg[o] = "none" => reg'[o] = "none",
         hstate' = hstate \/ hstate # "OPEN" \/ conf.hasty \/ \A o \in Data : reg[o] = "none"
  PROVE  Patience'
  BY DEF Patience

LEMMA PatienceUser ==
  ASSUME Good, Patience, UserStep
  PROVE  Patience'
  <1>1. CASE RegisterOpen
    <2>1. hstate # "OPEN" /\ \A o \in Data : reg'[o] = reg[o]
      BY <1>1, Kinds3 DEF RegisterOpen, Good, TypeOK
    <2> QED
      BY <1>1, <2>1, PatienceKept DEF RegisterOpen
  <1>2. ASSUME NEW o \in Data, RegisterData(o) PROVE Patience'
    BY <1>2 DEF RegisterData, Patience
  <1>3. ASSUME NEW o \in Op, CancelOperation(o) PROVE Patience'
    BY <1>3, PatienceKept DEF CancelOperation
  <1>4. CASE CloseUnopened
    BY <1>4, PatienceKept DEF CloseUnopened, MayClose
  <1>5. CASE BlockingCloseUnopened
    BY <1>5, PatienceKept DEF BlockingCloseUnopened, Unopened
  <1>6. ASSUME NEW cancel \in BOOLEAN, CloseOpening(cancel) PROVE Patience'
    BY <1>6, PatienceKept DEF CloseOpening, MayClose
  <1>7. ASSUME NEW cancel \in BOOLEAN, CloseOpen(cancel) PROVE Patience'
    BY <1>7, PatienceKept DEF CloseOpen, MayClose
  <1> QED
    BY <1>1, <1>2, <1>3, <1>4, <1>5, <1>6, <1>7 DEF UserStep

LEMMA PatienceThread ==
  ASSUME Safe, Good, Patience, NEW o \in Op, RegisterStep(o) \/ TimeoutStep(o)
  PROVE  Patience'
  <1>1. OpGood(o) /\ reg \in [Op -> {"none", "inPass", "returned", "failed"}]
    BY DEF Good, OpInv, OpGood, TypeOK
  <1>2. CASE PassReturns(o) \/ RegisterReturns(o) \/ PassFails(o)
    <2>1. conf' = conf /\ hstate' = hstate /\ reg[o] # "none" /\ \A x \in Op : x # o => reg'[x] = reg[x]
      BY <1>1, <1>2 DEF PassReturns, RegisterReturns, PassFails
    <2> QED
      BY <2>1, Kinds3, PatienceKept
  <1>3. CASE RegisterFails(o)
    <2>1. o # OpenOp
      BY <1>1, <1>3, Kinds3 DEF RegisterFails, OpGood, Threads, Places, Safe
    <2>2. conf' = conf /\ hstate' = hstate /\ reg[o] # "none" /\ \A x \in Op : x # o => reg'[x] = reg[x]
      BY <1>1, <1>3, <2>1 DEF RegisterFails
    <2> QED
      BY <2>2, Kinds3, PatienceKept
  <1>4. CASE TimeoutStep(o)
    <2>1. conf' = conf /\ hstate' = hstate /\ reg' = reg
      BY <1>4 DEF TimeoutStep, TimerFires, TimeoutTooLate, TimeoutAsks, TimeoutBlocked, PutBack,
         TimeoutAnswered
    <2> QED
      BY <2>1, PatienceKept
  <1> QED
    BY <1>2, <1>3, <1>4 DEF RegisterStep

LEMMA PatienceKickout ==
  ASSUME Good, Patience, KickoutStep
  PROVE  Patience'
  <1>1. OpGood(CloseOp) /\ (hstate = "OPEN" => at[CloseOp] = "new")
    BY Kinds3 DEF Good, OpInv, OpGood, Lifecycle
  <1>2. conf' = conf /\ reg' = reg
    BY DEF KickoutStep, HandleCallback, Completed, Delivered, DeliveredEarly, DataKickoutEnds,
       OpenKickoutEnds, UnopenedCloseCallback, CloseKickoutEnds
  <1>3. hstate = "OPEN" => hstate' = hstate
    <2> SUFFICES ASSUME hstate = "OPEN" PROVE hstate' = hstate
      OBVIOUS
    <2>1. ASSUME NEW o \in Op, HandleCallback(o) \/ Delivered(o) \/ DeliveredEarly(o)
          PROVE  hstate' = hstate
      BY <2>1 DEF HandleCallback, Delivered, DeliveredEarly
    <2>2. ASSUME NEW o \in Data, DataKickoutEnds(o) PROVE hstate' = hstate
      BY <2>2 DEF DataKickoutEnds
    <2>3. CASE OpenKickoutEnds
      BY <2>3 DEF OpenKickoutEnds
    <2>4. ~UnopenedCloseCallback
      BY <1>1 DEF UnopenedCloseCallback
    <2>5. ~CloseKickoutEnds
      BY <1>1 DEF CloseKickoutEnds, Leave, Returned, OpGood, Called
    <2> QED
      BY <2>1, <2>2, <2>3, <2>4, <2>5 DEF KickoutStep
  <1> QED
    BY <1>2, <1>3, PatienceKept

LEMMA PatienceClose ==
  ASSUME Good, Patience, CloseStep
  PROVE  Patience'
  <1>1. /\ OpGood(CloseOp) /\ (hstate = "OPEN" => at[CloseOp] = "new")
        /\ reg \in [Op -> {"none", "inPass", "returned", "failed"}]
    BY Kinds3 DEF Good, OpInv, OpGood, Lifecycle, TypeOK
  <1>2. conf' = conf /\ \A o \in Data : reg'[o] = reg[o]
    BY <1>1, Kinds3 DEF CloseStep, RegisterClose, StartClose, StartCloseReturns, FinishedClose,
       PassCloseFails, RegisterCloseFails
  <1>3. hstate = "OPEN" => hstate' = hstate
    BY <1>1 DEF CloseStep, RegisterClose, StartClose, StartCloseReturns, FinishedClose,
       PassCloseFails, RegisterCloseFails, OpGood, Threads
  <1> QED
    BY <1>2, <1>3, PatienceKept

LEMMA KeepPatience ==
  ASSUME Safe, Good, Patience, [Next]_vars
  PROVE  Patience'
  <1>1. CASE UNCHANGED vars
    BY <1>1, PatienceKept DEF vars
  <1>2. ASSUME NEW success \in BOOLEAN, FinishedOpen(success) PROVE Patience'
    BY <1>2, PatienceKept DEF FinishedOpen
  <1>3. ASSUME NEW o \in Data, FinishedData(o) PROVE Patience'
    BY <1>3, PatienceKept DEF FinishedData
  <1> QED
    BY <1>1, <1>2, <1>3, PatienceUser, PatienceThread, PatienceKickout, PatienceClose DEF Next

LEMMA Invariance == Spec => []HandleInv
  <1>1. HandleInv /\ [Next]_vars => HandleInv'
    <2> SUFFICES ASSUME HandleInv, [Next]_vars, Safe' PROVE Good' /\ Patience'
      BY DEF HandleInv
    <2>1. Safe
      BY ConfFixed DEF Safe
    <2>2. Good /\ Patience
      BY <2>1 DEF HandleInv
    <2>3. ASSUME UNCHANGED vars PROVE Good'
      BY <2>2, <2>3, KeepUnchanged
    <2>4. ASSUME UserStep PROVE Good'
      BY <2>1, <2>2, <2>4, KeepUserStep
    <2>5. ASSUME NEW o \in Op, RegisterStep(o) \/ TimeoutStep(o) PROVE Good'
      BY <2>1, <2>2, <2>5, KeepThreadStep
    <2>6. ASSUME NEW success \in BOOLEAN, FinishedOpen(success) PROVE Good'
      BY <2>2, <2>6, KeepFinishedOpen
    <2>7. ASSUME NEW o \in Data, FinishedData(o) PROVE Good'
      BY <2>2, <2>7, KeepFinishedData
    <2>8. ASSUME KickoutStep PROVE Good'
      BY <2>1, <2>2, <2>8, KeepKickoutStep
    <2>9. ASSUME CloseStep PROVE Good'
      BY <2>1, <2>2, <2>9, KeepCloseStep
    <2> QED
      BY <2>1, <2>2, <2>3, <2>4, <2>5, <2>6, <2>7, <2>8, <2>9, KeepPatience DEF Next
  <1> QED
    BY <1>1, InitGood, PTL DEF Spec

-----------------------------------------------------------------------------
(* What the invariant says of a handle that is used safely *)

\* Every field of the handle and of its operations keeps its type, and no reference
\* count (handle->ref, op->ref, outstanding_operations) goes below zero.
THEOREM TypeCorrect == Spec => [](Safe => TypeOK)
  <1>1. HandleInv => (Safe => TypeOK)
    BY DEF HandleInv, Good
  <1> QED
    BY <1>1, Invariance, PTL

\* No assertion of globus_xio_handle.c fails (the one of a failed registration that the
\* handle has a reference left included) and no destroyed operation is used,
\* whatever the order of registering threads, drivers, kickouts, the timeout poller,
\* cancels and the close.
THEOREM NoAssertion == Spec => [](Safe => NoFault)
  <1>1. HandleInv => (Safe => NoFault)
    BY DEF HandleInv, Good, NoFault
  <1> QED
    BY <1>1, Invariance, PTL

\* op->ref counts exactly the threads, the timer and the kickout that still use the
\* operation, and it is zero when globus_i_xio_op_destroy has freed it.
THEOREM OpReferences == Spec => [](Safe => OpRefsExact)
  <1>1. HandleInv => (Safe => OpRefsExact)
    <2> SUFFICES ASSUME Good, NEW o \in Op
                 PROVE  oref[o] = Holders(o) /\ (ost[o] = "FREED" => oref[o] = 0)
      BY DEF HandleInv, OpRefsExact
    <2>1. OpGood(o) /\ ost \in [Op -> OpStates]
      BY DEF Good, OpInv, OpGood, TypeOK, OpStates
    <2>2. oref[o] = Holders(o)
      BY <2>1 DEF OpGood, Refs
    <2>3. ASSUME ost[o] = "FREED" PROVE Holders(o) = 0
      <3>1. /\ timer[o] = "none" /\ reg[o] = "none" /\ at[o] \in {"done", "failed"}
            /\ ~Live(o) /\ ~(o = CloseOp /\ inClose)
        BY <2>1, <2>3 DEF OpGood, Places, Threads, Live, Good, Waiting
      <3>2. Own(o) = 0 /\ Tim(o) = 0 /\ Reg(o) = 0 /\ Kick(o) = 0 /\ Clo(o) = 0
        BY <3>1 DEF Own, Tim, Reg, Kick, Clo, Counted, One
      <3> QED
        BY <3>2, HoldersAre
    <2> QED
      BY <2>2, <2>3
  <1> QED
    BY <1>1, Invariance, PTL

\* handle->ref is the handle's own reference until it is closed and one per operation
\* that got to the driver; when globus_l_xio_handle_dec finds it zero, no operation,
\* thread, timer or kickout of the handle is left.
THEOREM HandleReferences == Spec => [](Safe => HandleRefsExact)
  <1>1. HandleInv => (Safe => HandleRefsExact)
    <2> SUFFICES ASSUME Good PROVE HandleRefsExact
      BY DEF HandleInv
    <2>1. href = One(hstate # "CLOSED") + Cardinality(Owners)
      BY DEF Good, Counts
    <2>2. ASSUME href = 0, NEW o \in Op
          PROVE  /\ ~Live(o) /\ timer[o] = "none" /\ reg[o] = "none"
                 /\ ~late[o] /\ at[o] \in {"new", "done", "failed"}
      <3>1. Owners \in SUBSET Op /\ Cardinality(Owners) \in Nat
        BY OpCard DEF Owners
      <3>2. hstate = "CLOSED" /\ Cardinality(Owners) = 0
        <4>1. CASE hstate = "CLOSED"
          BY <2>1, <2>2, <3>1, <4>1 DEF One
        <4>2. CASE hstate # "CLOSED"
          BY <2>1, <2>2, <3>1, <4>2 DEF One
        <4> QED
          BY <4>1, <4>2
      <3>3. Owners = {}
        BY <3>1, <3>2, OpCard
      <3>4. OpGood(o) /\ OpGood(CloseOp) /\ ost \in [Op -> OpStates] /\ CloseOp \in Op
        BY Kinds3 DEF Good, OpInv, OpGood, TypeOK, OpStates
      <3>5. ost[CloseOp] \in {"NONE"} \cup Over
        BY <3>2 DEF Good, Lifecycle
      <3>6. at[o] \notin {"deferred", "toPass"}
        <4>1. CASE o = CloseOp
          BY <3>4, <3>5, <4>1 DEF OpGood, Places, Operating, Over, Before
        <4>2. CASE o # CloseOp
          BY <3>4, <4>2 DEF OpGood, Places, Counted
        <4> QED
          BY <4>1, <4>2
      <3>7. ~Live(o)
        BY <3>3, <3>4, <3>6 DEF Owners, OpGood, Places, Live
      <3>8. ost[o] \in {"NONE", "FREED"}
        BY <3>7 DEF Live
      <3> QED
        BY <3>4, <3>7, <3>8 DEF OpGood, Places, Threads, Called
    <2> QED
      BY <2>1, <2>2 DEF HandleRefsExact, Owners
  <1> QED
    BY <1>1, Invariance, PTL

\* The user's callback of an operation is called at most once, whether the kickout or the
\* timeout poller calls it, and no operation is freed before it was called unless its
\* registration returned an error.
THEOREM CallbackOnce == Spec => [](Safe => CalledOnce)
  <1>1. HandleInv => (Safe => CalledOnce)
    <2> SUFFICES ASSUME Good, NEW o \in Op
                 PROVE  calls[o] <= 1 /\ (ost[o] = "FREED" => calls[o] = 1 \/ at[o] = "failed")
      BY DEF HandleInv, CalledOnce
    <2>1. OpGood(o)
      BY DEF Good, OpInv, OpGood
    <2>2. calls[o] <= 1
      BY <2>1 DEF OpGood, Called, One
    <2>3. ASSUME ost[o] = "FREED", at[o] # "failed" PROVE calls[o] = 1
      <3>1. at[o] = "done" /\ ~asking[o]
        BY <2>1, <2>3 DEF OpGood, Places, Called
      <3> QED
        BY <2>1, <2>3, <3>1 DEF OpGood, Called, One
    <2> QED
      BY <2>2, <2>3
  <1> QED
    BY <1>1, Invariance, PTL

\* The close callback is called after the callbacks of all reads and writes, as long as
\* those have no timeout: the barrier of the context entry holds the close back.
THEOREM CloseCallbackLast == Spec => [](Safe => CloseAfterUntimedData)
  <1>1. HandleInv => (Safe => CloseAfterUntimedData)
    <2> SUFFICES ASSUME Good, "data" \notin conf.timed, calls[CloseOp] > 0,
                        NEW o \in Data, ost[o] # "NONE", at[o] # "failed"
                 PROVE  calls[o] = 1
      BY DEF HandleInv, CloseAfterUntimedData, CloseAfterData
    <2>1. /\ CloseOp \in Op /\ OpGood(CloseOp) /\ o \in Op /\ o # CloseOp /\ o # OpenOp /\ OpGood(o)
          /\ ost \in [Op -> OpStates] /\ at \in [Op -> PlaceSet] /\ ~Timed(o)
      BY Kinds3 DEF Good, OpInv, OpGood, TypeOK, OpStates, PlaceSet, Timed
    <2>2. at[CloseOp] \in {"callback", "done", "failed"}
      <3>1. ost[CloseOp] \in {"FINISH_WAITING", "FINISHED", "FREED"}
        BY <2>1 DEF OpGood, Called, One
      <3>2. at[CloseOp] # "unopened"
        BY <2>1 DEF OpGood, Called, One
      <3> QED
        BY <2>1, <3>1, <3>2, Kinds3 DEF OpGood, Places
    <2>3. at[o] \notin Below
      BY <2>2, DataQuiet
    <2>4. ~asking[o]
      BY <2>1 DEF OpGood, Threads, Called
    <2>5. ost[o] \in {"FINISH_WAITING", "FINISHED", "FREED"} /\ at[o] \notin {"unopened", "failed"}
      <3>1. at[o] \notin Before \cup {"new", "unopened"}
        BY <2>1, <2>3 DEF OpGood, Places, Counted, Before, Below
      <3> QED
        BY <2>1, <3>1 DEF OpGood, Places, Operating, OpStates
    <2> QED
      BY <2>1, <2>4, <2>5 DEF OpGood, Called, One
  <1> QED
    BY <1>1, Invariance, PTL

=============================================================================
