------------------------- MODULE XioContextProofs -------------------------
(***************************************************************************)
(* Theorems about XioContext, for any number of reads and writes.          *)
(*                                                                         *)
(* read_delivered is not told which kind of read it delivers: it looks at  *)
(* read_operations.  That the inference is right, that the counters are    *)
(* right and that end of file comes last therefore depend on each other,   *)
(* and are proved together (Sound).  An assertion that fails ends what can *)
(* be said, so Sound is kept by every step that fails none.  No assertion  *)
(* fails when the user neither races its close (RacyUser) nor closes       *)
(* without cancelling, which the runs context_race and context_eof_close   *)
(* show to be necessary.                                                   *)
(***************************************************************************)
EXTENDS XioContext, FiniteSetTheorems, TLAPS

DataStates == {"driver", "fired", "dataCb"}
EofStates == {"parked", "firedEof", "eofCb"}
ClosingStates == {"CLOSING", "EOF_RECEIVED_AND_CLOSING", "EOF_DELIVERED_AND_CLOSING"}
Undelivered == {"driver", "fired", "callback"}
Started == {"starting", "driver", "done", "refused"}

\* The user closes only what it is not about to pass to, and its close cancels.
Disciplined == ~RacyUser /\ FALSE \notin CancelModes

-----------------------------------------------------------------------------
(* The invariant *)

\* A pass owes only data, and only before it calls the driver; a write meets
\* no end of file.
Owing ==
    /\ \A o \in Op : passOwes[o] # "no" => passOwes[o] = "data" /\ st[o] = "driver"
    /\ \A o \in Write : st[o] \in {"idle", "checked", "cb"} \cup DataStates

Nothing == /\ \A o \in Op : st[o] = "idle"
           /\ \A k \in Kind : late[k] = 0
           /\ due = 0 /\ hold = 0

\* Nothing is passed to a level that is not open yet or failed to open.
Opening ==
    /\ openSt = "none" <=> cstate = "NONE"
    /\ openSt \in {"driver", "failed"} <=> cstate = "OPENING"
    /\ openSt = "fired" => cstate \in {"OPEN", "OPEN_FAILED"}
    /\ cstate = "OPEN_FAILED" => openSt \in {"fired", "callback"}
    /\ cstate = "OPENING_AND_CLOSING" => openSt = "callback"
    /\ cstate = "CLOSED" => openSt = "delivered"
    /\ \/ openSt \in {"none", "driver", "failed", "fired"}
       \/ cstate \in {"OPEN_FAILED", "OPENING_AND_CLOSING"}
       \/ cstate = "CLOSED" /\ closeSt = "none"
       => Nothing

\* Where the close is, whatever thread notices that the barrier is reached.
Closing ==
    /\ closeSt = "none" =>
         /\ ~closeOp /\ ~closeStarted /\ closeCalls = 0
         /\ cstate \in OpenStates \cup {"NONE", "OPENING", "OPEN_FAILED", "CLOSED"}
    /\ closeSt = "passed" =>
         /\ closeOp /\ ~closeStarted /\ closeCalls = 0
         /\ cstate \in ClosingStates \cup {"OPENING_AND_CLOSING"}
    /\ closeSt \in {"starting", "driver"} => closeCalls = 1 /\ cstate \in ClosingStates
    /\ closeSt \in {"done", "refused"} => closeCalls <= 1 /\ cstate \in {"CLOSED", "CLOSING"}
    /\ closeSt \in Started => outstanding = 0
    /\ closeSt # "none" =>
         /\ openSt \in {"callback", "delivered"}
         /\ ~RacyUser => \A o \in Op : st[o] # "checked"
         /\ Disciplined => canceling

\* The entry's reference is there from pass_open until the level is closed.
Referenced ==
    ref = IF \/ openSt \in {"none", "failed"}
             \/ cstate = "CLOSED"
             \/ closeSt \in {"done", "refused"} THEN 0 ELSE 1

\* What the end of file state says about the reads, and who will dispatch the
\* reads that wait.
EndOfFile ==
    /\ cstate \in ReceivedStates => eofOps > 0 /\ (Pending # {} => hold > 0)
    /\ cstate \in DeliveredStates =>
         /\ Parked = {}
         /\ eofOps > 0 => readOps = 0
         /\ cstate = "EOF_DELIVERED" => eofOps > 0
         /\ canceling => \A o \in Read : st[o] # "driver"
    /\ cstate \notin ReceivedStates \cup DeliveredStates => eofOps = 0
    /\ Pending # {} => (cstate \in DeliveredStates /\ eofOps > 0) \/ due + hold > 0
    /\ due + hold <= 1
    /\ due > 0 => readOps = 0 /\ eofOps = 0 /\ Pending # {}
    /\ (\E o \in Read : st[o] \in {"firedEof", "eofCb"}) \/ late["eof"] > 0 => readOps = 0

Sound == Owing /\ Opening /\ Closing /\ Referenced /\ EndOfFile /\ CountersExact

\* The inductive invariant: a sound state, or one after a failed assertion.
ContextInv == TypeOK /\ (aborted \/ Sound)

-----------------------------------------------------------------------------
(* Counting.  f stands for st, g for passOwes. *)

DataReads(f) == Cardinality({o \in Read : f[o] \in DataStates})
EofReads(f) == Cardinality({o \in Read : f[o] \in EofStates})
WaitingReads(f) == Cardinality({o \in Read : f[o] = "pending"})
Writes(f) == Cardinality({o \in Write : f[o] \in DataStates})
OwedData(g) == Cardinality({o \in Read : g[o] = "data"})
OwedEof(g) == Cardinality({o \in Read : g[o] = "eof"})
OwedWrites(g) == Cardinality({o \in Write : g[o] # "no"})
OpenCount == IF openSt \in Undelivered THEN 1 ELSE 0

One(b) == IF b THEN 1 ELSE 0

\* The counters of the entry, in these terms.
Counts ==
    /\ readOps = DataReads(st) + OwedData(passOwes) + late["data"] + hold
    /\ eofOps = EofReads(st) + OwedEof(passOwes) + late["eof"]
    /\ outstanding = readOps - hold + eofOps + WaitingReads(st) + Writes(st)
                       + OwedWrites(passOwes) + OpenCount

\* Counts restates CountersExact.
LEMMA CountsSame == CountersExact <=> Counts
  BY DEF CountersExact, Counts, Count, Pending, DataReads, EofReads, WaitingReads, Writes,
     OwedData, OwedEof, OwedWrites, OpenCount, DataStates, EofStates, Undelivered

\* A set of operations is finite; it is empty exactly when its size is zero.
LEMMA OpCard ==
  ASSUME NEW S \in SUBSET Op
  PROVE  IsFiniteSet(S) /\ Cardinality(S) \in Nat /\ (Cardinality(S) = 0 <=> S = {})
  BY OpAssumption, FS_Subset, FS_CardinalityType, FS_EmptySet DEF Op

\* When two sets differ at most in o, so do their sizes.
LEMMA CardMove ==
  ASSUME NEW A \in SUBSET Op, NEW B \in SUBSET Op, NEW o, A \ {o} = B \ {o}
  PROVE  Cardinality(B) = Cardinality(A) + One(o \in B) - One(o \in A)
  <1>1. IsFiniteSet(A) /\ IsFiniteSet(B) /\ Cardinality(A) \in Nat /\ Cardinality(B) \in Nat
    BY OpCard
  <1>2. Cardinality(A \ {o}) = IF o \in A THEN Cardinality(A) - 1 ELSE Cardinality(A)
    BY <1>1, FS_RemoveElement
  <1>3. Cardinality(B \ {o}) = IF o \in B THEN Cardinality(B) - 1 ELSE Cardinality(B)
    BY <1>1, FS_RemoveElement
  <1>4. Cardinality(A \ {o}) = Cardinality(B \ {o})
    OBVIOUS
  <1> DEFINE a == Cardinality(A)
             b == Cardinality(B)
             ina == o \in A
             inb == o \in B
  <1>5. a \in Nat /\ b \in Nat
        /\ (IF ina THEN a - 1 ELSE a) = (IF inb THEN b - 1 ELSE b)
    BY <1>1, <1>2, <1>3, <1>4
  <1> HIDE DEF a, b, ina, inb
  <1>6. b = a + One(inb) - One(ina)
    BY <1>5 DEF One
  <1> QED
    BY <1>6 DEF a, b, ina, inb

\* The counts of operations are naturals, and zero when there is none to count.
LEMMA StCounts ==
  ASSUME NEW f
  PROVE  /\ DataReads(f) \in Nat /\ EofReads(f) \in Nat /\ WaitingReads(f) \in Nat
         /\ Writes(f) \in Nat
         /\ DataReads(f) = 0 <=> \A o \in Read : f[o] \notin DataStates
         /\ EofReads(f) = 0 <=> \A o \in Read : f[o] \notin EofStates
         /\ WaitingReads(f) = 0 <=> \A o \in Read : f[o] # "pending"
         /\ Writes(f) = 0 <=> \A o \in Write : f[o] \notin DataStates
  <1> DEFINE A == {o \in Read : f[o] \in DataStates}
             B == {o \in Read : f[o] \in EofStates}
             C == {o \in Read : f[o] = "pending"}
             D == {o \in Write : f[o] \in DataStates}
  <1>1. A \in SUBSET Op /\ B \in SUBSET Op /\ C \in SUBSET Op /\ D \in SUBSET Op
    BY DEF Op
  <1>2. /\ DataReads(f) = Cardinality(A) /\ EofReads(f) = Cardinality(B)
        /\ WaitingReads(f) = Cardinality(C) /\ Writes(f) = Cardinality(D)
    BY DEF DataReads, EofReads, WaitingReads, Writes
  <1>3. /\ A = {} <=> \A o \in Read : f[o] \notin DataStates
        /\ B = {} <=> \A o \in Read : f[o] \notin EofStates
        /\ C = {} <=> \A o \in Read : f[o] # "pending"
        /\ D = {} <=> \A o \in Write : f[o] \notin DataStates
    OBVIOUS
  <1> HIDE DEF A, B, C, D
  <1> QED
    BY <1>1, <1>2, <1>3, OpCard

\* The same for what passes owe.
LEMMA OweCounts ==
  ASSUME NEW g
  PROVE  /\ OwedData(g) \in Nat /\ OwedEof(g) \in Nat /\ OwedWrites(g) \in Nat
         /\ OwedData(g) = 0 <=> \A o \in Read : g[o] # "data"
         /\ OwedEof(g) = 0 <=> \A o \in Read : g[o] # "eof"
         /\ OwedWrites(g) = 0 <=> \A o \in Write : g[o] = "no"
  <1> DEFINE A == {o \in Read : g[o] = "data"}
             B == {o \in Read : g[o] = "eof"}
             C == {o \in Write : g[o] # "no"}
  <1>1. A \in SUBSET Op /\ B \in SUBSET Op /\ C \in SUBSET Op
    BY DEF Op
  <1>2. OwedData(g) = Cardinality(A) /\ OwedEof(g) = Cardinality(B)
        /\ OwedWrites(g) = Cardinality(C)
    BY DEF OwedData, OwedEof, OwedWrites
  <1>3. /\ A = {} <=> \A o \in Read : g[o] # "data"
        /\ B = {} <=> \A o \in Read : g[o] # "eof"
        /\ C = {} <=> \A o \in Write : g[o] = "no"
    OBVIOUS
  <1> HIDE DEF A, B, C
  <1> QED
    BY <1>1, <1>2, <1>3, OpCard

\* What moving a read from one state to another does to the counts.
LEMMA ReadMoves ==
  ASSUME NEW f, f \in [Op -> OpStates], NEW o \in Read, NEW v
  PROVE  LET h == [f EXCEPT ![o] = v]
         IN  /\ DataReads(h) = DataReads(f) + One(v \in DataStates) - One(f[o] \in DataStates)
             /\ EofReads(h) = EofReads(f) + One(v \in EofStates) - One(f[o] \in EofStates)
             /\ WaitingReads(h) = WaitingReads(f) + One(v = "pending") - One(f[o] = "pending")
             /\ Writes(h) = Writes(f)
  <1> DEFINE h == [f EXCEPT ![o] = v]
  <1>0. /\ DOMAIN f = Op /\ o \in Op /\ o \notin Write /\ h[o] = v
        /\ \A x \in Op : x # o => h[x] = f[x]
    BY OpAssumption DEF Op
  <1> HIDE DEF h
  <1> DEFINE In(D, S, e) == {x \in D : e[x] \in S}
  <1>1. ASSUME NEW S PROVE Cardinality(In(Read, S, h))
                           = Cardinality(In(Read, S, f)) + One(v \in S) - One(f[o] \in S)
    <2>1. /\ In(Read, S, h) \in SUBSET Op /\ In(Read, S, f) \in SUBSET Op
          /\ In(Read, S, h) \ {o} = In(Read, S, f) \ {o}
          /\ o \in In(Read, S, h) <=> v \in S
          /\ o \in In(Read, S, f) <=> f[o] \in S
      BY <1>0 DEF Op
    <2> HIDE DEF In
    <2>2. /\ One(o \in In(Read, S, h)) = One(v \in S)
          /\ One(o \in In(Read, S, f)) = One(f[o] \in S)
      BY <2>1 DEF One
    <2> QED
      BY <2>1, <2>2, CardMove
  <1>2. Writes(h) = Writes(f)
    <2>1. {x \in Write : h[x] \in DataStates} = {x \in Write : f[x] \in DataStates}
      BY <1>0 DEF Op
    <2> QED
      BY <2>1 DEF Writes
  <1>3. DataReads(h) = DataReads(f) + One(v \in DataStates) - One(f[o] \in DataStates)
    BY <1>1 DEF DataReads
  <1>4. EofReads(h) = EofReads(f) + One(v \in EofStates) - One(f[o] \in EofStates)
    BY <1>1 DEF EofReads
  <1>5. WaitingReads(h) = WaitingReads(f) + One(v = "pending") - One(f[o] = "pending")
    <2>1. /\ In(Read, {"pending"}, h) = {x \in Read : h[x] = "pending"}
          /\ In(Read, {"pending"}, f) = {x \in Read : f[x] = "pending"}
      OBVIOUS
    <2>2. One(v \in {"pending"}) = One(v = "pending")
          /\ One(f[o] \in {"pending"}) = One(f[o] = "pending")
      BY DEF One
    <2> HIDE DEF In
    <2> QED
      BY <1>1, <2>1, <2>2 DEF WaitingReads
  <1> QED
    BY <1>2, <1>3, <1>4, <1>5 DEF h

\* What moving a write does to the counts: a write is not a read.
LEMMA WriteMoves ==
  ASSUME NEW f, f \in [Op -> OpStates], NEW o \in Write, NEW v
  PROVE  LET h == [f EXCEPT ![o] = v]
         IN  /\ Writes(h) = Writes(f) + One(v \in DataStates) - One(f[o] \in DataStates)
             /\ DataReads(h) = DataReads(f) /\ EofReads(h) = EofReads(f)
             /\ WaitingReads(h) = WaitingReads(f)
  <1> DEFINE h == [f EXCEPT ![o] = v]
  <1>0. /\ DOMAIN f = Op /\ o \in Op /\ o \notin Read /\ h[o] = v
        /\ \A x \in Op : x # o => h[x] = f[x]
    BY OpAssumption DEF Op
  <1> HIDE DEF h
  <1>1. Writes(h) = Writes(f) + One(v \in DataStates) - One(f[o] \in DataStates)
    <2> DEFINE B == {x \in Write : h[x] \in DataStates}
               A == {x \in Write : f[x] \in DataStates}
    <2>1. /\ A \in SUBSET Op /\ B \in SUBSET Op /\ A \ {o} = B \ {o}
          /\ o \in B <=> v \in DataStates
          /\ o \in A <=> f[o] \in DataStates
      BY <1>0 DEF Op
    <2>2. Writes(h) = Cardinality(B) /\ Writes(f) = Cardinality(A)
      BY DEF Writes
    <2> HIDE DEF A, B
    <2>3. One(o \in B) = One(v \in DataStates) /\ One(o \in A) = One(f[o] \in DataStates)
      BY <2>1 DEF One
    <2> QED
      BY <2>1, <2>2, <2>3, CardMove
  <1>2. /\ {x \in Read : h[x] \in DataStates} = {x \in Read : f[x] \in DataStates}
        /\ {x \in Read : h[x] \in EofStates} = {x \in Read : f[x] \in EofStates}
        /\ {x \in Read : h[x] = "pending"} = {x \in Read : f[x] = "pending"}
    BY <1>0 DEF Op
  <1> QED
    BY <1>1, <1>2 DEF h, DataReads, EofReads, WaitingReads

\* What a pass that comes to owe v, or a delivery that settles it, does to what
\* is owed; end of file is not owed.
LEMMA OweMoves ==
  ASSUME NEW g, g \in [Op -> Kind \cup {"no"}], NEW o \in Op, NEW v
  PROVE  LET h == [g EXCEPT ![o] = v]
         IN  /\ o \in Read => /\ OwedData(h) = OwedData(g) + One(v = "data") - One(g[o] = "data")
                              /\ OwedWrites(h) = OwedWrites(g)
             /\ o \in Write => /\ OwedData(h) = OwedData(g)
                               /\ OwedWrites(h) = OwedWrites(g) + One(g[o] = "no") - One(v = "no")
  <1> DEFINE h == [g EXCEPT ![o] = v]
  <1>0. /\ DOMAIN g = Op /\ (o \in Read => o \notin Write) /\ (o \in Write => o \notin Read)
        /\ h[o] = v /\ \A x \in Op : x # o => h[x] = g[x]
    BY OpAssumption DEF Op
  <1> HIDE DEF h
  <1> DEFINE RB == {x \in Read : h[x] = "data"}
             RA == {x \in Read : g[x] = "data"}
             WB == {x \in Write : h[x] # "no"}
             WA == {x \in Write : g[x] # "no"}
  <1>1. /\ RA \in SUBSET Op /\ RB \in SUBSET Op /\ WA \in SUBSET Op /\ WB \in SUBSET Op
        /\ RA \ {o} = RB \ {o} /\ WA \ {o} = WB \ {o}
    BY <1>0 DEF Op
  <1>2. o \in Read => /\ (o \in RB <=> v = "data") /\ (o \in RA <=> g[o] = "data")
                      /\ o \notin WB /\ o \notin WA
    BY <1>0
  <1>3. o \in Write => /\ (o \in WB <=> v # "no") /\ (o \in WA <=> g[o] # "no")
                       /\ o \notin RB /\ o \notin RA
    BY <1>0
  <1>4. /\ OwedData(h) = Cardinality(RB) /\ OwedData(g) = Cardinality(RA)
        /\ OwedWrites(h) = Cardinality(WB) /\ OwedWrites(g) = Cardinality(WA)
    BY DEF OwedData, OwedWrites
  <1> HIDE DEF RA, RB, WA, WB
  <1>5. /\ Cardinality(RB) = Cardinality(RA) + One(o \in RB) - One(o \in RA)
        /\ Cardinality(WB) = Cardinality(WA) + One(o \in WB) - One(o \in WA)
        /\ Cardinality(RA) \in Nat /\ Cardinality(WA) \in Nat
    BY <1>1, CardMove, OpCard
  <1>6. ASSUME o \in Read
        PROVE  /\ OwedData(h) = OwedData(g) + One(v = "data") - One(g[o] = "data")
               /\ OwedWrites(h) = OwedWrites(g)
    <2>1. /\ One(o \in RB) = One(v = "data") /\ One(o \in RA) = One(g[o] = "data")
          /\ One(o \in WB) = 0 /\ One(o \in WA) = 0
      BY <1>2, <1>6 DEF One
    <2> QED
      BY <1>4, <1>5, <2>1
  <1>7. ASSUME o \in Write
        PROVE  /\ OwedData(h) = OwedData(g)
               /\ OwedWrites(h) = OwedWrites(g) + One(g[o] = "no") - One(v = "no")
    <2>1. /\ One(o \in WB) = 1 - One(v = "no") /\ One(o \in WA) = 1 - One(g[o] = "no")
          /\ One(o \in RB) = 0 /\ One(o \in RA) = 0
          /\ One(v = "no") \in Int /\ One(g[o] = "no") \in Int
      BY <1>3, <1>7 DEF One
    <2> QED
      BY <1>4, <1>5, <2>1
  <1> QED
    BY <1>6, <1>7 DEF h

\* OweMoves for a read, and for a write.
LEMMA OweReadMoves ==
  ASSUME NEW g, g \in [Op -> Kind \cup {"no"}], NEW o \in Read, NEW v
  PROVE  LET h == [g EXCEPT ![o] = v]
         IN  /\ OwedData(h) = OwedData(g) + One(v = "data") - One(g[o] = "data")
             /\ OwedWrites(h) = OwedWrites(g)
  <1>1. o \in Op
    BY DEF Op
  <1> QED
    BY <1>1, OweMoves DEF One

LEMMA OweWriteMoves ==
  ASSUME NEW g, g \in [Op -> Kind \cup {"no"}], NEW o \in Write, NEW v
  PROVE  LET h == [g EXCEPT ![o] = v]
         IN  /\ OwedData(h) = OwedData(g)
             /\ OwedWrites(h) = OwedWrites(g) + One(g[o] = "no") - One(v = "no")
  <1>1. o \in Op
    BY DEF Op
  <1> QED
    BY <1>1, OweMoves DEF One

\* globus_l_xio_driver_purge_read_eof changes no count, and only parked reads.
LEMMA PurgeKeeps ==
  ASSUME NEW f, f \in [Op -> OpStates]
  PROVE  /\ Purged(f) \in [Op -> OpStates]
         /\ \A o \in Op : Purged(f)[o] = IF f[o] = "parked" THEN "firedEof" ELSE f[o]
         /\ DataReads(Purged(f)) = DataReads(f) /\ EofReads(Purged(f)) = EofReads(f)
         /\ WaitingReads(Purged(f)) = WaitingReads(f) /\ Writes(Purged(f)) = Writes(f)
  <1>1. Purged(f) \in [Op -> OpStates]
        /\ \A o \in Op : Purged(f)[o] = IF f[o] = "parked" THEN "firedEof" ELSE f[o]
    BY DEF Purged, OpStates
  <1> DEFINE h == Purged(f)
  <1> HIDE DEF h
  <1>2. /\ {x \in Read : h[x] \in DataStates} = {x \in Read : f[x] \in DataStates}
        /\ {x \in Read : h[x] \in EofStates} = {x \in Read : f[x] \in EofStates}
        /\ {x \in Read : h[x] = "pending"} = {x \in Read : f[x] = "pending"}
        /\ {x \in Write : h[x] \in DataStates} = {x \in Write : f[x] \in DataStates}
    BY <1>1 DEF h, Op, DataStates, EofStates
  <1> QED
    BY <1>1, <1>2 DEF h, DataReads, EofReads, WaitingReads, Writes

\* What the counters say about where the operations are.
LEMMA Told ==
  ASSUME TypeOK, Sound
  PROVE  /\ readOps \in Nat /\ eofOps \in Nat /\ outstanding \in Nat
         /\ outstanding = 0 => /\ \A o \in Op : st[o] \in {"idle", "checked", "cb"}
                               /\ \A o \in Op : passOwes[o] = "no"
                               /\ \A k \in Kind : late[k] = 0
                               /\ openSt \notin Undelivered /\ due = 0
                               /\ eofOps = 0 /\ readOps = hold
         /\ readOps = 0 => /\ \A o \in Read : st[o] \notin DataStates /\ passOwes[o] = "no"
                           /\ late["data"] = 0 /\ hold = 0
         /\ eofOps = 0 => /\ \A o \in Read : st[o] \notin EofStates
                          /\ late["eof"] = 0
         /\ \A o \in Read : passOwes[o] # "no" => readOps > 1
         /\ \A o \in Op : passOwes[o] # "eof"
         /\ OwedEof(passOwes) = 0
         /\ Counts
  <1>0. Counts
    BY CountsSame DEF Sound
  <1>1. /\ DataReads(st) \in Nat /\ EofReads(st) \in Nat /\ WaitingReads(st) \in Nat
        /\ Writes(st) \in Nat /\ OwedData(passOwes) \in Nat /\ OwedEof(passOwes) \in Nat
        /\ OwedWrites(passOwes) \in Nat /\ OpenCount \in {0, 1}
        /\ late["data"] \in Nat /\ late["eof"] \in Nat /\ hold \in Nat /\ due \in Nat
    BY StCounts, OweCounts DEF TypeOK, Kind, OpenCount
  <1> DEFINE a == DataReads(st)
             b == OwedData(passOwes)
             c == late["data"]
             e == EofReads(st)
             d == OwedEof(passOwes)
             l == late["eof"]
             p == WaitingReads(st)
             w == Writes(st)
             u == OwedWrites(passOwes)
             n == OpenCount
  <1>a. /\ a \in Nat /\ b \in Nat /\ c \in Nat /\ d \in Nat /\ e \in Nat /\ l \in Nat
        /\ p \in Nat /\ w \in Nat /\ u \in Nat /\ n \in Nat /\ hold \in Nat
        /\ readOps = a + b + c + hold /\ eofOps = e + d + l
        /\ outstanding = readOps - hold + eofOps + p + w + u + n
    BY <1>0, <1>1 DEF Counts
  <1> HIDE DEF a, b, c, d, e, l, p, w, u, n
  <1>2. readOps \in Nat /\ eofOps \in Nat /\ outstanding \in Nat
    BY <1>a
  <1>3. /\ \A o \in Op : passOwes[o] # "no" => passOwes[o] = "data" /\ st[o] = "driver"
        /\ \A o \in Write : st[o] \in {"idle", "checked", "cb"} \cup DataStates
        /\ \A o \in Op : st[o] \in OpStates
    BY DEF Sound, Owing, TypeOK
  <1>4. OwedEof(passOwes) = 0 /\ \A o \in Op : passOwes[o] # "eof"
    BY <1>3, OweCounts DEF Op
  <1>5. ASSUME readOps = 0
        PROVE  /\ \A o \in Read : st[o] \notin DataStates /\ passOwes[o] = "no"
               /\ late["data"] = 0 /\ hold = 0
    <2>0. a = 0 /\ b = 0 /\ c = 0 /\ hold = 0
      BY <1>a, <1>5
    <2>1. DataReads(st) = 0 /\ OwedData(passOwes) = 0 /\ late["data"] = 0 /\ hold = 0
      BY <2>0 DEF a, b, c
    <2> QED
      BY <2>1, <1>3, StCounts, OweCounts DEF Op
  <1>6. ASSUME eofOps = 0
        PROVE  (\A o \in Read : st[o] \notin EofStates) /\ late["eof"] = 0
    <2>0. e = 0 /\ l = 0
      BY <1>a, <1>6
    <2>1. EofReads(st) = 0 /\ late["eof"] = 0
      BY <2>0 DEF e, l
    <2> QED
      BY <2>1, StCounts
  <1>7. ASSUME NEW o \in Read, passOwes[o] # "no" PROVE readOps > 1
    <2>1. o \in Op /\ passOwes[o] = "data" /\ st[o] \in DataStates
      BY <1>3, <1>7 DEF Op, DataStates
    <2>2. a # 0 /\ b # 0
      BY <2>1, StCounts, OweCounts DEF a, b
    <2> QED
      BY <1>a, <2>2
  <1>8. ASSUME outstanding = 0
        PROVE  /\ \A o \in Op : st[o] \in {"idle", "checked", "cb"}
               /\ \A o \in Op : passOwes[o] = "no"
               /\ \A k \in Kind : late[k] = 0
               /\ openSt \notin Undelivered /\ due = 0
               /\ eofOps = 0 /\ readOps = hold
    <2>1. /\ DataReads(st) = 0 /\ OwedData(passOwes) = 0 /\ late["data"] = 0
          /\ readOps = hold /\ eofOps = 0 /\ WaitingReads(st) = 0 /\ Writes(st) = 0
          /\ OwedWrites(passOwes) = 0 /\ OpenCount = 0 /\ late["eof"] = 0
          /\ EofReads(st) = 0
      <3>1. /\ a = 0 /\ b = 0 /\ c = 0 /\ e = 0 /\ l = 0 /\ p = 0 /\ w = 0 /\ u = 0
            /\ n = 0 /\ readOps = hold /\ eofOps = 0
        BY <1>a, <1>8
      <3> QED
        BY <3>1 DEF a, b, c, e, l, p, w, u, n
    <2>2. \A o \in Read : st[o] \notin DataStates \cup EofStates \cup {"pending"}
      BY <2>1, StCounts
    <2>3. \A o \in Write : st[o] \notin DataStates
      BY <2>1, StCounts
    <2>4. \A o \in Op : st[o] \in {"idle", "checked", "cb"}
      BY <1>3, <2>2, <2>3 DEF Op, OpStates, DataStates, EofStates
    <2>5. due = 0
      BY <2>2, <1>1 DEF Sound, EndOfFile, Pending
    <2>6. openSt \notin Undelivered
      BY <2>1 DEF OpenCount
    <2> QED
      BY <2>1, <2>4, <2>5, <2>6, <1>3 DEF Kind
  <1> QED
    BY <1>0, <1>2, <1>4, <1>5, <1>6, <1>7, <1>8

-----------------------------------------------------------------------------
(* Types *)

\* A purge keeps the type of st.
LEMMA PurgeType == \A f \in [Op -> OpStates] : Purged(f) \in [Op -> OpStates]
  BY DEF Purged, OpStates

\* Delivering an operation keeps the types, whichever thread does it.
LEMMA DeliveryTypes ==
  ASSUME TypeOK, NEW f \in [Op -> OpStates],
         WriteDelivered(f) \/ EofReadDelivered(f) \/ DataReadDelivered(f),
         passOwes' \in [Op -> Kind \cup {"no"}], late' \in [Kind -> Nat]
  PROVE  TypeOK'
  <1>1. ASSUME NEW s \in ContextStates, NEW n, StartIfReached(s, n)
        PROVE  /\ closeOp' \in BOOLEAN /\ closeStarted' \in BOOLEAN /\ ref' \in Int
               /\ closeSt' \in {"none", "passed", "starting", "driver", "done", "refused"}
               /\ closeCalls' \in Nat /\ canceling' \in BOOLEAN
    <2>1. CASE BarrierReached(s, n)
      BY <1>1, <2>1 DEF StartIfReached, TypeOK
    <2>2. CASE ~BarrierReached(s, n)
      BY <1>1, <2>2 DEF StartIfReached, closing, TypeOK
    <2> QED
      BY <2>1, <2>2
  <1>2. CASE WriteDelivered(f)
    <2>1. StartIfReached(cstate, outstanding - 1) /\ cstate \in ContextStates
      BY <1>2 DEF WriteDelivered, TypeOK
    <2> QED
      BY <1>1, <1>2, <2>1 DEF WriteDelivered, TypeOK, Insist, pendings
  <1>3. CASE EofReadDelivered(f)
    <2>1. PICK s : /\ s \in ContextStates /\ cstate' = s /\ StartIfReached(s, outstanding - 1)
      BY <1>3 DEF EofReadDelivered, TypeOK, ContextStates, OpenStates, DeliveredStates
    <2>2. due' \in Nat /\ st' \in [Op -> OpStates]
      BY <1>3, PurgeType DEF EofReadDelivered, DueAfter, TypeOK
    <2> QED
      BY <1>1, <1>3, <2>1, <2>2 DEF EofReadDelivered, TypeOK, Insist
  <1>4. CASE DataReadDelivered(f)
    <2>1. StartIfReached(cstate, outstanding - 1) /\ cstate \in ContextStates
      BY <1>4 DEF DataReadDelivered, TypeOK
    <2>2. st' \in [Op -> OpStates]
      BY <1>4, PurgeType DEF DataReadDelivered
    <2> QED
      BY <1>1, <1>4, <2>1, <2>2 DEF DataReadDelivered, TypeOK, Insist, pendings
  <1> QED
    BY <1>2, <1>3, <1>4

\* Opening and closing keep the types.
LEMMA OpenCloseTypes == TypeOK /\ (OpenStep \/ CloseStep) => TypeOK'
  <1> SUFFICES ASSUME TypeOK, OpenStep \/ CloseStep PROVE TypeOK'
    OBVIOUS
  <1> USE ModeAssumption DEF TypeOK, ContextStates, OpenStates, ReceivedStates, DeliveredStates,
        BarrierStates, pendings, counters, Insist
  <1>1. CASE PassOpen
    BY <1>1 DEF PassOpen
  <1>2. CASE PassOpenFails
    BY <1>2 DEF PassOpenFails
  <1>3. ASSUME NEW success \in BOOLEAN, FinishedOpen(success) PROVE TypeOK'
    BY <1>3 DEF FinishedOpen, closing
  <1>4. CASE OpenKickout
    BY <1>4 DEF OpenKickout, closing
  <1>5. CASE OpenDelivered
    <2>1. cstate' \in ContextStates
      BY <1>5 DEF OpenDelivered
    <2>2. ref' \in Int /\ closeCalls' \in Nat
      BY <1>5 DEF OpenDelivered
    <2>3. closeSt' \in {"none", "passed", "starting", "driver", "done", "refused"}
      BY <1>5 DEF OpenDelivered
    <2>4. closeStarted' \in BOOLEAN /\ aborted' \in BOOLEAN
      BY <1>5 DEF OpenDelivered
    <2> QED
      BY <1>5, <2>1, <2>2, <2>3, <2>4 DEF OpenDelivered
  <1>6. ASSUME NEW cancel \in CancelModes, PassClose(cancel) PROVE TypeOK'
    <2>1. cstate' \in ContextStates
      BY <1>6 DEF PassClose
    <2>2. /\ closeStarted' \in BOOLEAN /\ closeOp' \in BOOLEAN /\ closeCalls' \in Nat
          /\ closeSt' \in {"none", "passed", "starting", "driver", "done", "refused"}
      <3>1. CASE outstanding = 0
        BY <1>6, <3>1 DEF PassClose
      <3>2. CASE outstanding # 0
        BY <1>6, <3>2 DEF PassClose
      <3> QED
        BY <3>1, <3>2
    <2> QED
      BY <1>6, <2>1, <2>2 DEF PassClose
  <1>7. CASE StartClose
    BY <1>7 DEF StartClose
  <1>8. CASE FinishedClose
    BY <1>8 DEF FinishedClose
  <1>9. CASE PassCloseFails
    BY <1>9 DEF PassCloseFails
  <1> QED
    BY <1>1, <1>2, <1>3, <1>4, <1>5, <1>6, <1>7, <1>8, <1>9 DEF OpenStep, CloseStep

\* The steps of one operation keep the types.
LEMMA OpTypes ==
  ASSUME TypeOK, NEW o \in Op,
         \/ Check(o) \/ DriverStep(o) \/ Kickout(o) \/ CallbackReturns(o)
         \/ PassRead(o) \/ FinishedEof(o) \/ PassWrite(o)
  PROVE  TypeOK'
  <1> USE DEF TypeOK, pendings, counters, closing, Insist
  <1>0. ASSUME NEW v \in OpStates PROVE [st EXCEPT ![o] = v] \in [Op -> OpStates]
    OBVIOUS
  <1>00. Taken(o) \in Kind \cup {"no"} /\ LateBy(o) \in [Kind -> Nat]
    BY DEF Taken, LateBy, Kind
  <1>1. CASE Check(o)
    BY <1>0, <1>1 DEF Check, OpStates
  <1>2. CASE PassReturns(o)
    BY <1>2 DEF PassReturns
  <1>3. CASE PassFails(o)
    <2>1. st' \in [Op -> OpStates]
      BY <1>0, <1>3, PurgeType DEF PassFails, OpStates
    <2>2. /\ closeSt' \in {"none", "passed", "starting", "driver", "done", "refused"}
          /\ closeCalls' \in Nat /\ UNCHANGED <<closeOp, closeStarted, ref, canceling>>
          /\ aborted' \in BOOLEAN
      BY <1>3 DEF PassFails, StartAfterFailure
    <2>3. readOps' \in Int
      BY <1>3 DEF PassFails
    <2>4. /\ outstanding' \in Int /\ mayFail' \in [Op -> BOOLEAN]
          /\ UNCHANGED <<cstate, eofOps, openSt, passOwes, late, due, hold>>
      BY <1>3 DEF PassFails
    <2> QED
      BY <2>1, <2>2, <2>3, <2>4
  <1>4. CASE Finished(o)
    BY <1>0, <1>4 DEF Finished, OpStates
  <1>5. CASE Kickout(o)
    BY <1>0, <1>5 DEF Kickout, OpStates
  <1>6. CASE CallbackReturns(o)
    BY <1>0, <1>6 DEF CallbackReturns, OpStates
  <1>7. CASE PassRead(o)
    <2>1. /\ outstanding' \in Int /\ aborted' \in BOOLEAN
          /\ UNCHANGED <<cstate, openSt, due, hold, closeOp, closeStarted, ref, closeSt,
                         closeCalls, canceling>>
      BY <1>7 DEF PassRead
    <2>2. st' \in [Op -> OpStates] /\ readOps' \in Int /\ eofOps' \in Int
      BY <1>0, <1>7 DEF PassRead, OpStates
    <2>3. /\ late' \in [Kind -> Nat] /\ passOwes' \in [Op -> Kind \cup {"no"}]
          /\ mayFail' \in [Op -> BOOLEAN]
      BY <1>00, <1>7 DEF PassRead
    <2> QED
      BY <2>1, <2>2, <2>3
  <1>8. CASE FinishedEof(o)
    <2>1. cstate' \in ContextStates
      BY <1>8 DEF FinishedEof, ContextStates, ReceivedStates
    <2> QED
      BY <1>0, <1>8, <2>1 DEF FinishedEof, OpStates
  <1>9. CASE PassWrite(o)
    BY <1>0, <1>00, <1>9 DEF PassWrite, OpStates
  <1> QED
    BY <1>1, <1>2, <1>3, <1>4, <1>5, <1>6, <1>7, <1>8, <1>9 DEF DriverStep

\* Every step keeps the types.
LEMMA TypeStep == TypeOK /\ [Next]_vars => TypeOK'
  <1> SUFFICES ASSUME TypeOK, [Next]_vars PROVE TypeOK'
    OBVIOUS
  <1>1. CASE UNCHANGED vars
    BY <1>1 DEF vars, TypeOK
  <1>2. CASE OpenStep \/ CloseStep
    BY <1>2, OpenCloseTypes
  <1>3. ASSUME NEW o \in Op,
               \/ Check(o) \/ DriverStep(o) \/ Kickout(o) \/ CallbackReturns(o)
               \/ PassRead(o) \/ FinishedEof(o) \/ PassWrite(o)
        PROVE  TypeOK'
    BY <1>3, OpTypes
  <1>4. ASSUME NEW o \in Op, DeliverFromCallback(o) \/ DeliverFromPass(o) PROVE TypeOK'
    <2>1. st \in [Op -> OpStates] /\ [st EXCEPT ![o] = "cb"] \in [Op -> OpStates]
      BY DEF TypeOK, OpStates
    <2>2. passOwes' \in [Op -> Kind \cup {"no"}] /\ late' \in [Kind -> Nat]
      BY <1>4 DEF DeliverFromCallback, DeliverFromPass, TypeOK
    <2> QED
      BY <1>4, <2>1, <2>2, DeliveryTypes DEF DeliverFromCallback, DeliverFromPass, Delivered
  <1>5. ASSUME NEW k \in Kind, DeliverLate(k) PROVE TypeOK'
    <2>1. passOwes' \in [Op -> Kind \cup {"no"}] /\ late' \in [Kind -> Nat]
          /\ st \in [Op -> OpStates]
      BY <1>5 DEF DeliverLate, TypeOK
    <2> QED
      BY <1>5, <2>1, DeliveryTypes DEF DeliverLate
  <1>6. CASE PendingStep
    <2> USE DEF TypeOK, closing, pendings, Insist
    <2>1. CASE PendingBegin
      BY <2>1 DEF PendingBegin
    <2>2. CASE PendingDump
      <3>1. Pending \in SUBSET Op
        BY DEF Pending, Op
      <3>2. Cardinality(Pending) \in Nat
        BY <3>1, OpCard
      <3>3. st' \in [Op -> OpStates]
        BY <2>2 DEF PendingDump, OpStates
      <3> QED
        BY <2>2, <3>2, <3>3 DEF PendingDump
    <2>3. ASSUME NEW o \in Read, PendingDispatch(o) PROVE TypeOK'
      <3>1. st' \in [Op -> OpStates]
        BY <2>3 DEF PendingDispatch, OpStates, Op
      <3> QED
        BY <2>3, <3>1 DEF PendingDispatch
    <2>4. CASE PendingEnd
      BY <2>4, PurgeType DEF PendingEnd
    <2> QED
      BY <1>6, <2>1, <2>2, <2>3, <2>4 DEF PendingStep
  <1> QED
    BY <1>1, <1>2, <1>3, <1>4, <1>5, <1>6 DEF Next, Deliver, Op

-----------------------------------------------------------------------------
(* Every step keeps Sound, unless an assertion fails, and none fails when the *)
(* user is disciplined.                                                       *)

Kept == (aborted' \/ Sound') /\ (Disciplined => aborted' = aborted)

\* CountsSame, of the next state.
LEMMA CountsSameNext == CountersExact' <=> Counts'
  BY CountsSame, PTL

\* The counts of a state in which nothing is passed.
LEMMA NothingCounts ==
  ASSUME NEW f, NEW g, \A o \in Op : f[o] = "idle", \A o \in Op : g[o] = "no"
  PROVE  /\ DataReads(f) = 0 /\ EofReads(f) = 0 /\ WaitingReads(f) = 0 /\ Writes(f) = 0
         /\ OwedData(g) = 0 /\ OwedEof(g) = 0 /\ OwedWrites(g) = 0
  BY StCounts, OweCounts DEF Op, DataStates, EofStates

\* The initial state is sound.
LEMMA InitSound == Init => ContextInv
  <1> SUFFICES ASSUME Init PROVE TypeOK /\ Sound
    BY DEF ContextInv
  <1>1. TypeOK
    <2>1. /\ st \in [Op -> OpStates] /\ passOwes \in [Op -> Kind \cup {"no"}]
          /\ late \in [Kind -> Nat] /\ mayFail \in [Op -> BOOLEAN]
      BY DEF Init, OpStates
    <2>2. /\ closeOp \in BOOLEAN /\ closeStarted \in BOOLEAN /\ canceling \in BOOLEAN
          /\ aborted \in BOOLEAN /\ cstate \in ContextStates
      BY DEF Init, ContextStates
    <2>3. /\ outstanding \in Int /\ readOps \in Int /\ eofOps \in Int /\ ref \in Int
          /\ due \in Nat /\ hold \in Nat /\ closeCalls \in Nat
          /\ openSt = "none" /\ closeSt = "none"
      BY DEF Init
    <2> QED
      BY <2>1, <2>2, <2>3 DEF TypeOK
  <1>2. Counts
    <2>1. /\ \A o \in Op : st[o] = "idle"
          /\ \A o \in Op : passOwes[o] = "no"
      BY DEF Init
    <2> QED
      BY <2>1, NothingCounts DEF Init, Counts, OpenCount, Undelivered, Kind
  <1>3. Owing /\ Opening /\ Closing /\ Referenced
    BY DEF Init, Owing, Opening, Closing, Referenced, Nothing, Op, OpenStates, Started
  <1>4. EndOfFile
    <2>1. Pending = {} /\ late["eof"] = 0
          /\ \A o \in Read : st[o] \notin {"firedEof", "eofCb"}
      BY DEF Init, Pending, Op, Kind
    <2> QED
      BY <2>1 DEF Init, EndOfFile, ReceivedStates, DeliveredStates
  <1> QED
    BY <1>1, <1>2, <1>3, <1>4, CountsSame DEF Sound

\* The steps of the open.
LEMMA OpenKeeps == TypeOK /\ Sound /\ OpenStep => Kept
  <1> SUFFICES ASSUME TypeOK, Sound, OpenStep PROVE Kept
    OBVIOUS
  <1>0. /\ readOps \in Nat /\ eofOps \in Nat /\ outstanding \in Nat /\ Counts
        /\ outstanding = 0 => openSt \notin Undelivered
    BY Told
  <1>1. UNCHANGED <<readOps, eofOps, st, passOwes, late, mayFail, due, hold, canceling, closeOp>>
    BY DEF OpenStep, PassOpen, PassOpenFails, FinishedOpen, OpenKickout, OpenDelivered,
       pendings, counters, closing
  <1>2. Owing'
    BY <1>1 DEF Sound, Owing
  <1>3. Pending' = Pending /\ Parked' = Parked /\ Nothing' = Nothing
    BY <1>1 DEF Pending, Parked, Nothing
  <1>4. ASSUME outstanding' - outstanding = OpenCount' - OpenCount, outstanding' \in Int
        PROVE  CountersExact'
    <2>1. OpenCount \in Int /\ OpenCount' \in Int
      BY DEF OpenCount
    <2>2. Counts'
      BY <1>0, <1>1, <1>4, <2>1, StCounts, OweCounts DEF Counts, TypeOK, Kind
    <2> QED
      BY <2>2, CountsSameNext
  <1> USE DEF ContextStates, OpenStates, ReceivedStates, DeliveredStates, BarrierStates
  <1>5. CASE PassOpen
    <2>1. CountersExact'
      BY <1>0, <1>4, <1>5 DEF PassOpen, OpenCount, Undelivered, Sound, Opening
    <2>2. Opening' /\ Closing' /\ Referenced'
      BY <1>1, <1>3, <1>5 DEF PassOpen, Sound, Opening, Closing, Referenced, Started, Nothing
    <2>3. EndOfFile' /\ aborted' = aborted
      BY <1>1, <1>3, <1>5 DEF PassOpen, Sound, EndOfFile
    <2> QED
      BY <1>2, <2>1, <2>2, <2>3 DEF Sound, Kept
  <1>6. CASE PassOpenFails
    <2>1. CountersExact'
      BY <1>0, <1>4, <1>6 DEF PassOpenFails, OpenCount, Undelivered
    <2>2. Opening' /\ Closing' /\ Referenced'
      BY <1>1, <1>3, <1>6 DEF PassOpenFails, Sound, Opening, Closing, Referenced, Started, Nothing
    <2>3. EndOfFile' /\ aborted' = aborted
      BY <1>1, <1>3, <1>6 DEF PassOpenFails, Sound, EndOfFile
    <2> QED
      BY <1>2, <2>1, <2>2, <2>3 DEF Sound, Kept
  <1>7. ASSUME NEW success \in BOOLEAN, FinishedOpen(success) PROVE Kept
    <2>0. cstate = "OPENING" /\ cstate' \in {"OPEN", "OPEN_FAILED"} /\ closeSt = "none"
          /\ openSt = "driver" /\ openSt' = "fired" /\ UNCHANGED <<counters, closing>>
      BY <1>7 DEF FinishedOpen, Sound, Opening, Closing, ClosingStates, Started
    <2>1. CountersExact'
      BY <1>0, <1>4, <2>0 DEF counters, OpenCount, Undelivered
    <2>2. Opening' /\ Closing' /\ Referenced'
      BY <1>1, <1>3, <2>0 DEF Sound, Opening, Closing, Referenced, Started, Nothing, closing
    <2>3. EndOfFile'
      BY <1>1, <1>3, <2>0 DEF Sound, EndOfFile
    <2>4. aborted' = aborted
      BY <1>7, <2>0 DEF FinishedOpen, Insist, TypeOK
    <2> QED
      BY <1>2, <2>1, <2>2, <2>3, <2>4 DEF Sound, Kept
  <1>8. CASE OpenKickout
    <2>1. CountersExact'
      BY <1>0, <1>4, <1>8 DEF OpenKickout, OpenCount, Undelivered, counters
    <2>2. Opening' /\ Closing' /\ Referenced'
      BY <1>0, <1>1, <1>3, <1>8 DEF OpenKickout, Sound, Opening, Closing, Referenced, Started,
         closing, counters
    <2>3. EndOfFile' /\ aborted' = aborted
      BY <1>1, <1>3, <1>8 DEF OpenKickout, Sound, EndOfFile
    <2> QED
      BY <1>2, <2>1, <2>2, <2>3 DEF Sound, Kept
  <1>9. CASE OpenDelivered
    <2>1. CountersExact'
      BY <1>0, <1>4, <1>9 DEF OpenDelivered, OpenCount, Undelivered
    <2>2. openSt = "callback" /\ outstanding > 0 /\ cstate \notin {"NONE", "OPENING", "CLOSED"}
          /\ closeSt \in {"none", "passed"} /\ ~closeStarted
      <3>1. openSt = "callback" /\ outstanding > 0 /\ cstate \notin {"NONE", "OPENING"}
        BY <1>0, <1>9 DEF OpenDelivered, Undelivered, Sound, Opening
      <3>2. closeSt \in {"none", "passed"} /\ ~closeStarted
        BY <3>1 DEF Sound, Closing, Started, TypeOK
      <3>3. cstate # "CLOSED"
        BY <3>1 DEF Sound, Opening
      <3> QED
        BY <3>1, <3>2, <3>3
    <2>3. aborted' = aborted
      BY <1>9, <2>2 DEF OpenDelivered, Insist, TypeOK
    <2> DEFINE n == outstanding - 1
               closeNow == ~closeStarted /\ n = 0 /\ closeOp
    <2>4. /\ openSt' = "delivered" /\ outstanding' = n
          /\ UNCHANGED <<readOps, eofOps, st, passOwes, late, due, hold, canceling>>
      BY <1>9 DEF OpenDelivered, pendings
    <2>5. CASE cstate = "OPEN_FAILED"
      <3>1. closeSt = "none" /\ ~closeOp /\ ref = 1
        BY <2>2, <2>5 DEF Sound, Closing, Referenced, ClosingStates
      <3>2. /\ cstate' = "CLOSED" /\ ~closeStarted' /\ ref' = 0
            /\ UNCHANGED <<closeSt, closeCalls, closeOp>>
        <4>1. cstate' = "CLOSED" /\ ref' = ref - 1
          BY <1>9, <2>5 DEF OpenDelivered
        <4>2. ~closeStarted' /\ UNCHANGED <<closeSt, closeCalls, closeOp>>
          BY <1>9, <2>2, <3>1, Zenon DEF OpenDelivered
        <4> QED
          BY <3>1, <4>1, <4>2
      <3>3. Opening' /\ Closing' /\ Referenced'
        BY <1>1, <1>3, <2>4, <2>5, <3>1, <3>2
           DEF Sound, Opening, Closing, Referenced, Started
      <3>4. EndOfFile'
        BY <1>1, <1>3, <2>5, <3>2 DEF Sound, EndOfFile
      <3> QED
        BY <1>2, <2>1, <2>3, <3>3, <3>4 DEF Sound, Kept
    <2>6. CASE cstate = "OPENING_AND_CLOSING"
      <3>1. closeSt = "passed" /\ closeOp /\ ref = 1 /\ closeCalls = 0
        BY <2>2, <2>6 DEF Sound, Closing, Referenced
      <3>2. outstanding = 1
        <4>1. /\ DataReads(st) = 0 /\ EofReads(st) = 0 /\ WaitingReads(st) = 0
              /\ Writes(st) = 0 /\ OwedData(passOwes) = 0 /\ OwedEof(passOwes) = 0
              /\ OwedWrites(passOwes) = 0
          BY <2>6, NothingCounts DEF Sound, Opening, Owing, Nothing
        <4> QED
          BY <1>0, <2>2, <2>6, <4>1 DEF Counts, Sound, Opening, Nothing, Kind, OpenCount,
             Undelivered
      <3>3. /\ cstate' = "CLOSING" /\ closeStarted' /\ ref' = 0 /\ closeSt' = "done"
            /\ UNCHANGED <<closeCalls, closeOp>>
        <4>1. outstanding - 1 = 0
          BY <3>2
        <4>2. cstate' = "CLOSING" /\ ref' = ref - 1
          BY <1>9, <2>2, <2>6, <3>1, <4>1 DEF OpenDelivered
        <4>3. closeStarted' /\ closeSt' = "done"
          BY <1>9, <2>2, <2>6, <3>1, <4>1, Zenon DEF OpenDelivered
        <4>4. UNCHANGED <<closeCalls, closeOp>>
          BY <1>9, <2>6 DEF OpenDelivered
        <4> QED
          BY <3>1, <4>2, <4>3, <4>4
      <3>4. Opening' /\ Closing' /\ Referenced'
        BY <1>1, <1>3, <2>4, <2>6, <3>1, <3>2, <3>3
           DEF Sound, Opening, Closing, Referenced, Started
      <3>5. EndOfFile'
        BY <1>1, <1>3, <2>6, <3>3 DEF Sound, EndOfFile
      <3> QED
        BY <1>2, <2>1, <2>3, <3>4, <3>5 DEF Sound, Kept
    <2>7. CASE cstate \notin {"OPEN_FAILED", "OPENING_AND_CLOSING"}
      <3>1. cstate \in OpenStates \cup ClosingStates
        BY <2>2, <2>7 DEF TypeOK, ClosingStates
      <3>2. /\ cstate' = cstate /\ ref' = ref
            /\ \/ UNCHANGED <<closeSt, closeCalls, closeStarted, closeOp>>
               \/ /\ closeSt' = "starting" /\ closeCalls' = closeCalls + 1
                  /\ closeOp /\ closeOp' /\ outstanding' = 0 /\ cstate \in BarrierStates
        <4>1. CASE closeNow /\ cstate \in BarrierStates
          BY <1>9, <2>2, <2>7, <4>1 DEF OpenDelivered
        <4>2. CASE ~(closeNow /\ cstate \in BarrierStates)
          BY <1>9, <2>2, <2>7, <4>2 DEF OpenDelivered, TypeOK
        <4> QED
          BY <4>1, <4>2
      <3>3. Opening' /\ Referenced'
        BY <1>1, <1>3, <2>2, <2>4, <3>1, <3>2
           DEF Sound, Opening, Closing, Referenced, Started, ClosingStates
      <3>4. Closing'
        BY <1>1, <1>3, <2>2, <2>4, <3>1, <3>2
           DEF Sound, Closing, Started, ClosingStates
      <3>5. EndOfFile'
        BY <1>1, <1>3, <3>2 DEF Sound, EndOfFile
      <3> QED
        BY <1>2, <2>1, <2>3, <3>3, <3>4, <3>5 DEF Sound, Kept
    <2> QED
      BY <2>5, <2>6, <2>7
  <1> QED
    BY <1>5, <1>6, <1>7, <1>8, <1>9 DEF OpenStep

\* An operation that moves within its class changes no count.
LEMMA SameMove ==
  ASSUME NEW f, f \in [Op -> OpStates], NEW o \in Op, NEW v,
         f[o] \in DataStates <=> v \in DataStates,
         f[o] \in EofStates <=> v \in EofStates,
         f[o] = "pending" <=> v = "pending"
  PROVE  LET h == [f EXCEPT ![o] = v]
         IN  /\ DataReads(h) = DataReads(f) /\ EofReads(h) = EofReads(f)
             /\ WaitingReads(h) = WaitingReads(f) /\ Writes(h) = Writes(f)
  <1> DEFINE h == [f EXCEPT ![o] = v]
  <1>1. \A x \in Op : /\ h[x] \in DataStates <=> f[x] \in DataStates
                      /\ h[x] \in EofStates <=> f[x] \in EofStates
                      /\ h[x] = "pending" <=> f[x] = "pending"
    OBVIOUS
  <1> HIDE DEF h
  <1>2. /\ {x \in Read : h[x] \in DataStates} = {x \in Read : f[x] \in DataStates}
        /\ {x \in Read : h[x] \in EofStates} = {x \in Read : f[x] \in EofStates}
        /\ {x \in Read : h[x] = "pending"} = {x \in Read : f[x] = "pending"}
        /\ {x \in Write : h[x] \in DataStates} = {x \in Write : f[x] \in DataStates}
    BY <1>1 DEF Op
  <1> QED
    BY <1>2 DEF h, DataReads, EofReads, WaitingReads, Writes

\* Check, Finished, Kickout and CallbackReturns: one operation moves on.
LEMMA MoveKeeps ==
  ASSUME TypeOK, Sound, NEW o \in Op,
         \/ Check(o)
         \/ Finished(o)
         \/ Kickout(o)
         \/ CallbackReturns(o)
  PROVE  Kept
  <1>1. PICK v : st' = [st EXCEPT ![o] = v] /\
                 \/ st[o] = "idle" /\ v = "checked" /\ closeSt = "none" /\ cstate \in OpenStates
                    /\ openSt \in {"callback", "delivered"}
                 \/ st[o] = "driver" /\ v = "fired" /\ passOwes[o] = "no"
                 \/ st[o] = "fired" /\ v = "dataCb"
                 \/ st[o] = "firedEof" /\ v = "eofCb"
                 \/ st[o] = "cb" /\ v = "idle"
    <2>1. CASE Check(o)
      BY <2>1 DEF Check
    <2>2. CASE Finished(o)
      BY <2>2 DEF Finished, WithDriver
    <2>3. CASE Kickout(o) /\ st[o] = "fired"
      BY <2>3 DEF Kickout, TypeOK
    <2>4. CASE Kickout(o) /\ st[o] = "firedEof"
      BY <2>4 DEF Kickout, TypeOK
    <2>5. CASE CallbackReturns(o)
      BY <2>5 DEF CallbackReturns
    <2> QED
      BY <2>1, <2>2, <2>3, <2>4, <2>5 DEF Kickout
  <1>2. UNCHANGED <<cstate, outstanding, readOps, eofOps, openSt, passOwes, late, due, hold,
                    closeOp, closeStarted, ref, closeSt, closeCalls, canceling>>
    BY DEF Check, Finished, Kickout, CallbackReturns, counters, pendings, closing
  <1>3. /\ st \in [Op -> OpStates] /\ st'[o] = v
        /\ \A x \in Op : x # o => st'[x] = st[x]
    BY <1>1 DEF TypeOK
  <1>4. CountersExact'
    <2>1. /\ DataReads(st') = DataReads(st) /\ EofReads(st') = EofReads(st)
          /\ WaitingReads(st') = WaitingReads(st) /\ Writes(st') = Writes(st)
      BY <1>1, <1>3, SameMove DEF DataStates, EofStates
    <2> QED
      BY <1>2, <2>1, CountsSame, CountsSameNext DEF Sound, Counts, OpenCount
  <1>5. Owing'
    BY <1>1, <1>2, <1>3 DEF Sound, Owing, DataStates
  <1>6. Opening'
    BY <1>1, <1>2, <1>3 DEF Sound, Opening, Nothing, OpenStates
  <1>7. Closing' /\ Referenced'
    BY <1>1, <1>2, <1>3 DEF Sound, Closing, Referenced
  <1>8. EndOfFile'
    <2>1. Pending' = Pending /\ (Parked = {} => Parked' = {})
      BY <1>1, <1>3 DEF Pending, Parked, Op
    <2>2. (\E x \in Read : st'[x] \in {"firedEof", "eofCb"}) =>
             \E x \in Read : st[x] \in {"firedEof", "eofCb"}
      BY <1>1, <1>3 DEF Op
    <2>3. \A x \in Read : st'[x] = "driver" => st[x] = "driver"
      BY <1>1, <1>3 DEF Op
    <2> QED
      BY <1>2, <2>1, <2>2, <2>3 DEF Sound, EndOfFile
  <1>9. aborted' = aborted
    <2>1. ASSUME Finished(o) PROVE cstate \notin {"OPENING", "CLOSED"}
      <3>1. st[o] = "driver"
        BY <2>1 DEF Finished, WithDriver
      <3>2. outstanding # 0 /\ ~Nothing
        BY <3>1, Told DEF Nothing
      <3> QED
        BY <3>2 DEF Sound, Opening, Closing, Started, ClosingStates, OpenStates, TypeOK
    <2> QED
      BY <2>1 DEF Check, Finished, Kickout, CallbackReturns, Insist, TypeOK
  <1> QED
    BY <1>4, <1>5, <1>6, <1>7, <1>8, <1>9 DEF Kept, Sound

\* The driver's function returns: only mayFail changes.
LEMMA ReturnKeeps ==
  ASSUME TypeOK, Sound, NEW o \in Op, PassReturns(o)
  PROVE  Kept
  <1>1. UNCHANGED <<cstate, outstanding, readOps, eofOps, closeOp, closeStarted, ref, openSt,
                    st, passOwes, late, due, hold, closeSt, closeCalls, canceling, aborted>>
    BY DEF PassReturns, counters, pendings, closing
  <1>2. /\ Owing' /\ Opening' /\ Closing' /\ Referenced'
    BY <1>1 DEF Sound, Owing, Opening, Nothing, Closing, Referenced
  <1>3. EndOfFile' /\ CountersExact'
    BY <1>1 DEF Sound, EndOfFile, Pending, Parked, CountersExact, Count
  <1> QED
    BY <1>1, <1>2, <1>3 DEF Kept, Sound

\* The steps of the close.
LEMMA CloseKeeps == TypeOK /\ Sound /\ CloseStep => Kept
  <1> SUFFICES ASSUME TypeOK, Sound, CloseStep PROVE Kept
    OBVIOUS
  <1>0. UNCHANGED <<outstanding, readOps, eofOps, openSt, st, passOwes, late, due, hold>>
    BY DEF CloseStep, PassClose, StartClose, FinishedClose, PassCloseFails, counters, pendings
  <1>1. Owing' /\ CountersExact' /\ Nothing' = Nothing
    BY <1>0 DEF Sound, Owing, CountersExact, Count, Pending, Nothing
  <1>2. Pending' = Pending /\ Parked' = Parked
    BY <1>0 DEF Pending, Parked
  <1>3. /\ readOps \in Nat /\ eofOps \in Nat /\ outstanding \in Nat
        /\ outstanding = 0 => openSt \notin Undelivered /\ eofOps = 0
        /\ readOps = 0 => \A o \in Read : st[o] # "driver"
    BY Told DEF DataStates
  <1> USE DEF ContextStates, OpenStates, ReceivedStates, DeliveredStates, BarrierStates
  <1>4. ASSUME NEW cancel \in CancelModes, PassClose(cancel) PROVE Kept
    <2>1. /\ closeSt = "none" /\ ~closeStarted /\ ~closeOp /\ closeCalls = 0
          /\ openSt \in {"callback", "delivered"}
          /\ cstate \in OpenStates \cup {"OPEN_FAILED"}
          /\ canceling' = cancel /\ ref' = ref
      BY <1>4 DEF PassClose, Sound, Closing
    <2>2. /\ cstate = "OPEN" => cstate' = "CLOSING"
          /\ cstate = "EOF_RECEIVED" => cstate' = "EOF_RECEIVED_AND_CLOSING"
          /\ cstate = "EOF_DELIVERED" => cstate' = "EOF_DELIVERED_AND_CLOSING"
          /\ cstate = "OPEN_FAILED" => cstate' = "OPENING_AND_CLOSING"
      BY <1>4 DEF PassClose
    <2>3. /\ outstanding = 0 => closeSt' = "starting" /\ closeCalls' = 1 /\ closeOp' = closeOp
          /\ outstanding # 0 => closeSt' = "passed" /\ closeOp' /\ UNCHANGED <<closeStarted, closeCalls>>
      BY <1>4, <2>1 DEF PassClose
    <2>4. aborted' = aborted
      BY <1>4, <2>1 DEF PassClose, Insist, TypeOK
    <2>5. /\ Disciplined => canceling'
          /\ ~RacyUser => \A o \in Op : st[o] # "checked"
      BY <1>4, <2>1, ModeAssumption DEF Disciplined, PassClose
    <2>6. cstate = "OPEN_FAILED" => openSt = "callback" /\ outstanding # 0
      BY <1>3, <2>1 DEF Sound, Opening, Undelivered
    <2>7. Closing'
      BY <1>0, <1>3, <2>1, <2>2, <2>3, <2>5, <2>6 DEF Sound, Closing, ClosingStates, Started
    <2>8. Opening' /\ Referenced'
      BY <1>0, <1>1, <2>1, <2>2, <2>3, <2>6 DEF Sound, Opening, Referenced
    <2>9. EndOfFile'
      BY <1>0, <1>2, <1>3, <2>1, <2>2 DEF Sound, EndOfFile
    <2> QED
      BY <1>1, <2>4, <2>7, <2>8, <2>9 DEF Sound, Kept
  <1>5. CASE StartClose
    <2>1. /\ closeSt = "starting" /\ closeSt' = "driver"
          /\ UNCHANGED <<cstate, closeOp, closeStarted, ref, closeCalls, canceling, aborted>>
      BY <1>5 DEF StartClose
    <2>2. Opening' /\ Referenced'
      BY <1>0, <1>1, <2>1 DEF Sound, Opening, Referenced
    <2>3. Closing'
      BY <1>0, <2>1 DEF Sound, Closing, Started
    <2>4. EndOfFile'
      BY <1>0, <1>2, <2>1 DEF Sound, EndOfFile
    <2> QED
      BY <1>1, <2>1, <2>2, <2>3, <2>4 DEF Sound, Kept
  <1>6. CASE FinishedClose \/ PassCloseFails
    <2>1. /\ closeSt = "driver" /\ closeSt' \in {"done", "refused"} /\ cstate' = "CLOSED"
          /\ ref' = ref - 1
          /\ UNCHANGED <<closeOp, closeStarted, closeCalls, canceling, aborted>>
      BY <1>6 DEF FinishedClose, PassCloseFails
    <2>2. outstanding = 0 /\ closeCalls = 1 /\ openSt = "delivered" /\ eofOps = 0
          /\ cstate \in ClosingStates /\ ref = 1
      BY <1>3, <2>1 DEF Sound, Closing, Started, Undelivered, Referenced, ClosingStates
    <2>3. Opening' /\ Referenced'
      BY <1>0, <1>1, <2>1, <2>2 DEF Sound, Opening, Referenced
    <2>4. Closing'
      BY <1>0, <2>1, <2>2 DEF Sound, Closing, Started
    <2>5. EndOfFile'
      BY <1>0, <1>2, <2>1, <2>2 DEF Sound, EndOfFile
    <2> QED
      BY <1>1, <2>1, <2>3, <2>4, <2>5 DEF Sound, Kept
  <1> QED
    BY <1>4, <1>5, <1>6 DEF CloseStep

\* A pass that is allowed finds the level open, unless the user raced its close.
LEMMA PassAllowed ==
  ASSUME TypeOK, Sound, NEW o \in Op, MayPass(o)
  PROVE  /\ st[o] \in {"checked"} \cup InCallback
         /\ passOwes[o] = "no"
         /\ openSt \in {"callback", "delivered"}
         /\ cstate \in OpenStates => closeSt = "none"
         /\ Disciplined => cstate \in OpenStates
         /\ Taken(o) = IF st[o] = "dataCb" THEN "data" ELSE IF st[o] = "eofCb" THEN "eof" ELSE "no"
         /\ o \in Write => Taken(o) # "eof"
  <1>1. st[o] \in {"checked"} \cup InCallback
    BY DEF MayPass
  <1>2. passOwes[o] = "no" /\ openSt \in {"callback", "delivered"} /\ ~Nothing
    BY <1>1 DEF Sound, Owing, Opening, Nothing, InCallback, TypeOK
  <1>3. Disciplined => closeSt = "none"
    BY DEF MayPass, Sound, Closing, Disciplined
  <1>4. cstate \in OpenStates => closeSt = "none"
    <2>1. ASSUME closeSt # "none" PROVE cstate \in ClosingStates \cup {"OPENING_AND_CLOSING", "CLOSED"}
      BY <2>1 DEF Sound, Closing, TypeOK, ClosingStates
    <2> QED
      BY <2>1 DEF OpenStates, ClosingStates
  <1>5. closeSt = "none" => cstate \in OpenStates
    BY <1>2 DEF Sound, Opening, Closing
  <1>6. Taken(o) = IF st[o] = "dataCb" THEN "data" ELSE IF st[o] = "eofCb" THEN "eof" ELSE "no"
    BY DEF Taken
  <1>7. o \in Write => st[o] # "eofCb"
    BY DEF Sound, Owing, DataStates
  <1> QED
    BY <1>1, <1>2, <1>3, <1>4, <1>5, <1>6, <1>7

\* pass_write
LEMMA PassWriteKeeps ==
  ASSUME TypeOK, Sound, NEW o \in Write, PassWrite(o)
  PROVE  Kept
  <1>0. o \in Op /\ MayPass(o)
    BY DEF Op, PassWrite
  <1>1. /\ st[o] \in {"checked", "dataCb", "cb"} /\ passOwes[o] = "no"
        /\ openSt \in {"callback", "delivered"}
        /\ cstate \in OpenStates => closeSt = "none"
        /\ Disciplined => cstate \in OpenStates
        /\ Taken(o) = IF st[o] = "dataCb" THEN "data" ELSE "no"
    BY <1>0, PassAllowed DEF InCallback
  <1>2. Disciplined => aborted' = aborted
    BY <1>1 DEF PassWrite, Insist, TypeOK
  <1>3. SUFFICES ASSUME ~aborted' PROVE Sound'
    BY <1>2, TypeStep DEF Kept
  <1>4. cstate \in OpenStates /\ closeSt = "none"
    BY <1>1, <1>3 DEF PassWrite, Insist
  <1>5. /\ st' = [st EXCEPT ![o] = "driver"] /\ passOwes' = [passOwes EXCEPT ![o] = Taken(o)]
        /\ outstanding' = outstanding + 1
        /\ UNCHANGED <<cstate, readOps, eofOps, openSt, late, due, hold, closeOp, closeStarted,
                       ref, closeSt, closeCalls, canceling>>
    BY DEF PassWrite, pendings, closing
  <1>6. /\ st \in [Op -> OpStates] /\ passOwes \in [Op -> Kind \cup {"no"}]
        /\ st'[o] = "driver" /\ passOwes'[o] = Taken(o)
        /\ \A x \in Op : x # o => st'[x] = st[x] /\ passOwes'[x] = passOwes[x]
        /\ \A x \in Read : x \in Op /\ st'[x] = st[x] /\ passOwes'[x] = passOwes[x]
    BY <1>0, <1>5, OpAssumption DEF TypeOK, Op
  <1>7. CountersExact'
    <2>1. /\ Writes(st') = Writes(st) + 1 - One(st[o] \in DataStates)
          /\ DataReads(st') = DataReads(st) /\ EofReads(st') = EofReads(st)
          /\ WaitingReads(st') = WaitingReads(st)
      BY <1>5, <1>6, WriteMoves DEF One, DataStates
    <2>2. /\ OwedData(passOwes') = OwedData(passOwes)
          /\ OwedWrites(passOwes') = OwedWrites(passOwes) + One(passOwes[o] = "no") - One(Taken(o) = "no")
      <3> DEFINE w == Taken(o)
      <3>1. passOwes' = [passOwes EXCEPT ![o] = w]
        BY <1>5
      <3> HIDE DEF w
      <3>2. /\ OwedData(passOwes') = OwedData(passOwes)
            /\ OwedWrites(passOwes') = OwedWrites(passOwes) + One(passOwes[o] = "no") - One(w = "no")
        BY <1>6, <3>1, OweWriteMoves DEF One
      <3> QED
        BY <3>2 DEF w
    <2>3. /\ One(Taken(o) = "no") = 1 - One(st[o] \in DataStates) /\ One(passOwes[o] = "no") = 1
          /\ One(st[o] \in DataStates) \in {0, 1}
      <3>1. CASE st[o] = "dataCb"
        BY <1>1, <3>1 DEF One, DataStates
      <3>2. CASE st[o] # "dataCb"
        BY <1>1, <3>2 DEF One, DataStates
      <3> QED
        BY <3>1, <3>2
    <2>4. OwedEof(passOwes') = OwedEof(passOwes)
      BY <1>6 DEF OwedEof
    <2>5. /\ Writes(st) \in Nat /\ OwedWrites(passOwes) \in Nat
      BY StCounts, OweCounts
    <2>6. Writes(st') + OwedWrites(passOwes') = Writes(st) + OwedWrites(passOwes) + 1
      BY <2>1, <2>2, <2>3, <2>5
    <2> DEFINE a == Writes(st)
               b == OwedWrites(passOwes)
               c == Writes(st')
               d == OwedWrites(passOwes')
               e == readOps - hold + eofOps + WaitingReads(st)
    <2>7. a \in Int /\ b \in Int /\ c \in Int /\ d \in Int /\ e \in Int /\ OpenCount \in Int
          /\ c + d = a + b + 1 /\ outstanding = e + a + b + OpenCount
      <3>1. Counts /\ WaitingReads(st) \in Nat /\ Writes(st') \in Nat /\ OwedWrites(passOwes') \in Nat
        BY Told, StCounts, OweCounts
      <3> QED
        BY <2>5, <2>6, <3>1 DEF Counts, OpenCount, TypeOK
    <2>8. outstanding' = e + c + d + OpenCount
      <3> HIDE DEF a, b, c, d, e
      <3> QED
        BY <1>5, <2>7
    <2>9. Counts'
      BY <1>5, <2>1, <2>2, <2>4, <2>8, Told DEF Counts, OpenCount
    <2> QED
      BY <2>9, CountsSameNext
  <1>8. Owing'
    BY <1>0, <1>1, <1>6 DEF Sound, Owing, DataStates, Op
  <1>9. Opening'
    BY <1>1, <1>4, <1>5 DEF Sound, Opening, OpenStates
  <1>10. Closing' /\ Referenced'
    BY <1>4, <1>5 DEF Sound, Closing, Referenced, Started
  <1>11. EndOfFile'
    <2>1. Pending' = Pending /\ Parked' = Parked
      BY <1>6 DEF Pending, Parked
    <2> QED
      BY <1>5, <1>6, <2>1 DEF Sound, EndOfFile
  <1> QED
    BY <1>7, <1>8, <1>9, <1>10, <1>11 DEF Sound

\* The arithmetic of a counter that is a sum.
LEMMA Sums ==
  ASSUME NEW a \in Int, NEW b \in Int, NEW c \in Int, NEW d \in Int,
         NEW a2 \in Int, NEW b2 \in Int, NEW c2 \in Int, NEW d2 \in Int
  PROVE  (a + b + c + d) + (a2 - a) + (b2 - b) + (c2 - c) + (d2 - d) = a2 + b2 + c2 + d2
  OBVIOUS

\* When the counters change by what the counted operations do, they stay exact.
LEMMA Tally ==
  ASSUME TypeOK, Sound, TypeOK', openSt' = openSt,
         OwedEof(passOwes') = 0,
         readOps' = readOps + (DataReads(st') - DataReads(st))
                      + (OwedData(passOwes') - OwedData(passOwes))
                      + (late'["data"] - late["data"]) + (hold' - hold),
         eofOps' = eofOps + (EofReads(st') - EofReads(st)) + (late'["eof"] - late["eof"]),
         outstanding' = outstanding + (readOps' - readOps) - (hold' - hold) + (eofOps' - eofOps)
                          + (WaitingReads(st') - WaitingReads(st)) + (Writes(st') - Writes(st))
                          + (OwedWrites(passOwes') - OwedWrites(passOwes))
  PROVE  CountersExact'
  <1>0. Counts /\ OwedEof(passOwes) = 0 /\ OpenCount' = OpenCount /\ OpenCount \in Int
    BY Told DEF OpenCount
  <1> DEFINE a == DataReads(st)
             a2 == DataReads(st')
             b == OwedData(passOwes)
             b2 == OwedData(passOwes')
             c == late["data"]
             c2 == late'["data"]
             e == EofReads(st)
             e2 == EofReads(st')
             l == late["eof"]
             l2 == late'["eof"]
             p == WaitingReads(st)
             p2 == WaitingReads(st')
             w == Writes(st)
             w2 == Writes(st')
             u == OwedWrites(passOwes)
             u2 == OwedWrites(passOwes')
             n == OpenCount
  <1>1. /\ a \in Int /\ b \in Int /\ c \in Int /\ e \in Int /\ l \in Int
        /\ p \in Int /\ w \in Int /\ u \in Int /\ n \in Int
        /\ a2 \in Int /\ b2 \in Int /\ c2 \in Int /\ e2 \in Int /\ l2 \in Int
        /\ p2 \in Int /\ w2 \in Int /\ u2 \in Int
    BY <1>0, StCounts, OweCounts DEF TypeOK, Kind
  <1>2. /\ hold \in Int /\ hold' \in Int /\ readOps \in Int /\ eofOps \in Int
        /\ readOps = a + b + c + hold /\ eofOps = e + 0 + l
        /\ outstanding = readOps - hold + eofOps + p + w + u + n
    BY <1>0 DEF Counts, TypeOK
  <1>3. /\ readOps' = readOps + (a2 - a) + (b2 - b) + (c2 - c) + (hold' - hold)
        /\ eofOps' = eofOps + (e2 - e) + (l2 - l)
        /\ outstanding' = outstanding + (readOps' - readOps) - (hold' - hold)
                            + (eofOps' - eofOps) + (p2 - p) + (w2 - w) + (u2 - u)
    OBVIOUS
  <1> HIDE DEF a, a2, b, b2, c, c2, e, e2, l, l2, p, p2, w, w2, u, u2, n
  <1>4. readOps' = a2 + b2 + c2 + hold' /\ eofOps' = e2 + 0 + l2
    <2>1. readOps' = a2 + b2 + c2 + hold'
      <3>1. (a + b + c + hold) + (a2 - a) + (b2 - b) + (c2 - c) + (hold' - hold)
            = a2 + b2 + c2 + hold'
        BY <1>1, <1>2, Sums
      <3> QED
        BY <1>2, <1>3, <3>1, Zenon
    <2>2. eofOps' = e2 + 0 + l2
      BY <1>1, <1>2, <1>3
    <2> QED
      BY <2>1, <2>2
  <1>5. outstanding' = readOps' - hold' + eofOps' + p2 + w2 + u2 + n
    BY <1>1, <1>2, <1>3, <1>4
  <1>6. Counts'
    BY <1>0, <1>4, <1>5 DEF Counts, a2, b2, c2, e2, l2, p2, w2, u2, n
  <1> QED
    BY <1>6, CountsSameNext

\* pass_read: the read is parked, waits, or goes to the driver.
LEMMA PassReadKeeps ==
  ASSUME TypeOK, Sound, NEW o \in Read, PassRead(o)
  PROVE  Kept
  <1>0. o \in Op /\ MayPass(o)
    BY DEF Op, PassRead
  <1>1. /\ st[o] \in {"checked", "dataCb", "eofCb", "cb"} /\ passOwes[o] = "no"
        /\ openSt \in {"callback", "delivered"}
        /\ cstate \in OpenStates => closeSt = "none"
        /\ Disciplined => cstate \in OpenStates
        /\ Taken(o) = IF st[o] = "dataCb" THEN "data" ELSE IF st[o] = "eofCb" THEN "eof" ELSE "no"
    BY <1>0, PassAllowed DEF InCallback
  <1>2. Disciplined => aborted' = aborted
    BY <1>1 DEF PassRead, Insist, TypeOK
  <1>t. TypeOK'
    BY <1>0, OpTypes
  <1>3. SUFFICES ASSUME ~aborted' PROVE Sound'
    BY <1>2 DEF Kept
  <1>4. cstate \in OpenStates /\ closeSt = "none"
    BY <1>1, <1>3 DEF PassRead, Insist
  <1>5. /\ outstanding' = outstanding + 1
        /\ UNCHANGED <<cstate, openSt, due, hold, closeOp, closeStarted,
                       ref, closeSt, closeCalls, canceling>>
    BY DEF PassRead, pendings, closing
  <1>6. Opening' /\ Closing' /\ Referenced'
    BY <1>1, <1>4, <1>5 DEF Sound, Opening, OpenStates, Closing, Referenced, Started
  <1>7. /\ readOps \in Nat /\ eofOps \in Nat /\ outstanding \in Nat
        /\ OwedEof(passOwes) = 0 /\ Counts
        /\ eofOps = 0 => st[o] # "eofCb" /\ late["eof"] = 0
                         /\ \A x \in Read : st[x] \notin {"firedEof", "eofCb"}
    BY Told DEF EofStates
  <1>8. /\ st \in [Op -> OpStates] /\ passOwes \in [Op -> Kind \cup {"no"}]
        /\ late \in [Kind -> Nat]
    BY DEF TypeOK
  <1>9. ASSUME NEW v \in {"parked", "pending"}, st' = [st EXCEPT ![o] = v],
               late' = LateBy(o), UNCHANGED <<readOps, passOwes>>,
               eofOps' = eofOps + (IF v = "parked" THEN 1 ELSE 0)
        PROVE  /\ CountersExact' /\ Owing'
               /\ st'[o] = v /\ \A x \in Op : x # o => st'[x] = st[x]
               /\ late'["eof"] > 0 => late["eof"] > 0 \/ st[o] = "eofCb"
    <2>1. /\ late'["data"] = late["data"] + (IF st[o] = "dataCb" THEN 1 ELSE 0)
          /\ late'["eof"] = late["eof"] + (IF st[o] = "eofCb" THEN 1 ELSE 0)
      BY <1>1, <1>8, <1>9 DEF LateBy, Kind
    <2>2. /\ DataReads(st') = DataReads(st) - (IF st[o] = "dataCb" THEN 1 ELSE 0)
          /\ EofReads(st') = EofReads(st) + (IF v = "parked" THEN 1 ELSE 0)
                                          - (IF st[o] = "eofCb" THEN 1 ELSE 0)
          /\ WaitingReads(st') = WaitingReads(st) + (IF v = "pending" THEN 1 ELSE 0)
          /\ Writes(st') = Writes(st)
      <3>1. /\ DataReads(st') = DataReads(st) + (IF v \in DataStates THEN 1 ELSE 0)
                              - (IF st[o] \in DataStates THEN 1 ELSE 0)
            /\ EofReads(st') = EofReads(st) + (IF v \in EofStates THEN 1 ELSE 0)
                              - (IF st[o] \in EofStates THEN 1 ELSE 0)
            /\ WaitingReads(st') = WaitingReads(st) + (IF v = "pending" THEN 1 ELSE 0)
                              - (IF st[o] = "pending" THEN 1 ELSE 0)
            /\ Writes(st') = Writes(st)
        BY <1>8, <1>9, ReadMoves DEF One
      <3>2. /\ v \notin DataStates /\ (v \in EofStates <=> v = "parked") /\ st[o] # "pending"
            /\ (st[o] \in DataStates <=> st[o] = "dataCb")
            /\ (st[o] \in EofStates <=> st[o] = "eofCb")
        BY <1>1, <1>9 DEF DataStates, EofStates
      <3> QED
        BY <3>1, <3>2, StCounts
    <2>3. /\ DataReads(st) \in Nat /\ EofReads(st) \in Nat /\ WaitingReads(st) \in Nat
          /\ Writes(st) \in Nat /\ OwedData(passOwes) \in Nat /\ OwedWrites(passOwes) \in Nat
          /\ late["data"] \in Nat /\ late["eof"] \in Nat /\ hold \in Nat
      BY StCounts, OweCounts DEF TypeOK, Kind
    <2>4. CountersExact'
      <3>1. readOps' = readOps + (DataReads(st') - DataReads(st))
                         + (OwedData(passOwes') - OwedData(passOwes))
                         + (late'["data"] - late["data"]) + (hold' - hold)
        BY <1>5, <1>7, <1>9, <2>1, <2>2, <2>3
      <3>2. eofOps' = eofOps + (EofReads(st') - EofReads(st)) + (late'["eof"] - late["eof"])
        BY <1>7, <1>9, <2>1, <2>2, <2>3
      <3>3. outstanding' = outstanding + (readOps' - readOps) - (hold' - hold) + (eofOps' - eofOps)
                             + (WaitingReads(st') - WaitingReads(st)) + (Writes(st') - Writes(st))
                             + (OwedWrites(passOwes') - OwedWrites(passOwes))
        BY <1>5, <1>7, <1>9, <2>2, <2>3
      <3> QED
        BY <1>t, <1>5, <1>7, <1>9, <3>1, <3>2, <3>3, Tally
    <2>5. st'[o] = v /\ \A x \in Op : x # o => st'[x] = st[x]
      BY <1>0, <1>8, <1>9
    <2>6. Owing'
      BY <1>0, <1>1, <1>9, <2>5, OpAssumption DEF Sound, Owing, Op
    <2>7. late'["eof"] > 0 => late["eof"] > 0 \/ st[o] = "eofCb"
      BY <2>1, <2>3
    <2> QED
      BY <2>4, <2>5, <2>6, <2>7
  <1>10. CASE cstate = "EOF_RECEIVED"
    <2>1. /\ st' = [st EXCEPT ![o] = "parked"] /\ eofOps' = eofOps + 1 /\ late' = LateBy(o)
          /\ UNCHANGED <<readOps, passOwes>>
      BY <1>10 DEF PassRead, MustWait
    <2>2. /\ CountersExact' /\ Owing'
          /\ st'[o] = "parked" /\ \A x \in Op : x # o => st'[x] = st[x]
          /\ late'["eof"] > 0 => late["eof"] > 0 \/ st[o] = "eofCb"
      BY <1>9, <2>1
    <2>3. /\ Pending' # {} => Pending # {}
          /\ \A x \in Read : st'[x] \in {"firedEof", "eofCb"} => st[x] \in {"firedEof", "eofCb"}
      BY <2>2 DEF Pending, Op
    <2>4. eofOps > 0 /\ eofOps' > 0 /\ due = 0
      BY <1>7, <1>10, <2>1 DEF Sound, EndOfFile, ReceivedStates, TypeOK
    <2>5. EndOfFile'
      BY <1>5, <1>10, <2>1, <2>2, <2>3, <2>4
         DEF Sound, EndOfFile, ReceivedStates, DeliveredStates
    <2> QED
      BY <1>6, <2>2, <2>5 DEF Sound
  <1>11. CASE MustWait
    <2>1. /\ st' = [st EXCEPT ![o] = "pending"] /\ late' = LateBy(o)
          /\ UNCHANGED <<readOps, eofOps, passOwes>> /\ cstate # "EOF_RECEIVED"
      BY <1>11 DEF PassRead, MustWait
    <2>2. /\ CountersExact' /\ Owing'
          /\ st'[o] = "pending" /\ \A x \in Op : x # o => st'[x] = st[x]
          /\ late'["eof"] > 0 => late["eof"] > 0 \/ st[o] = "eofCb"
      BY <1>7, <1>9, <2>1
    <2>3. /\ Pending' # {} /\ (Parked = {} => Parked' = {})
          /\ \A x \in Read : st'[x] \in {"firedEof", "eofCb"} => st[x] \in {"firedEof", "eofCb"}
          /\ \A x \in Read : st'[x] = "driver" => st[x] = "driver"
      BY <2>2 DEF Pending, Parked, Op
    <2>4. cstate = "EOF_DELIVERED" \/ (cstate = "OPEN" /\ Pending # {})
      BY <1>4, <1>11, <2>1 DEF MustWait, OpenStates
    <2>5. EndOfFile'
      BY <1>5, <2>1, <2>2, <2>3, <2>4
         DEF Sound, EndOfFile, ReceivedStates, DeliveredStates
    <2> QED
      BY <1>6, <2>2, <2>5 DEF Sound
  <1>12. CASE cstate # "EOF_RECEIVED" /\ ~MustWait
    <2>1. /\ st' = [st EXCEPT ![o] = "driver"] /\ readOps' = readOps + 1
          /\ passOwes' = [passOwes EXCEPT ![o] = Taken(o)]
          /\ UNCHANGED <<eofOps, late>>
      BY <1>12 DEF PassRead
    <2>2. cstate = "OPEN" /\ Pending = {} /\ eofOps = 0 /\ st[o] # "eofCb" /\ due = 0
      <3>1. cstate = "OPEN" /\ Pending = {}
        BY <1>4, <1>12 DEF MustWait, OpenStates
      <3> QED
        BY <1>7, <3>1 DEF Sound, EndOfFile, ReceivedStates, DeliveredStates, TypeOK
    <2>3. /\ st'[o] = "driver" /\ passOwes'[o] = Taken(o) /\ Taken(o) # "eof"
          /\ \A x \in Op : x # o => st'[x] = st[x] /\ passOwes'[x] = passOwes[x]
      BY <1>0, <1>1, <1>8, <2>1, <2>2
    <2>4. /\ DataReads(st') = DataReads(st) + 1 - (IF st[o] = "dataCb" THEN 1 ELSE 0)
          /\ EofReads(st') = EofReads(st)
          /\ WaitingReads(st') = WaitingReads(st)
          /\ Writes(st') = Writes(st)
      <3>1. /\ DataReads(st') = DataReads(st) + (IF "driver" \in DataStates THEN 1 ELSE 0)
                              - (IF st[o] \in DataStates THEN 1 ELSE 0)
            /\ EofReads(st') = EofReads(st) + (IF "driver" \in EofStates THEN 1 ELSE 0)
                              - (IF st[o] \in EofStates THEN 1 ELSE 0)
            /\ WaitingReads(st') = WaitingReads(st) + (IF "driver" = "pending" THEN 1 ELSE 0)
                              - (IF st[o] = "pending" THEN 1 ELSE 0)
            /\ Writes(st') = Writes(st)
        BY <1>8, <2>1, ReadMoves DEF One
      <3>2. /\ "driver" \in DataStates /\ "driver" \notin EofStates /\ st[o] # "pending"
            /\ (st[o] \in DataStates <=> st[o] = "dataCb") /\ st[o] \notin EofStates
        BY <1>1, <2>2 DEF DataStates, EofStates
      <3> QED
        BY <3>1, <3>2, StCounts
    <2>5. /\ OwedData(passOwes') = OwedData(passOwes) + (IF st[o] = "dataCb" THEN 1 ELSE 0)
          /\ OwedWrites(passOwes') = OwedWrites(passOwes)
      <3> DEFINE w == Taken(o)
      <3>1. passOwes' = [passOwes EXCEPT ![o] = w] /\ (w = "data" <=> st[o] = "dataCb")
        BY <1>1, <2>1
      <3> HIDE DEF w
      <3>2. /\ OwedData(passOwes') = OwedData(passOwes) + (IF w = "data" THEN 1 ELSE 0)
                                      - (IF passOwes[o] = "data" THEN 1 ELSE 0)
            /\ OwedWrites(passOwes') = OwedWrites(passOwes)
        BY <1>8, <3>1, OweReadMoves DEF One
      <3> QED
        BY <1>1, <3>1, <3>2, OweCounts
    <2>6. OwedEof(passOwes') = 0
      BY <1>1, <2>2, <2>3, Told, OweCounts DEF Op
    <2>7. CountersExact'
      <3>1. /\ DataReads(st) \in Nat /\ EofReads(st) \in Nat /\ WaitingReads(st) \in Nat
            /\ Writes(st) \in Nat /\ OwedData(passOwes) \in Nat /\ OwedWrites(passOwes) \in Nat
            /\ late["data"] \in Nat /\ late["eof"] \in Nat /\ hold \in Nat
        BY StCounts, OweCounts DEF TypeOK, Kind
      <3>2. readOps' = readOps + (DataReads(st') - DataReads(st))
                         + (OwedData(passOwes') - OwedData(passOwes))
                         + (late'["data"] - late["data"]) + (hold' - hold)
        BY <1>5, <1>7, <2>1, <2>4, <2>5, <3>1
      <3>3. eofOps' = eofOps + (EofReads(st') - EofReads(st)) + (late'["eof"] - late["eof"])
        BY <1>7, <2>1, <2>4, <3>1
      <3>4. outstanding' = outstanding + (readOps' - readOps) - (hold' - hold) + (eofOps' - eofOps)
                             + (WaitingReads(st') - WaitingReads(st)) + (Writes(st') - Writes(st))
                             + (OwedWrites(passOwes') - OwedWrites(passOwes))
        BY <1>5, <1>7, <2>1, <2>4, <2>5, <3>1
      <3> QED
        BY <1>t, <1>5, <2>6, <3>2, <3>3, <3>4, Tally
    <2>8. Owing'
      BY <1>0, <1>1, <2>2, <2>3, OpAssumption DEF Sound, Owing, Op
    <2>9. EndOfFile'
      <3>1. Pending' = {} /\ \A x \in Read : st'[x] \notin {"firedEof", "eofCb"}
        BY <1>7, <2>2, <2>3 DEF Pending, Op
      <3> QED
        BY <1>5, <1>7, <2>1, <2>2, <3>1 DEF Sound, EndOfFile, ReceivedStates, DeliveredStates
    <2> QED
      BY <1>6, <2>7, <2>8, <2>9 DEF Sound
  <1> QED
    BY <1>10, <1>11, <1>12 DEF PassRead

\* A level that is open stays open, and one that is closing goes on closing.
Leads(s) ==
    /\ cstate \in OpenStates => s \in OpenStates
    /\ cstate \in ClosingStates => s \in ClosingStates

\* The close is left alone, or its barrier is reached and it is started.
NoticesBarrier(s) ==
    \/ UNCHANGED <<closeStarted, closeSt, closeCalls>>
    \/ /\ s \in BarrierStates /\ outstanding' = 0
       /\ closeSt' = "starting" /\ closeCalls' = closeCalls + 1

\* While something is undelivered, the close is not started, and a state that
\* is closing has a close operation.
LEMMA NotStarted ==
  ASSUME TypeOK, Sound, ~Nothing, outstanding # 0
  PROVE  /\ closeSt \in {"none", "passed"} /\ ~closeStarted
         /\ openSt \in {"callback", "delivered"}
         /\ closeSt = "none" => cstate \in OpenStates
         /\ closeSt = "passed" => cstate \in ClosingStates
         /\ \A s \in BarrierStates : Leads(s) => closeOp
  <1>1. closeSt \in {"none", "passed"} /\ ~closeStarted
    BY DEF Sound, Closing, Started, TypeOK
  <1>2. openSt \in {"callback", "delivered"} /\ cstate \notin {"OPEN_FAILED", "OPENING_AND_CLOSING"}
    BY DEF Sound, Opening, TypeOK
  <1>3. closeSt = "none" => cstate \in OpenStates
    BY <1>2 DEF Sound, Opening, Closing
  <1>4. closeSt = "passed" => cstate \in ClosingStates /\ closeOp
    BY <1>2 DEF Sound, Closing
  <1>5. ASSUME NEW s \in BarrierStates, Leads(s) PROVE closeOp
    BY <1>1, <1>3, <1>4, <1>5 DEF Leads, OpenStates, BarrierStates, ClosingStates
  <1> QED
    BY <1>1, <1>2, <1>3, <1>4, <1>5

\* A delivery, a failed pass or an end of file keeps what is said of the open and the close.
LEMMA LowerKeeps ==
  ASSUME TypeOK, Sound, ~Nothing, outstanding # 0,
         Leads(cstate'), NoticesBarrier(cstate'),
         UNCHANGED <<openSt, closeOp, ref, canceling>>,
         \A x \in Op : st'[x] = "checked" => st[x] = "checked"
  PROVE  Opening' /\ Closing' /\ Referenced'
  <1>1. /\ closeSt \in {"none", "passed"} /\ ~closeStarted
        /\ openSt \in {"callback", "delivered"}
        /\ closeSt = "none" => cstate \in OpenStates
        /\ closeSt = "passed" => cstate \in ClosingStates
    BY NotStarted
  <1>2. /\ cstate \in OpenStates => cstate' \in OpenStates
        /\ cstate \in ClosingStates => cstate' \in ClosingStates
    BY DEF Leads
  <1>3. Opening'
    BY <1>1, <1>2 DEF Opening, OpenStates, ClosingStates
  <1>4. closeSt' \in {"done", "refused"} <=> FALSE
    BY <1>1 DEF NoticesBarrier
  <1>5. Referenced'
    BY <1>1, <1>2, <1>4 DEF Sound, Referenced, OpenStates, ClosingStates
  <1>6. Closing'
    <2>1. CASE UNCHANGED <<closeStarted, closeSt, closeCalls>>
      BY <1>1, <1>2, <2>1 DEF Sound, Closing, Started
    <2>2. CASE /\ cstate' \in BarrierStates /\ outstanding' = 0
               /\ closeSt' = "starting" /\ closeCalls' = closeCalls + 1
      <3>1. closeSt = "passed"
        BY <1>1, <1>2, <2>2 DEF OpenStates, BarrierStates
      <3>2. /\ closeCalls' = 1 /\ cstate' \in ClosingStates
            /\ Disciplined => canceling'
            /\ ~RacyUser => \A o \in Op : st'[o] # "checked"
        BY <1>1, <1>2, <2>2, <3>1 DEF Sound, Closing
      <3> QED
        BY <1>1, <2>2, <3>2 DEF Closing
    <2> QED
      BY <2>1, <2>2 DEF NoticesBarrier
  <1> QED
    BY <1>3, <1>5, <1>6

\* So does a step of the threads that dispatch the waiting reads.
LEMMA StayKeeps ==
  ASSUME Sound, ~Nothing, \A x \in Op : st'[x] = "checked" => st[x] = "checked",
         UNCHANGED <<cstate, outstanding, openSt, closeOp, closeStarted, ref, closeSt,
                     closeCalls, canceling>>
  PROVE  Opening' /\ Closing' /\ Referenced'
  BY DEF Sound, Opening, Closing, Referenced

\* One data read less: at zero the parked end of file reads are kicked out.
LEMMA DropKeeps ==
  ASSUME TypeOK, Sound, TypeOK', NEW f, f \in [Op -> OpStates], readOps # 0,
         readOps' = readOps - 1, hold' = hold \/ (Pending = {} /\ hold' < hold),
         UNCHANGED <<cstate, eofOps, canceling, due>>, late'["eof"] = late["eof"],
         st' = IF readOps' = 0 /\ cstate \in ReceivedStates THEN Purged(f) ELSE f,
         \A x \in Op : f[x] = st[x] \/ (st[x] \in DataStates /\ f[x] \in {"idle", "cb"})
  PROVE  EndOfFile'
  <1>1. /\ readOps \in Nat /\ eofOps \in Nat /\ due \in Nat /\ hold \in Nat /\ hold' \in Nat
        /\ late["eof"] \in Nat
    BY Told DEF TypeOK, Kind
  <1>2. \A x \in Op : \/ st'[x] = f[x]
                      \/ /\ readOps' = 0 /\ cstate \in ReceivedStates
                         /\ f[x] = "parked" /\ st'[x] = "firedEof"
    BY PurgeKeeps
  <1>3. \A x \in Op : \/ st'[x] = st[x]
                      \/ st[x] \in DataStates /\ st'[x] \in {"idle", "cb"}
                      \/ /\ readOps' = 0 /\ cstate \in ReceivedStates
                         /\ st[x] = "parked" /\ st'[x] = "firedEof"
    BY <1>2
  <1>4. Pending' = Pending /\ (Parked = {} => Parked' = {})
    BY <1>3 DEF Pending, Parked, DataStates, Op
  <1>5. /\ ~(\E o \in Read : st[o] \in {"firedEof", "eofCb"}) /\ late["eof"] = 0
        /\ due = 0 /\ (cstate \in DeliveredStates => eofOps = 0)
    BY <1>1 DEF Sound, EndOfFile
  <1>6. \A x \in Read : st'[x] \in {"firedEof", "eofCb"} => readOps' = 0
    BY <1>3, <1>5 DEF Op
  <1>7. \A x \in Read : st'[x] = "driver" => st[x] = "driver"
    BY <1>3 DEF Op
  <1>8. hold' <= hold /\ (Pending # {} => hold' = hold)
    BY <1>1
  <1>9. cstate' \in ReceivedStates => eofOps' > 0 /\ (Pending' # {} => hold' > 0)
    BY <1>4, <1>8 DEF Sound, EndOfFile
  <1>10. cstate' \in DeliveredStates =>
           /\ Parked' = {}
           /\ eofOps' > 0 => readOps' = 0
           /\ cstate' = "EOF_DELIVERED" => eofOps' > 0
           /\ canceling' => \A o \in Read : st'[o] # "driver"
    <2>1. SUFFICES ASSUME cstate' \in DeliveredStates
                   PROVE  /\ Parked' = {} /\ eofOps' = 0 /\ cstate' # "EOF_DELIVERED"
                          /\ canceling' => \A o \in Read : st'[o] # "driver"
      BY <1>1
    <2>2. Parked' = {} /\ eofOps' = 0 /\ cstate' # "EOF_DELIVERED"
      BY <1>1, <1>4, <1>5, <2>1 DEF Sound, EndOfFile
    <2>3. canceling' => \A o \in Read : st'[o] # "driver"
      BY <1>7, <2>1 DEF Sound, EndOfFile
    <2> QED
      BY <2>2, <2>3
  <1>11. cstate' \notin ReceivedStates \cup DeliveredStates => eofOps' = 0
    BY DEF Sound, EndOfFile
  <1>12. /\ Pending' # {} => (cstate' \in DeliveredStates /\ eofOps' > 0) \/ due' + hold' > 0
         /\ due' + hold' <= 1
    <2>1. due + hold <= 1
          /\ (Pending # {} => (cstate \in DeliveredStates /\ eofOps > 0) \/ due + hold > 0)
      BY DEF Sound, EndOfFile
    <2> DEFINE h == hold'
    <2>2. due' + hold' <= 1
      <3>1. h \in Nat /\ h <= hold /\ due' = due
        BY <1>1, <1>8
      <3> HIDE DEF h
      <3>2. due + h <= 1
        BY <1>1, <2>1, <3>1
      <3> QED
        BY <3>1, <3>2 DEF h
    <2>3. ASSUME Pending' # {} PROVE hold' = hold /\ due' = due
      BY <1>4, <1>8, <2>3
    <2> QED
      BY <1>4, <2>1, <2>2, <2>3
  <1>13. due' > 0 => readOps' = 0 /\ eofOps' = 0 /\ Pending' # {}
    BY <1>5
  <1>14. (\E o \in Read : st'[o] \in {"firedEof", "eofCb"}) \/ late'["eof"] > 0 => readOps' = 0
    BY <1>5, <1>6
  <1> QED
    BY <1>9, <1>10, <1>11, <1>12, <1>13, <1>14 DEF EndOfFile

\* What an operation that goes back to the user takes from the counts.
LEMMA DataReadLeaves ==
  ASSUME NEW f, f \in [Op -> OpStates], NEW o \in Read, f[o] \in DataStates,
         NEW v \in {"idle", "cb"}
  PROVE  LET h == [f EXCEPT ![o] = v]
         IN  /\ DataReads(h) = DataReads(f) - 1 /\ EofReads(h) = EofReads(f)
             /\ WaitingReads(h) = WaitingReads(f) /\ Writes(h) = Writes(f)
  <1> DEFINE h == [f EXCEPT ![o] = v]
  <1>1. /\ DataReads(h) = DataReads(f) + (IF v \in DataStates THEN 1 ELSE 0)
                            - (IF f[o] \in DataStates THEN 1 ELSE 0)
        /\ EofReads(h) = EofReads(f) + (IF v \in EofStates THEN 1 ELSE 0)
                            - (IF f[o] \in EofStates THEN 1 ELSE 0)
        /\ WaitingReads(h) = WaitingReads(f) + (IF v = "pending" THEN 1 ELSE 0)
                            - (IF f[o] = "pending" THEN 1 ELSE 0)
        /\ Writes(h) = Writes(f)
    BY ReadMoves DEF One
  <1>2. /\ v \notin DataStates /\ v \notin EofStates /\ v # "pending"
        /\ f[o] \notin EofStates /\ f[o] # "pending"
    BY DEF DataStates, EofStates
  <1> HIDE DEF h
  <1>3. /\ DataReads(h) = DataReads(f) - 1 /\ EofReads(h) = EofReads(f)
        /\ WaitingReads(h) = WaitingReads(f) /\ Writes(h) = Writes(f)
    BY <1>1, <1>2, StCounts
  <1> QED
    BY <1>3 DEF h

LEMMA EofReadLeaves ==
  ASSUME NEW f, f \in [Op -> OpStates], NEW o \in Read, f[o] \in EofStates,
         NEW v \in {"idle", "cb"}
  PROVE  LET h == [f EXCEPT ![o] = v]
         IN  /\ DataReads(h) = DataReads(f) /\ EofReads(h) = EofReads(f) - 1
             /\ WaitingReads(h) = WaitingReads(f) /\ Writes(h) = Writes(f)
  <1> DEFINE h == [f EXCEPT ![o] = v]
  <1>1. /\ DataReads(h) = DataReads(f) + (IF v \in DataStates THEN 1 ELSE 0)
                            - (IF f[o] \in DataStates THEN 1 ELSE 0)
        /\ EofReads(h) = EofReads(f) + (IF v \in EofStates THEN 1 ELSE 0)
                            - (IF f[o] \in EofStates THEN 1 ELSE 0)
        /\ WaitingReads(h) = WaitingReads(f) + (IF v = "pending" THEN 1 ELSE 0)
                            - (IF f[o] = "pending" THEN 1 ELSE 0)
        /\ Writes(h) = Writes(f)
    BY ReadMoves DEF One
  <1>2. /\ v \notin DataStates /\ v \notin EofStates /\ v # "pending"
        /\ f[o] \notin DataStates /\ f[o] # "pending"
    BY DEF DataStates, EofStates
  <1> HIDE DEF h
  <1>3. /\ DataReads(h) = DataReads(f) /\ EofReads(h) = EofReads(f) - 1
        /\ WaitingReads(h) = WaitingReads(f) /\ Writes(h) = Writes(f)
    BY <1>1, <1>2, StCounts
  <1> QED
    BY <1>3 DEF h

LEMMA WriteLeaves ==
  ASSUME NEW f, f \in [Op -> OpStates], NEW o \in Write, f[o] \in DataStates,
         NEW v \in {"idle", "cb"}
  PROVE  LET h == [f EXCEPT ![o] = v]
         IN  /\ DataReads(h) = DataReads(f) /\ EofReads(h) = EofReads(f)
             /\ WaitingReads(h) = WaitingReads(f) /\ Writes(h) = Writes(f) - 1
  <1> DEFINE h == [f EXCEPT ![o] = v]
  <1>1. /\ Writes(h) = Writes(f) + (IF v \in DataStates THEN 1 ELSE 0)
                            - (IF f[o] \in DataStates THEN 1 ELSE 0)
        /\ DataReads(h) = DataReads(f) /\ EofReads(h) = EofReads(f)
        /\ WaitingReads(h) = WaitingReads(f)
    BY WriteMoves DEF One
  <1>2. v \notin DataStates
    BY DEF DataStates
  <1> HIDE DEF h
  <1>3. Writes(h) = Writes(f) - 1
    BY <1>1, <1>2, StCounts
  <1> QED
    BY <1>1, <1>3 DEF h

\* A step of a write leaves the end of file protocol alone.
LEMMA WriteLeavesEof ==
  ASSUME Sound, \A x \in Read : st'[x] = st[x],
         UNCHANGED <<cstate, readOps, eofOps, late, due, hold, canceling>>
  PROVE  EndOfFile'
  <1>1. Pending' = Pending /\ Parked' = Parked
    BY DEF Pending, Parked
  <1> QED
    BY <1>1 DEF Sound, EndOfFile

\* The driver's function returns an error.
LEMMA FailKeeps ==
  ASSUME TypeOK, Sound, NEW o \in Op, PassFails(o)
  PROVE  Kept
  <1> DEFINE back == [st EXCEPT ![o] = "idle"]
             r == IF o \in Read THEN readOps - 1 ELSE readOps
             purge == o \in Read /\ r = 0 /\ cstate \in ReceivedStates
  <1>0. /\ st[o] = "driver" /\ passOwes[o] = "no" /\ outstanding' = outstanding - 1
        /\ readOps' = r /\ st' = (IF purge THEN Purged(back) ELSE back)
        /\ StartAfterFailure(cstate, outstanding - 1)
        /\ UNCHANGED <<cstate, eofOps, openSt, passOwes, late, due, hold>>
    BY DEF PassFails, WithDriver, pendings
  <1>1. /\ readOps \in Nat /\ eofOps \in Nat /\ outstanding \in Nat
        /\ outstanding # 0 /\ ~Nothing /\ (o \in Read => readOps # 0)
        /\ OwedEof(passOwes) = 0
    BY <1>0, Told DEF Nothing, DataStates
  <1>2. closeOp \/ cstate \notin BarrierStates
    BY <1>1, NotStarted DEF Leads
  <1>3. /\ NoticesBarrier(cstate) /\ aborted' = aborted
        /\ UNCHANGED <<closeOp, ref, canceling>>
    <2>1. CASE BarrierReached(cstate, outstanding - 1)
      BY <1>0, <1>2, <2>1 DEF StartAfterFailure, NoticesBarrier, BarrierReached, Insist, TypeOK
    <2>2. CASE ~BarrierReached(cstate, outstanding - 1)
      BY <1>0, <2>2 DEF StartAfterFailure, NoticesBarrier, closing
    <2> QED
      BY <2>1, <2>2
  <1>t. TypeOK'
    BY OpTypes DEF DriverStep
  <1>4. /\ st \in [Op -> OpStates] /\ back \in [Op -> OpStates] /\ back[o] = "idle"
        /\ \A x \in Op : x # o => back[x] = st[x]
    BY DEF TypeOK, OpStates
  <1>5. \A x \in Op : \/ st'[x] = back[x]
                      \/ purge /\ back[x] = "parked" /\ st'[x] = "firedEof"
    BY <1>0, <1>4, PurgeKeeps
  <1>6. Opening' /\ Closing' /\ Referenced'
    <2>1. \A x \in Op : st'[x] = "checked" => st[x] = "checked"
      BY <1>4, <1>5
    <2>2. Leads(cstate') /\ NoticesBarrier(cstate')
      BY <1>0, <1>3 DEF Leads
    <2> QED
      BY <1>0, <1>1, <1>3, <2>1, <2>2, LowerKeeps
  <1>7. Owing'
    BY <1>0, <1>4, <1>5, OpAssumption DEF Sound, Owing, DataStates, Op
  <1>8. /\ DataReads(st') = DataReads(back) /\ EofReads(st') = EofReads(back)
        /\ WaitingReads(st') = WaitingReads(back) /\ Writes(st') = Writes(back)
    BY <1>0, <1>4, PurgeKeeps
  <1>9. /\ DataReads(st) \in Nat /\ EofReads(st) \in Nat /\ WaitingReads(st) \in Nat
        /\ Writes(st) \in Nat /\ OwedData(passOwes) \in Nat /\ OwedWrites(passOwes) \in Nat
        /\ late["data"] \in Nat /\ late["eof"] \in Nat /\ hold \in Nat
    BY StCounts, OweCounts DEF TypeOK, Kind
  <1>10. CASE o \in Read
    <2>1. /\ DataReads(back) = DataReads(st) - 1 /\ EofReads(back) = EofReads(st)
          /\ WaitingReads(back) = WaitingReads(st) /\ Writes(back) = Writes(st)
      BY <1>0, <1>4, <1>10, DataReadLeaves DEF DataStates
    <2>2. CountersExact'
      <3>1. /\ readOps' = readOps + (DataReads(st') - DataReads(st))
                            + (OwedData(passOwes') - OwedData(passOwes))
                            + (late'["data"] - late["data"]) + (hold' - hold)
            /\ eofOps' = eofOps + (EofReads(st') - EofReads(st)) + (late'["eof"] - late["eof"])
        BY <1>0, <1>1, <1>8, <1>9, <1>10, <2>1
      <3>2. outstanding' = outstanding + (readOps' - readOps) - (hold' - hold) + (eofOps' - eofOps)
                             + (WaitingReads(st') - WaitingReads(st)) + (Writes(st') - Writes(st))
                             + (OwedWrites(passOwes') - OwedWrites(passOwes))
        BY <1>0, <1>1, <1>8, <1>9, <1>10, <2>1
      <3> QED
        BY <1>t, <1>0, <1>1, <3>1, <3>2, Tally
    <2>3. EndOfFile'
      <3>1. \A x \in Op : back[x] = st[x] \/ (st[x] \in DataStates /\ back[x] \in {"idle", "cb"})
        BY <1>0, <1>4 DEF DataStates
      <3>2. /\ readOps' = readOps - 1 /\ late'["eof"] = late["eof"] /\ hold' = hold
            /\ st' = IF readOps' = 0 /\ cstate \in ReceivedStates THEN Purged(back) ELSE back
            /\ UNCHANGED <<cstate, eofOps, canceling, due>>
        BY <1>0, <1>3, <1>10
      <3> HIDE DEF back
      <3> QED
        BY <1>t, <1>1, <1>4, <1>10, <3>1, <3>2, DropKeeps
    <2> QED
      BY <1>3, <1>6, <1>7, <2>2, <2>3 DEF Kept, Sound
  <1>11. CASE o \in Write
    <2>0. o \notin Read /\ st' = back /\ readOps' = readOps
      BY <1>0, <1>11, OpAssumption
    <2>1. /\ DataReads(back) = DataReads(st) /\ EofReads(back) = EofReads(st)
          /\ WaitingReads(back) = WaitingReads(st) /\ Writes(back) = Writes(st) - 1
      BY <1>0, <1>4, <1>11, WriteLeaves DEF DataStates
    <2>2. CountersExact'
      <3>1. /\ readOps' = readOps + (DataReads(st') - DataReads(st))
                            + (OwedData(passOwes') - OwedData(passOwes))
                            + (late'["data"] - late["data"]) + (hold' - hold)
            /\ eofOps' = eofOps + (EofReads(st') - EofReads(st)) + (late'["eof"] - late["eof"])
        BY <1>0, <1>1, <1>8, <1>9, <2>0, <2>1
      <3>2. outstanding' = outstanding + (readOps' - readOps) - (hold' - hold) + (eofOps' - eofOps)
                             + (WaitingReads(st') - WaitingReads(st)) + (Writes(st') - Writes(st))
                             + (OwedWrites(passOwes') - OwedWrites(passOwes))
        BY <1>0, <1>1, <1>8, <1>9, <2>0, <2>1
      <3> QED
        BY <1>t, <1>0, <1>1, <3>1, <3>2, Tally
    <2>3. EndOfFile'
      <3>1. \A x \in Read : st'[x] = st[x]
        BY <1>4, <2>0 DEF Op
      <3> QED
        BY <1>0, <1>3, <2>0, <3>1, WriteLeavesEof
    <2> QED
      BY <1>3, <1>6, <1>7, <2>2, <2>3 DEF Kept, Sound
  <1> QED
    BY <1>10, <1>11 DEF Op

\* A read finishes with end of file: it is kicked out if it is the last.
LEMMA EofKeeps ==
  ASSUME TypeOK, Sound, NEW o \in Read, FinishedEof(o)
  PROVE  Kept
  <1> DEFINE v == IF readOps - 1 > 0 THEN "parked" ELSE "firedEof"
  <1>0. /\ o \in Op /\ st[o] = "driver" /\ passOwes[o] = "no"
        /\ readOps' = readOps - 1 /\ eofOps' = eofOps + 1 /\ st' = [st EXCEPT ![o] = v]
        /\ UNCHANGED <<outstanding, openSt, passOwes, late, due, hold, closeOp, closeStarted,
                       ref, closeSt, closeCalls, canceling>>
    BY DEF FinishedEof, WithDriver, pendings, closing, Op
  <1>1. /\ readOps \in Nat /\ eofOps \in Nat /\ outstanding \in Nat
        /\ outstanding # 0 /\ ~Nothing /\ readOps # 0 /\ OwedEof(passOwes) = 0
    BY <1>0, Told DEF Nothing, DataStates
  <1>2. /\ closeSt \in {"none", "passed"}
        /\ closeSt = "none" => cstate \in OpenStates
        /\ closeSt = "passed" => cstate \in ClosingStates
    BY <1>1, NotStarted
  <1>3. Disciplined => aborted' = aborted
    <2>1. ASSUME Disciplined PROVE cstate \in {"OPEN", "CLOSING"} \cup ReceivedStates
      <3>1. cstate \notin DeliveredStates
        BY <1>0, <1>1, <1>2, <2>1
           DEF Sound, Closing, EndOfFile, OpenStates, ClosingStates, DeliveredStates
      <3> QED
        BY <1>2, <3>1 DEF OpenStates, ClosingStates, ReceivedStates, DeliveredStates
    <2> QED
      BY <2>1 DEF FinishedEof, Insist, TypeOK
  <1>t. TypeOK'
    BY <1>0, OpTypes
  <1>4. SUFFICES ASSUME ~aborted' PROVE Sound'
    BY <1>3 DEF Kept
  <1>5. cstate \in {"OPEN", "CLOSING"} \cup ReceivedStates
    BY <1>4 DEF FinishedEof, Insist
  <1>6. cstate' \in ReceivedStates /\ Leads(cstate')
    BY <1>5 DEF FinishedEof, ReceivedStates, Leads, OpenStates, ClosingStates
  <1>7. /\ st \in [Op -> OpStates] /\ v \in {"parked", "firedEof"} /\ st'[o] = v
        /\ \A x \in Op : x # o => st'[x] = st[x]
    BY <1>0 DEF TypeOK
  <1>v. v = "firedEof" => readOps' = 0
    BY <1>0, <1>1
  <1> HIDE DEF v
  <1>8. Opening' /\ Closing' /\ Referenced'
    <2>1. \A x \in Op : st'[x] = "checked" => st[x] = "checked"
      BY <1>7
    <2> QED
      BY <1>0, <1>1, <1>6, <2>1, LowerKeeps DEF NoticesBarrier
  <1>9. Owing'
    BY <1>0, <1>7, OpAssumption DEF Sound, Owing, Op
  <1>10. CountersExact'
    <2>1. /\ DataReads(st') = DataReads(st) + (IF v \in DataStates THEN 1 ELSE 0)
                                - (IF st[o] \in DataStates THEN 1 ELSE 0)
          /\ EofReads(st') = EofReads(st) + (IF v \in EofStates THEN 1 ELSE 0)
                                - (IF st[o] \in EofStates THEN 1 ELSE 0)
          /\ WaitingReads(st') = WaitingReads(st) + (IF v = "pending" THEN 1 ELSE 0)
                                - (IF st[o] = "pending" THEN 1 ELSE 0)
          /\ Writes(st') = Writes(st)
      <3>1. st \in [Op -> OpStates] /\ st' = [st EXCEPT ![o] = v]
        BY <1>0, <1>7
      <3> QED
        BY ONLY <3>1, o \in Read, ReadMoves DEF One
    <2>2. /\ v \notin DataStates /\ v \in EofStates /\ v # "pending"
          /\ st[o] \in DataStates /\ st[o] \notin EofStates /\ st[o] # "pending"
      BY <1>0, <1>7 DEF DataStates, EofStates
    <2>3. /\ DataReads(st) \in Nat /\ EofReads(st) \in Nat /\ WaitingReads(st) \in Nat
          /\ Writes(st) \in Nat /\ OwedData(passOwes) \in Nat /\ OwedWrites(passOwes) \in Nat
          /\ late["data"] \in Nat /\ late["eof"] \in Nat /\ hold \in Nat
      BY StCounts, OweCounts DEF TypeOK, Kind
    <2>4. /\ DataReads(st') = DataReads(st) - 1 /\ EofReads(st') = EofReads(st) + 1
          /\ WaitingReads(st') = WaitingReads(st) /\ Writes(st') = Writes(st)
      BY <2>1, <2>2, <2>3
    <2>5. /\ readOps' = readOps + (DataReads(st') - DataReads(st))
                          + (OwedData(passOwes') - OwedData(passOwes))
                          + (late'["data"] - late["data"]) + (hold' - hold)
          /\ eofOps' = eofOps + (EofReads(st') - EofReads(st)) + (late'["eof"] - late["eof"])
      BY <1>0, <1>1, <2>3, <2>4
    <2>6. outstanding' = outstanding + (readOps' - readOps) - (hold' - hold) + (eofOps' - eofOps)
                           + (WaitingReads(st') - WaitingReads(st)) + (Writes(st') - Writes(st))
                           + (OwedWrites(passOwes') - OwedWrites(passOwes))
      BY <1>0, <1>1, <2>3, <2>4
    <2> QED
      BY <1>t, <1>0, <1>1, <2>5, <2>6, Tally
  <1>11. EndOfFile'
    <2>1. Pending' = Pending
      BY <1>0, <1>7 DEF Pending, Op
    <2>2. /\ due = 0 /\ hold \in Nat /\ (Pending # {} => hold > 0) /\ hold <= 1
          /\ ~(\E x \in Read : st[x] \in {"firedEof", "eofCb"})
          /\ late["eof"] = 0
      BY <1>1, <1>5 DEF Sound, EndOfFile, TypeOK, Kind, ReceivedStates, DeliveredStates
    <2>3. \A x \in Read : st'[x] \in {"firedEof", "eofCb"} => readOps' = 0
      BY <1>7, <1>v, <2>2 DEF Op
    <2>4. cstate' \notin DeliveredStates /\ eofOps' > 0
      BY <1>0, <1>1, <1>6 DEF ReceivedStates, DeliveredStates
    <2> QED
      BY <1>0, <1>6, <2>1, <2>2, <2>3, <2>4 DEF EndOfFile
  <1> QED
    BY <1>8, <1>9, <1>10, <1>11 DEF Sound

\* The threads that dispatch the waiting reads.
LEMMA PendingKeeps == TypeOK /\ Sound /\ PendingStep => Kept
  <1> SUFFICES ASSUME TypeOK, Sound, PendingStep PROVE Kept
    OBVIOUS
  <1>t. TypeOK'
    BY TypeStep DEF Next
  <1>1. /\ readOps \in Nat /\ eofOps \in Nat /\ outstanding \in Nat /\ OwedEof(passOwes) = 0
        /\ hold \in Nat /\ due \in Nat /\ due + hold <= 1
        /\ readOps = 0 => hold = 0
        /\ eofOps = 0 => (\A o \in Read : st[o] \notin EofStates) /\ late["eof"] = 0
    BY Told DEF TypeOK, Sound, EndOfFile
  <1>2. /\ DataReads(st) \in Nat /\ EofReads(st) \in Nat /\ WaitingReads(st) \in Nat
        /\ Writes(st) \in Nat /\ OwedData(passOwes) \in Nat /\ OwedWrites(passOwes) \in Nat
        /\ late["data"] \in Nat /\ late["eof"] \in Nat
    BY StCounts, OweCounts DEF TypeOK, Kind
  <1>3. /\ UNCHANGED <<cstate, outstanding, openSt, passOwes, late, closeOp, closeStarted, ref,
                       closeSt, closeCalls, canceling>>
        /\ st \in [Op -> OpStates]
    BY DEF PendingStep, PendingBegin, PendingDump, PendingDispatch, PendingEnd, closing, TypeOK
  <1>4. ASSUME NEW a \in Int, DataReads(st') = DataReads(st) + a,
               NEW b \in Int, EofReads(st') = EofReads(st) + b,
               WaitingReads(st') = WaitingReads(st) - a - b, Writes(st') = Writes(st),
               hold' \in Int, readOps' = readOps + a + (hold' - hold), eofOps' = eofOps + b
        PROVE  CountersExact'
    <2>1. /\ readOps' = readOps + (DataReads(st') - DataReads(st))
                          + (OwedData(passOwes') - OwedData(passOwes))
                          + (late'["data"] - late["data"]) + (hold' - hold)
          /\ eofOps' = eofOps + (EofReads(st') - EofReads(st)) + (late'["eof"] - late["eof"])
      BY <1>1, <1>2, <1>3, <1>4
    <2>2. outstanding' = outstanding + (readOps' - readOps) - (hold' - hold) + (eofOps' - eofOps)
                           + (WaitingReads(st') - WaitingReads(st)) + (Writes(st') - Writes(st))
                           + (OwedWrites(passOwes') - OwedWrites(passOwes))
      BY <1>1, <1>2, <1>3, <1>4
    <2> QED
      BY <1>t, <1>1, <1>3, <2>1, <2>2, Tally
  <1>5. CASE PendingBegin
    <2>1. /\ due = 1 /\ hold = 0 /\ due' = 0 /\ hold' = 1 /\ readOps' = readOps + 1
          /\ UNCHANGED <<eofOps, st, aborted>>
      BY <1>1, <1>5 DEF PendingBegin
    <2>2. CountersExact'
      BY <1>1, <1>2, <1>4, <2>1
    <2>3. Owing' /\ Pending' = Pending /\ Parked' = Parked
      BY <1>3, <2>1 DEF Sound, Owing, Pending, Parked
    <2>4. Opening' /\ Closing' /\ Referenced'
      BY <1>3, <2>1, StayKeeps DEF Nothing
    <2>5. readOps = 0 /\ eofOps = 0 /\ Pending # {}
      BY <2>1 DEF Sound, EndOfFile
    <2>6. EndOfFile'
      BY <1>1, <1>3, <2>1, <2>3, <2>5 DEF Sound, EndOfFile, EofStates
    <2> QED
      BY <2>1, <2>2, <2>3, <2>4, <2>6 DEF Kept, Sound
  <1>6. CASE PendingDump
    <2>1. /\ hold > 0 /\ Pending # {} /\ cstate \in ReceivedStates
          /\ eofOps' = eofOps + Cardinality(Pending)
          /\ st' = [o \in Op |-> IF o \in Pending THEN "parked" ELSE st[o]]
          /\ UNCHANGED <<readOps, due, hold, aborted>>
      BY <1>6 DEF PendingDump, pendings
    <2>2. /\ \A x \in Read : st'[x] = IF st[x] = "pending" THEN "parked" ELSE st[x]
          /\ \A x \in Write : st'[x] = st[x]
      BY <2>1, OpAssumption DEF Pending, Op
    <2>3. CountersExact'
      <3> DEFINE A == {x \in Read : st[x] \in EofStates}
      <3>1. /\ {x \in Read : st'[x] \in DataStates} = {x \in Read : st[x] \in DataStates}
            /\ {x \in Read : st'[x] \in EofStates} = A \cup Pending
            /\ {x \in Read : st'[x] = "pending"} = {} /\ A \cap Pending = {}
            /\ {x \in Write : st'[x] \in DataStates} = {x \in Write : st[x] \in DataStates}
        BY <2>2 DEF DataStates, EofStates, Pending
      <3>2. A \in SUBSET Op /\ Pending \in SUBSET Op
        BY DEF Op, Pending
      <3>3. /\ DataReads(st') = DataReads(st) /\ Writes(st') = Writes(st)
            /\ EofReads(st') = Cardinality(A \cup Pending) /\ EofReads(st) = Cardinality(A)
            /\ WaitingReads(st') = Cardinality({}) /\ WaitingReads(st) = Cardinality(Pending)
        BY <3>1 DEF DataReads, EofReads, Writes, WaitingReads, Pending
      <3> HIDE DEF A
      <3>4. IsFiniteSet(A) /\ IsFiniteSet(Pending) /\ Cardinality(Pending) \in Nat
            /\ Cardinality(A) \in Nat /\ Cardinality({}) = 0
        BY <3>2, OpCard, FS_EmptySet
      <3>5. Cardinality(A \cup Pending) = Cardinality(A) + Cardinality(Pending)
        <4>1. Cardinality(A \cup Pending)
              = Cardinality(A) + Cardinality(Pending) - Cardinality(A \cap Pending)
          BY <3>4, FS_Union
        <4>2. Cardinality(A \cap Pending) = 0
          BY <3>1, <3>4
        <4> QED
          BY <3>4, <4>1, <4>2
      <3> QED
        <4> DEFINE n == Cardinality(Pending)
        <4>1. /\ n \in Int /\ 0 \in Int /\ DataReads(st') = DataReads(st) + 0
              /\ EofReads(st') = EofReads(st) + n /\ WaitingReads(st') = WaitingReads(st) - 0 - n
              /\ Writes(st') = Writes(st) /\ hold' \in Int
              /\ readOps' = readOps + 0 + (hold' - hold) /\ eofOps' = eofOps + n
          BY <1>1, <1>2, <2>1, <3>3, <3>4, <3>5
        <4> HIDE DEF n
        <4> QED
          BY <1>4, <4>1
    <2>4. Cardinality(Pending) \in Nat
      BY OpCard DEF Pending, Op
    <2>5. Opening' /\ Closing' /\ Referenced'
      <3>1. \A x \in Op : st'[x] = "checked" => st[x] = "checked"
        BY <2>2 DEF Op
      <3> QED
        BY <1>3, <2>1, <3>1, StayKeeps DEF Nothing
    <2>6. Owing'
      BY <1>3, <2>2, OpAssumption DEF Sound, Owing, Op
    <2>7. EndOfFile'
      <3>1. Pending' = {} /\ due = 0 /\ eofOps > 0 /\ readOps > 0 /\ late["eof"] = 0
            /\ \A x \in Read : st'[x] \notin {"firedEof", "eofCb"}
        BY <1>1, <1>2, <2>1, <2>2 DEF Sound, EndOfFile, Pending
      <3>2. eofOps' > 0
        BY <1>1, <2>1, <2>4, <3>1
      <3>3. cstate \notin DeliveredStates
        BY <2>1 DEF ReceivedStates, DeliveredStates
      <3> QED
        BY <1>1, <1>3, <2>1, <3>1, <3>2, <3>3 DEF EndOfFile
    <2> QED
      BY <2>1, <2>3, <2>5, <2>6, <2>7 DEF Kept, Sound
  <1>7. ASSUME NEW o \in Read, PendingDispatch(o) PROVE Kept
    <2> DEFINE v == IF canceling THEN "fired" ELSE "driver"
    <2>1. /\ hold > 0 /\ o \in Op /\ st[o] = "pending" /\ cstate \notin ReceivedStates
          /\ readOps' = readOps + 1 /\ st' = [st EXCEPT ![o] = v]
          /\ UNCHANGED <<eofOps, due, hold>>
      BY <1>7 DEF PendingDispatch, Pending, pendings, Op
    <2>2. v \in {"fired", "driver"} /\ (canceling => v # "driver") /\ st'[o] = v
          /\ \A x \in Op : x # o => st'[x] = st[x]
      BY <1>3, <2>1
    <2> HIDE DEF v
    <2>3. readOps > 0 /\ due = 0 /\ eofOps = 0 /\ cstate # "EOF_DELIVERED"
      BY <1>1, <2>1 DEF Sound, EndOfFile, ReceivedStates, DeliveredStates
    <2>4. aborted' = aborted
      BY <1>7, <2>3 DEF PendingDispatch, Insist, TypeOK
    <2>5. CountersExact'
      <3>1. /\ DataReads(st') = DataReads(st) + (IF v \in DataStates THEN 1 ELSE 0)
                                  - (IF st[o] \in DataStates THEN 1 ELSE 0)
            /\ EofReads(st') = EofReads(st) + (IF v \in EofStates THEN 1 ELSE 0)
                                  - (IF st[o] \in EofStates THEN 1 ELSE 0)
            /\ WaitingReads(st') = WaitingReads(st) + (IF v = "pending" THEN 1 ELSE 0)
                                  - (IF st[o] = "pending" THEN 1 ELSE 0)
            /\ Writes(st') = Writes(st)
        BY <1>3, <2>1, ReadMoves DEF One
      <3>2. /\ v \in DataStates /\ v \notin EofStates /\ v # "pending"
            /\ st[o] \notin DataStates /\ st[o] \notin EofStates /\ st[o] = "pending"
        BY <2>1, <2>2 DEF DataStates, EofStates
      <3>3. /\ DataReads(st') = DataReads(st) + 1 /\ EofReads(st') = EofReads(st) + 0
            /\ WaitingReads(st') = WaitingReads(st) - 1 - 0 /\ Writes(st') = Writes(st)
        BY <1>2, <3>1, <3>2
      <3>4. hold' \in Int /\ readOps' = readOps + 1 + (hold' - hold) /\ eofOps' = eofOps + 0
        BY <1>1, <2>1
      <3> QED
        BY <1>4, <3>3, <3>4
    <2>6. Opening' /\ Closing' /\ Referenced'
      <3>1. \A x \in Op : st'[x] = "checked" => st[x] = "checked"
        BY <2>2
      <3> QED
        BY <1>3, <2>1, <3>1, StayKeeps DEF Nothing
    <2>7. Owing'
      BY <1>3, <2>1, <2>2, OpAssumption DEF Sound, Owing, Op
    <2>8. EndOfFile'
      <3>1. /\ Parked = {} => Parked' = {}
            /\ \A x \in Read : st'[x] = "driver" => st[x] = "driver" \/ ~canceling
            /\ \A x \in Read : st'[x] \notin {"firedEof", "eofCb"}
            /\ late["eof"] = 0
        BY <1>1, <2>2, <2>3 DEF Parked, Op, EofStates
      <3> QED
        BY <1>1, <1>3, <2>1, <2>3, <3>1 DEF Sound, EndOfFile
    <2> QED
      BY <2>4, <2>5, <2>6, <2>7, <2>8 DEF Kept, Sound
  <1>8. CASE PendingEnd
    <2>1. /\ hold > 0 /\ Pending = {} /\ hold' = hold - 1 /\ readOps' = readOps - 1
          /\ st' = (IF readOps = 1 /\ cstate \in ReceivedStates THEN Purged(st) ELSE st)
          /\ UNCHANGED <<eofOps, due, aborted>>
      BY <1>8 DEF PendingEnd
    <2>2. /\ DataReads(st') = DataReads(st) /\ EofReads(st') = EofReads(st)
          /\ WaitingReads(st') = WaitingReads(st) /\ Writes(st') = Writes(st)
          /\ \A x \in Op : st'[x] = st[x] \/ (st[x] = "parked" /\ st'[x] = "firedEof")
      <3>1. CASE readOps = 1 /\ cstate \in ReceivedStates
        <4>1. st' = Purged(st)
          BY <2>1, <3>1
        <4> QED
          BY <1>3, <4>1, PurgeKeeps
      <3>2. CASE ~(readOps = 1 /\ cstate \in ReceivedStates)
        BY <2>1, <3>2
      <3> QED
        BY <3>1, <3>2
    <2>3. CountersExact'
      <3>1. /\ DataReads(st') = DataReads(st) + 0 /\ EofReads(st') = EofReads(st) + 0
            /\ WaitingReads(st') = WaitingReads(st) - 0 - 0 /\ Writes(st') = Writes(st)
            /\ hold' \in Int /\ readOps' = readOps + 0 + (hold' - hold) /\ eofOps' = eofOps + 0
        BY <1>1, <1>2, <2>1, <2>2
      <3> QED
        BY <1>4, <3>1
    <2>4. Opening' /\ Closing' /\ Referenced'
      <3>1. \A x \in Op : st'[x] = "checked" => st[x] = "checked"
        BY <2>2
      <3> QED
        BY <1>3, <2>1, <3>1, StayKeeps DEF Nothing
    <2>5. Owing'
      BY <1>3, <2>2, OpAssumption DEF Sound, Owing, DataStates, Op
    <2>6. EndOfFile'
      <3>1. /\ readOps # 0 /\ hold' < hold
            /\ st' = IF readOps' = 0 /\ cstate \in ReceivedStates THEN Purged(st) ELSE st
        BY <1>1, <2>1
      <3> QED
        BY <1>t, <1>3, <2>1, <3>1, DropKeeps
    <2> QED
      BY <2>1, <2>3, <2>4, <2>5, <2>6 DEF Kept, Sound
  <1> QED
    BY <1>5, <1>6, <1>7, <1>8 DEF PendingStep

-----------------------------------------------------------------------------
(* Delivery, for whichever thread delivers.  f is st as that thread leaves it. *)

\* A delivery that finds the barrier reached starts the close that waits for it.
LEMMA StartNotices ==
  ASSUME NEW s, StartIfReached(s, outstanding - 1), outstanding' = outstanding - 1
  PROVE  NoticesBarrier(s) /\ UNCHANGED <<closeOp, ref, canceling>>
  <1>1. CASE BarrierReached(s, outstanding - 1)
    BY <1>1 DEF StartIfReached, NoticesBarrier, BarrierReached
  <1>2. CASE ~BarrierReached(s, outstanding - 1)
    BY <1>2 DEF StartIfReached, NoticesBarrier, closing
  <1> QED
    BY <1>1, <1>2

\* Nothing owes an end of file, and what still owes is with the driver.
LEMMA OwingKept ==
  ASSUME Sound, TypeOK,
         \A x \in Op : passOwes'[x] = passOwes[x] \/ passOwes'[x] = "no",
         \A x \in Op : \/ st'[x] = st[x]
                       \/ st[x] \in {"dataCb", "eofCb"} /\ st'[x] = "cb"
                       \/ st[x] = "parked" /\ st'[x] = "firedEof"
  PROVE  Owing' /\ OwedEof(passOwes') = 0
  <1>1. \A x \in Op : passOwes'[x] # "no" => passOwes'[x] = "data" /\ st'[x] = "driver"
    BY DEF Sound, Owing
  <1>2. \A x \in Write : st'[x] \in {"idle", "checked", "cb"} \cup DataStates
    BY DEF Sound, Owing, DataStates, Op
  <1>3. \A x \in Read : passOwes'[x] # "eof"
    BY <1>1 DEF Op
  <1> QED
    BY <1>1, <1>2, <1>3, OweCounts DEF Owing

\* globus_xio_driver_write_delivered
LEMMA WriteDeliveryKeeps ==
  ASSUME TypeOK, Sound, TypeOK', NEW f, f \in [Op -> OpStates], WriteDelivered(f),
         ~Nothing, outstanding # 0, late' = late,
         \A x \in Op : passOwes'[x] = passOwes[x] \/ passOwes'[x] = "no",
         \A x \in Op : f[x] = st[x] \/ (st[x] = "dataCb" /\ f[x] = "cb"),
         \A x \in Read : f[x] = st[x],
         DataReads(f) = DataReads(st), EofReads(f) = EofReads(st),
         WaitingReads(f) = WaitingReads(st), OwedData(passOwes') = OwedData(passOwes),
         Writes(f) + OwedWrites(passOwes') = Writes(st) + OwedWrites(passOwes) - 1
  PROVE  Kept
  <1>1. /\ st' = f /\ outstanding' = outstanding - 1
        /\ StartIfReached(cstate, outstanding - 1)
        /\ UNCHANGED <<cstate, readOps, eofOps, openSt, due, hold>>
    BY DEF WriteDelivered, pendings
  <1>2. NoticesBarrier(cstate') /\ Leads(cstate') /\ UNCHANGED <<closeOp, ref, canceling>>
    BY <1>1, StartNotices DEF Leads
  <1>3. outstanding \in Nat /\ readOps \in Nat /\ eofOps \in Nat
    BY Told
  <1>4. aborted' = aborted
    <2>1. BarrierReached(cstate, outstanding - 1) => closeOp
      BY NotStarted DEF Leads, BarrierReached
    <2>2. outstanding > 0
      BY <1>3
    <2> QED
      BY <2>1, <2>2 DEF WriteDelivered, Insist, TypeOK
  <1>5. Opening' /\ Closing' /\ Referenced'
    <2>1. \A x \in Op : st'[x] = "checked" => st[x] = "checked"
      BY <1>1
    <2> QED
      BY <1>1, <1>2, <2>1, LowerKeeps
  <1>6. Owing' /\ OwedEof(passOwes') = 0
    BY <1>1, OwingKept
  <1>7. EndOfFile'
    BY <1>1, <1>2, WriteLeavesEof
  <1>8. CountersExact'
    <2>1. /\ DataReads(st) \in Nat /\ EofReads(st) \in Nat /\ WaitingReads(st) \in Nat
          /\ OwedData(passOwes) \in Nat /\ late["data"] \in Nat /\ late["eof"] \in Nat
          /\ hold \in Nat
      BY StCounts, OweCounts DEF TypeOK, Kind
    <2>2. /\ readOps' = readOps + (DataReads(st') - DataReads(st))
                          + (OwedData(passOwes') - OwedData(passOwes))
                          + (late'["data"] - late["data"]) + (hold' - hold)
          /\ eofOps' = eofOps + (EofReads(st') - EofReads(st)) + (late'["eof"] - late["eof"])
      BY <1>1, <1>3, <2>1
    <2> DEFINE a == Writes(st)
               b == OwedWrites(passOwes)
               c == Writes(st')
               d == OwedWrites(passOwes')
    <2>3. a \in Nat /\ b \in Nat /\ c \in Nat /\ d \in Nat /\ c + d = a + b - 1
      BY <1>1, StCounts, OweCounts
    <2>4. /\ readOps' - readOps = 0 /\ hold' - hold = 0 /\ eofOps' - eofOps = 0
          /\ WaitingReads(st') - WaitingReads(st) = 0
      BY <1>1, <1>3, <2>1
    <2>5. outstanding' = outstanding + 0 - 0 + 0 + 0 + (c - a) + (d - b)
      <3> HIDE DEF a, b, c, d
      <3> QED
        BY <1>1, <1>3, <2>3
    <2> QED
      BY <1>1, <1>6, <2>2, <2>4, <2>5, Tally
  <1> QED
    BY <1>4, <1>5, <1>6, <1>7, <1>8 DEF Kept, Sound

\* globus_xio_driver_read_delivered of a data read
LEMMA DataDeliveryKeeps ==
  ASSUME TypeOK, Sound, TypeOK', NEW f, f \in [Op -> OpStates], DataReadDelivered(f),
         ~Nothing, outstanding # 0, late'["eof"] = late["eof"],
         \A x \in Op : passOwes'[x] = passOwes[x] \/ passOwes'[x] = "no",
         \A x \in Op : f[x] = st[x] \/ (st[x] = "dataCb" /\ f[x] = "cb"),
         DataReads(f) + OwedData(passOwes') + late'["data"]
           = DataReads(st) + OwedData(passOwes) + late["data"] - 1,
         EofReads(f) = EofReads(st), WaitingReads(f) = WaitingReads(st),
         Writes(f) = Writes(st), OwedWrites(passOwes') = OwedWrites(passOwes)
  PROVE  Kept
  <1>1. /\ readOps # 0 /\ outstanding' = outstanding - 1 /\ readOps' = readOps - 1
        /\ st' = (IF readOps - 1 = 0 /\ cstate \in ReceivedStates THEN Purged(f) ELSE f)
        /\ StartIfReached(cstate, outstanding - 1)
        /\ UNCHANGED <<cstate, eofOps, openSt, due, hold>>
    BY DEF DataReadDelivered, pendings
  <1>2. NoticesBarrier(cstate') /\ Leads(cstate') /\ UNCHANGED <<closeOp, ref, canceling>>
    BY <1>1, StartNotices DEF Leads
  <1>3. outstanding \in Nat /\ readOps \in Nat /\ eofOps \in Nat
    BY Told
  <1>4. aborted' = aborted
    <2>1. outstanding - 1 >= 0
      BY <1>3
    <2> QED
      BY <2>1 DEF DataReadDelivered, Insist, TypeOK
  <1>5. /\ \A x \in Op : st'[x] = f[x] \/ (f[x] = "parked" /\ st'[x] = "firedEof")
        /\ DataReads(st') = DataReads(f) /\ EofReads(st') = EofReads(f)
        /\ WaitingReads(st') = WaitingReads(f) /\ Writes(st') = Writes(f)
    <2>1. CASE readOps - 1 = 0 /\ cstate \in ReceivedStates
      <3>1. st' = Purged(f)
        BY <1>1, <2>1
      <3> QED
        BY <3>1, PurgeKeeps
    <2>2. CASE ~(readOps - 1 = 0 /\ cstate \in ReceivedStates)
      BY <1>1, <2>2
    <2> QED
      BY <2>1, <2>2
  <1>6. Opening' /\ Closing' /\ Referenced'
    <2>1. \A x \in Op : st'[x] = "checked" => st[x] = "checked"
      BY <1>5
    <2> QED
      BY <1>1, <1>2, <2>1, LowerKeeps
  <1>7. Owing' /\ OwedEof(passOwes') = 0
    BY <1>5, OwingKept
  <1>8. EndOfFile'
    <2>1. \A x \in Op : f[x] = st[x] \/ (st[x] \in DataStates /\ f[x] \in {"idle", "cb"})
      BY DEF DataStates
    <2>2. st' = IF readOps' = 0 /\ cstate \in ReceivedStates THEN Purged(f) ELSE f
      BY <1>1
    <2> QED
      BY <1>1, <1>2, <2>1, <2>2, DropKeeps
  <1>9. CountersExact'
    <2>1. /\ EofReads(st) \in Nat /\ WaitingReads(st) \in Nat /\ late["eof"] \in Nat
          /\ Writes(st) \in Nat /\ OwedWrites(passOwes) \in Nat /\ hold \in Nat
      BY StCounts, OweCounts DEF TypeOK, Kind
    <2> DEFINE a == DataReads(st)
               b == OwedData(passOwes)
               c == late["data"]
               a2 == DataReads(st')
               b2 == OwedData(passOwes')
               c2 == late'["data"]
    <2>2. /\ a \in Nat /\ b \in Nat /\ c \in Nat /\ a2 \in Nat /\ b2 \in Nat /\ c2 \in Nat
          /\ a2 + b2 + c2 = a + b + c - 1
      BY <1>5, StCounts, OweCounts DEF TypeOK, Kind
    <2>3. hold' - hold = 0 /\ eofOps' - eofOps = 0 /\ WaitingReads(st') - WaitingReads(st) = 0
          /\ Writes(st') - Writes(st) = 0 /\ OwedWrites(passOwes') - OwedWrites(passOwes) = 0
          /\ EofReads(st') - EofReads(st) = 0 /\ late'["eof"] - late["eof"] = 0
          /\ readOps' - readOps = 0 - 1
      BY <1>1, <1>3, <1>5, <2>1
    <2>4. readOps' = readOps + (a2 - a) + (b2 - b) + (c2 - c) + 0
      <3> HIDE DEF a, b, c, a2, b2, c2
      <3> QED
        BY <1>1, <1>3, <2>2
    <2>5. eofOps' = eofOps + 0 + 0 /\ outstanding' = outstanding + (0 - 1) - 0 + 0 + 0 + 0 + 0
      BY <1>1, <1>3
    <2> QED
      BY <1>1, <1>7, <2>3, <2>4, <2>5, Tally
  <1> QED
    BY <1>4, <1>6, <1>7, <1>8, <1>9 DEF Kept, Sound

\* globus_xio_driver_read_delivered of an end of file read
LEMMA EofDeliveryKeeps ==
  ASSUME TypeOK, Sound, TypeOK', NEW f, f \in [Op -> OpStates], EofReadDelivered(f),
         ~Nothing, outstanding # 0, eofOps # 0, passOwes' = passOwes,
         late'["data"] = late["data"],
         \A x \in Op : f[x] = st[x] \/ (st[x] = "eofCb" /\ f[x] = "cb"),
         EofReads(f) + late'["eof"] = EofReads(st) + late["eof"] - 1,
         DataReads(f) = DataReads(st), WaitingReads(f) = WaitingReads(st),
         Writes(f) = Writes(st)
  PROVE  Kept
  <1> USE DEF ReceivedStates, DeliveredStates
  <1>0. /\ outstanding \in Nat /\ eofOps \in Nat /\ due \in Nat /\ hold = 0
        /\ readOps = 0 /\ \A x \in Read : st[x] \notin DataStates
    <2>1. readOps = 0
      BY DEF EofReadDelivered
    <2> QED
      BY <2>1, Told DEF TypeOK
  <1>1. /\ outstanding' = outstanding - 1 /\ eofOps' = eofOps - 1
        /\ due' = DueAfter(eofOps - 1) /\ UNCHANGED <<readOps, openSt, hold>>
        /\ st' = (IF cstate \in ReceivedStates THEN Purged(f) ELSE f)
    BY DEF EofReadDelivered
  <1>2. cstate \in ReceivedStates \cup DeliveredStates
    BY DEF Sound, EndOfFile
  <1>3. aborted' = aborted
    <2>1. outstanding - 1 >= 0
      BY <1>0
    <2> QED
      BY <1>2, <2>1 DEF EofReadDelivered, Insist, TypeOK
  <1>4. /\ cstate \in {"EOF_RECEIVED", "EOF_DELIVERED"} =>
             cstate' = IF eofOps - 1 = 0 THEN "OPEN" ELSE "EOF_DELIVERED"
        /\ cstate \in {"EOF_RECEIVED_AND_CLOSING", "EOF_DELIVERED_AND_CLOSING"} =>
             cstate' = "EOF_DELIVERED_AND_CLOSING"
    BY DEF EofReadDelivered
  <1>5. StartIfReached(cstate', outstanding - 1)
    BY DEF EofReadDelivered
  <1>6. NoticesBarrier(cstate') /\ UNCHANGED <<closeOp, ref, canceling>>
    BY <1>1, <1>5, StartNotices
  <1>7. Leads(cstate')
    BY <1>2, <1>4 DEF Leads, OpenStates, ClosingStates
  <1>8. /\ \A x \in Op : \/ st'[x] = f[x] /\ (cstate \in ReceivedStates => f[x] # "parked")
                         \/ f[x] = "parked" /\ st'[x] = "firedEof"
        /\ DataReads(st') = DataReads(f) /\ EofReads(st') = EofReads(f)
        /\ WaitingReads(st') = WaitingReads(f) /\ Writes(st') = Writes(f)
    <2>1. CASE cstate \in ReceivedStates
      <3>1. st' = Purged(f)
        BY <1>1, <2>1
      <3> QED
        BY <3>1, PurgeKeeps
    <2>2. CASE cstate \notin ReceivedStates
      BY <1>1, <2>2
    <2> QED
      BY <2>1, <2>2
  <1>9. Opening' /\ Closing' /\ Referenced'
    <2>1. \A x \in Op : st'[x] = "checked" => st[x] = "checked"
      BY <1>8
    <2> QED
      BY <1>1, <1>6, <1>7, <2>1, LowerKeeps
  <1>10. Owing' /\ OwedEof(passOwes') = 0
    BY <1>8, OwingKept
  <1>11. EndOfFile'
    <2>1. Pending' = Pending
      BY <1>8 DEF Pending, Op
    <2>2. due = 0 /\ (cstate \in ReceivedStates => Pending = {})
      BY <1>0 DEF Sound, EndOfFile
    <2>3. due' = IF eofOps - 1 = 0 /\ Pending # {} THEN 1 ELSE 0
      BY <1>1, <2>2 DEF DueAfter
    <2>4. Parked' = {}
      <3>1. cstate \in DeliveredStates => Parked = {}
        BY DEF Sound, EndOfFile
      <3> QED
        BY <1>2, <1>8, <3>1 DEF Parked, Op
    <2>5. \A x \in Read : st'[x] # "driver"
      BY <1>0, <1>8 DEF DataStates, Op
    <2>6. cstate' \in {"OPEN", "EOF_DELIVERED", "EOF_DELIVERED_AND_CLOSING"}
          /\ (cstate' = "OPEN" => eofOps' = 0) /\ (cstate' = "EOF_DELIVERED" => eofOps' > 0)
          /\ eofOps' \in Nat
      BY <1>0, <1>1, <1>2, <1>4
    <2>7. readOps' = 0 /\ hold' = 0
      BY <1>0, <1>1
    <2>8. Pending' # {} => (cstate' \in DeliveredStates /\ eofOps' > 0) \/ due' + hold' > 0
      <3>1. CASE eofOps' = 0
        <4>1. eofOps - 1 = 0
          BY <1>1, <3>1
        <4>2. Pending # {} => due' = 1
          BY <2>3, <4>1
        <4> QED
          BY <2>1, <2>7, <4>2
      <3>2. CASE eofOps' # 0
        BY <2>6, <3>2
      <3> QED
        BY <3>1, <3>2
    <2>9. /\ due' + hold' <= 1
          /\ due' > 0 => readOps' = 0 /\ eofOps' = 0 /\ Pending' # {}
      BY <1>1, <2>1, <2>3, <2>7
    <2> QED
      BY <2>4, <2>5, <2>6, <2>7, <2>8, <2>9 DEF EndOfFile
  <1>12. CountersExact'
    <2>1. /\ DataReads(st) \in Nat /\ WaitingReads(st) \in Nat /\ late["data"] \in Nat
          /\ Writes(st) \in Nat /\ OwedWrites(passOwes) \in Nat /\ OwedData(passOwes) \in Nat
      BY StCounts, OweCounts DEF TypeOK, Kind
    <2> DEFINE a == EofReads(st)
               c == late["eof"]
               a2 == EofReads(st')
               c2 == late'["eof"]
    <2>2. /\ a \in Nat /\ c \in Nat /\ a2 \in Nat /\ c2 \in Nat /\ a2 + c2 = a + c - 1
      BY <1>8, StCounts DEF TypeOK, Kind
    <2>3. hold' - hold = 0 /\ readOps' - readOps = 0 /\ WaitingReads(st') - WaitingReads(st) = 0
          /\ Writes(st') - Writes(st) = 0 /\ OwedWrites(passOwes') - OwedWrites(passOwes) = 0
          /\ DataReads(st') - DataReads(st) = 0 /\ late'["data"] - late["data"] = 0
          /\ OwedData(passOwes') - OwedData(passOwes) = 0
          /\ eofOps' - eofOps = 0 - 1
      BY <1>0, <1>1, <1>8, <2>1
    <2>4. eofOps' = eofOps + (a2 - a) + (c2 - c)
      <3> HIDE DEF a, c, a2, c2
      <3> QED
        BY <1>0, <1>1, <2>2
    <2>5. readOps' = readOps + 0 + 0 + 0 + 0
          /\ outstanding' = outstanding + 0 - 0 + (0 - 1) + 0 + 0 + 0
      BY <1>0, <1>1
    <2> QED
      BY <1>1, <1>10, <2>3, <2>4, <2>5, Tally
  <1> QED
    BY <1>3, <1>9, <1>10, <1>11, <1>12 DEF Kept, Sound

\* Delivery by the kickout or while its callback blocks.
LEMMA CallbackDeliveryKeeps ==
  ASSUME TypeOK, Sound, NEW o \in Op, DeliverFromCallback(o)
  PROVE  Kept
  <1> DEFINE f == [st EXCEPT ![o] = "cb"]
  <1>0. TypeOK'
    BY TypeStep DEF Next, Deliver
  <1>1. /\ st[o] \in {"dataCb", "eofCb"} /\ UNCHANGED <<passOwes, late>>
        /\ st \in [Op -> OpStates] /\ f \in [Op -> OpStates] /\ f[o] = "cb"
        /\ \A x \in Op : x # o => f[x] = st[x]
        /\ Delivered(o, f)
    BY DEF DeliverFromCallback, TypeOK, OpStates
  <1>2. ~Nothing /\ outstanding # 0
    BY <1>1, Told DEF Nothing
  <1>3. /\ DataReads(st) \in Nat /\ EofReads(st) \in Nat /\ Writes(st) \in Nat
        /\ OwedData(passOwes) \in Nat /\ OwedWrites(passOwes) \in Nat
        /\ late["data"] \in Nat /\ late["eof"] \in Nat
    BY StCounts, OweCounts DEF TypeOK, Kind
  <1>4. CASE o \in Write
    <2>1. o \notin Read /\ st[o] = "dataCb" /\ WriteDelivered(f)
      BY <1>1, <1>4, OpAssumption DEF Delivered, Sound, Owing, DataStates
    <2>2. /\ DataReads(f) = DataReads(st) /\ EofReads(f) = EofReads(st)
          /\ WaitingReads(f) = WaitingReads(st) /\ Writes(f) = Writes(st) - 1
      BY <1>1, <1>4, <2>1, WriteLeaves DEF DataStates
    <2>3. (\A x \in Op : f[x] = st[x] \/ (st[x] = "dataCb" /\ f[x] = "cb"))
          /\ \A x \in Read : f[x] = st[x]
      BY <1>1, <2>1 DEF Op
    <2>4. Writes(f) + OwedWrites(passOwes') = Writes(st) + OwedWrites(passOwes) - 1
      BY <1>1, <1>3, <2>2
    <2> HIDE DEF f
    <2> QED
      BY <1>0, <1>1, <1>2, <2>1, <2>2, <2>3, <2>4, WriteDeliveryKeeps
  <1>5. CASE o \in Read /\ st[o] = "dataCb"
    <2>1. DataReadDelivered(f)
      <3>1. readOps # 0
        BY <1>5, Told DEF DataStates
      <3> QED
        BY <1>1, <1>5, <3>1, OpAssumption DEF Delivered, EofReadDelivered
    <2>2. /\ DataReads(f) = DataReads(st) - 1 /\ EofReads(f) = EofReads(st)
          /\ WaitingReads(f) = WaitingReads(st) /\ Writes(f) = Writes(st)
      BY <1>1, <1>5, DataReadLeaves DEF DataStates
    <2>3. \A x \in Op : f[x] = st[x] \/ (st[x] = "dataCb" /\ f[x] = "cb")
      BY <1>1, <1>5
    <2>4. DataReads(f) + OwedData(passOwes') + late'["data"]
            = DataReads(st) + OwedData(passOwes) + late["data"] - 1
      BY <1>1, <1>3, <2>2
    <2> HIDE DEF f
    <2> QED
      BY <1>0, <1>1, <1>2, <2>1, <2>2, <2>3, <2>4, DataDeliveryKeeps
  <1>6. CASE o \in Read /\ st[o] = "eofCb"
    <2>1. EofReadDelivered(f) /\ eofOps # 0
      <3>1. readOps = 0
        BY <1>6 DEF Sound, EndOfFile
      <3>2. eofOps # 0
        BY <1>6, Told DEF EofStates
      <3> QED
        BY <1>1, <1>6, <3>1, <3>2, OpAssumption DEF Delivered, DataReadDelivered
    <2>2. /\ DataReads(f) = DataReads(st) /\ EofReads(f) = EofReads(st) - 1
          /\ WaitingReads(f) = WaitingReads(st) /\ Writes(f) = Writes(st)
      BY <1>1, <1>6, EofReadLeaves DEF EofStates
    <2>3. \A x \in Op : f[x] = st[x] \/ (st[x] = "eofCb" /\ f[x] = "cb")
      BY <1>1, <1>6
    <2>4. EofReads(f) + late'["eof"] = EofReads(st) + late["eof"] - 1
      BY <1>1, <1>3, <2>2
    <2> HIDE DEF f
    <2> QED
      BY <1>0, <1>1, <1>2, <2>1, <2>2, <2>3, <2>4, EofDeliveryKeeps
  <1> QED
    BY <1>1, <1>4, <1>5, <1>6 DEF Op

\* Delivery by a pass, before it calls the driver.
LEMMA PassDeliveryKeeps ==
  ASSUME TypeOK, Sound, NEW o \in Op, DeliverFromPass(o)
  PROVE  Kept
  <1>0. TypeOK'
    BY TypeStep DEF Next, Deliver
  <1>1. /\ passOwes[o] = "data" /\ st[o] = "driver" /\ UNCHANGED late
        /\ passOwes' = [passOwes EXCEPT ![o] = "no"] /\ Delivered(o, st)
        /\ st \in [Op -> OpStates] /\ passOwes \in [Op -> Kind \cup {"no"}]
    BY DEF DeliverFromPass, TypeOK, Sound, Owing
  <1>2. ~Nothing /\ outstanding # 0
    BY <1>1, Told DEF Nothing
  <1>3. \A x \in Op : passOwes'[x] = passOwes[x] \/ passOwes'[x] = "no"
    BY <1>1
  <1>4. /\ DataReads(st) \in Nat /\ Writes(st) \in Nat /\ late["data"] \in Nat
        /\ OwedData(passOwes) \in Nat /\ OwedWrites(passOwes) \in Nat
    BY StCounts, OweCounts DEF TypeOK, Kind
  <1>5. CASE o \in Write
    <2>1. WriteDelivered(st)
      BY <1>1, <1>5, OpAssumption DEF Delivered
    <2>2. OwedData(passOwes') = OwedData(passOwes)
          /\ OwedWrites(passOwes') = OwedWrites(passOwes) - 1
      <3> DEFINE g == passOwes
                 h == [g EXCEPT ![o] = "no"]
      <3>1. OwedData(h) = OwedData(g)
            /\ OwedWrites(h) = OwedWrites(g) + (IF g[o] = "no" THEN 1 ELSE 0) - 1
        BY <1>1, <1>5, OweWriteMoves DEF One
      <3>2. OwedWrites(h) = OwedWrites(g) + 0 - 1
        BY <1>1, <3>1
      <3> QED
        BY <1>1, <1>4, <3>1, <3>2
    <2>3. Writes(st) + OwedWrites(passOwes') = Writes(st) + OwedWrites(passOwes) - 1
      BY <1>4, <2>2
    <2> QED
      BY <1>0, <1>1, <1>2, <1>3, <2>1, <2>2, <2>3, WriteDeliveryKeeps
  <1>6. CASE o \in Read
    <2>1. DataReadDelivered(st)
      <3>1. readOps # 0
        BY <1>1, <1>6, Told DEF DataStates
      <3> QED
        BY <1>1, <1>6, <3>1, OpAssumption DEF Delivered, EofReadDelivered
    <2>2. OwedData(passOwes') = OwedData(passOwes) - 1
          /\ OwedWrites(passOwes') = OwedWrites(passOwes)
      <3> DEFINE g == passOwes
                 h == [g EXCEPT ![o] = "no"]
      <3>1. OwedData(h) = OwedData(g) + 0 - (IF g[o] = "data" THEN 1 ELSE 0)
            /\ OwedWrites(h) = OwedWrites(g)
        BY <1>1, <1>6, OweReadMoves DEF One
      <3>2. OwedData(h) = OwedData(g) + 0 - 1
        BY <1>1, <3>1
      <3> QED
        BY <1>1, <1>4, <3>1, <3>2
    <2>3. DataReads(st) + OwedData(passOwes') + late'["data"]
            = DataReads(st) + OwedData(passOwes) + late["data"] - 1
      BY <1>1, <1>4, <2>2
    <2> QED
      BY <1>0, <1>1, <1>2, <1>3, <2>1, <2>2, <2>3, DataDeliveryKeeps
  <1> QED
    BY <1>5, <1>6 DEF Op

\* Delivery by a pass_read that queued its operation.
LEMMA LateDeliveryKeeps ==
  ASSUME TypeOK, Sound, NEW k \in Kind, DeliverLate(k)
  PROVE  Kept
  <1>0. TypeOK'
    BY TypeStep DEF Next, Deliver
  <1>1. /\ late[k] > 0 /\ late' = [late EXCEPT ![k] = @ - 1] /\ UNCHANGED passOwes
        /\ EofReadDelivered(st) \/ DataReadDelivered(st)
        /\ st \in [Op -> OpStates] /\ late \in [Kind -> Nat]
    BY DEF DeliverLate, TypeOK
  <1>2. ~Nothing /\ outstanding # 0
    BY <1>1, Told DEF Nothing
  <1>3. /\ DataReads(st) \in Nat /\ EofReads(st) \in Nat /\ OwedData(passOwes) \in Nat
        /\ late["data"] \in Nat /\ late["eof"] \in Nat
    BY StCounts, OweCounts DEF TypeOK, Kind
  <1>4. CASE k = "data"
    <2>1. late'["data"] = late["data"] - 1 /\ late'["eof"] = late["eof"] /\ late["data"] > 0
      BY <1>1, <1>4 DEF Kind
    <2>2. DataReadDelivered(st)
      <3>1. readOps # 0
        BY <2>1, Told
      <3> QED
        BY <1>1, <3>1 DEF EofReadDelivered
    <2>3. DataReads(st) + OwedData(passOwes') + late'["data"]
            = DataReads(st) + OwedData(passOwes) + late["data"] - 1
      BY <1>1, <1>3, <2>1
    <2> QED
      BY <1>0, <1>1, <1>2, <2>1, <2>2, <2>3, DataDeliveryKeeps
  <1>5. CASE k = "eof"
    <2>1. late'["data"] = late["data"] /\ late'["eof"] = late["eof"] - 1 /\ late["eof"] > 0
      BY <1>1, <1>5 DEF Kind
    <2>2. EofReadDelivered(st) /\ eofOps # 0
      <3>1. readOps = 0
        BY <2>1 DEF Sound, EndOfFile
      <3>2. eofOps # 0
        BY <2>1, Told
      <3> QED
        BY <1>1, <3>1, <3>2 DEF DataReadDelivered
    <2>3. EofReads(st) + late'["eof"] = EofReads(st) + late["eof"] - 1
      BY <1>3, <2>1
    <2> QED
      BY <1>0, <1>1, <1>2, <2>1, <2>2, <2>3, EofDeliveryKeeps
  <1> QED
    BY <1>4, <1>5 DEF Kind

-----------------------------------------------------------------------------
(* The invariant and the theorems *)

\* One step of any kind, from a sound state.
LEMMA SoundStep == TypeOK /\ Sound /\ [Next]_vars => Kept
  <1> SUFFICES ASSUME TypeOK, Sound, [Next]_vars
               PROVE  Kept
    OBVIOUS
  <1>1. CASE OpenStep
    BY <1>1, OpenKeeps
  <1>2. ASSUME NEW o \in Op, Check(o) \/ DriverStep(o) \/ Kickout(o) \/ CallbackReturns(o)
        PROVE  Kept
    BY <1>2, MoveKeeps, ReturnKeeps, FailKeeps DEF DriverStep
  <1>3. ASSUME NEW o \in Read, PassRead(o) \/ FinishedEof(o)
        PROVE  Kept
    BY <1>3, PassReadKeeps, EofKeeps
  <1>4. ASSUME NEW o \in Write, PassWrite(o)
        PROVE  Kept
    BY <1>4, PassWriteKeeps
  <1>5. CASE Deliver
    BY <1>5, CallbackDeliveryKeeps, PassDeliveryKeeps, LateDeliveryKeeps DEF Deliver
  <1>6. CASE PendingStep
    BY <1>6, PendingKeeps
  <1>7. CASE CloseStep
    BY <1>7, CloseKeeps
  <1>8. CASE UNCHANGED vars
    BY <1>8 DEF vars, Kept, Sound, Owing, Opening, Closing, Referenced, EndOfFile,
       CountersExact, Count, Nothing, Pending, Parked
  <1> QED
    BY <1>1, <1>2, <1>3, <1>4, <1>5, <1>6, <1>7, <1>8 DEF Next

\* A failed assertion is not forgotten.
LEMMA AbortLasts == aborted /\ [Next]_vars => aborted'
  <1> SUFFICES ASSUME aborted, [Next]_vars
               PROVE  aborted'
    OBVIOUS
  <1> USE DEF Insist
  <1>1. CASE OpenStep
    BY <1>1 DEF OpenStep, PassOpen, PassOpenFails, FinishedOpen, OpenKickout, OpenDelivered
  <1>2. ASSUME NEW o \in Op, Check(o) \/ DriverStep(o) \/ Kickout(o) \/ CallbackReturns(o)
        PROVE  aborted'
    BY <1>2 DEF Check, DriverStep, Kickout, CallbackReturns, PassReturns, PassFails, Finished,
       StartAfterFailure
  <1>3. ASSUME NEW o \in Read, PassRead(o) \/ FinishedEof(o)
        PROVE  aborted'
    BY <1>3 DEF PassRead, FinishedEof
  <1>4. ASSUME NEW o \in Write, PassWrite(o)
        PROVE  aborted'
    BY <1>4 DEF PassWrite
  <1>5. CASE Deliver
    <2>1. \A f : WriteDelivered(f) \/ EofReadDelivered(f) \/ DataReadDelivered(f) => aborted'
      BY DEF WriteDelivered, EofReadDelivered, DataReadDelivered
    <2> QED
      BY <1>5, <2>1 DEF Deliver, DeliverFromCallback, DeliverFromPass, DeliverLate, Delivered
  <1>6. CASE PendingStep
    BY <1>6 DEF PendingStep, PendingBegin, PendingDump, PendingDispatch, PendingEnd
  <1>7. CASE CloseStep
    BY <1>7 DEF CloseStep, PassClose, StartClose, FinishedClose, PassCloseFails
  <1>8. CASE UNCHANGED vars
    BY <1>8 DEF vars
  <1> QED
    BY <1>1, <1>2, <1>3, <1>4, <1>5, <1>6, <1>7, <1>8 DEF Next

LEMMA InvStep == ContextInv /\ [Next]_vars => ContextInv'
  BY TypeStep, SoundStep, AbortLasts DEF ContextInv, Kept

LEMMA Invariance == Spec => []ContextInv
  BY InitSound, InvStep, PTL DEF Spec

\* What a sound state says about the close and about end of file.
LEMMA BarrierHolds ==
  ASSUME TypeOK, Sound, ~RacyUser
  PROVE  CloseBarrier
  <1>1. ASSUME closeSt \in Started
        PROVE  /\ \A o \in Op : st[o] \in {"idle", "cb"} /\ passOwes[o] = "no"
               /\ \A k \in Kind : late[k] = 0
               /\ openSt = "delivered" /\ due = 0
    <2>1. /\ outstanding = 0 /\ openSt \in {"callback", "delivered"}
          /\ \A o \in Op : st[o] # "checked"
      BY <1>1 DEF Sound, Closing, Started
    <2> QED
      BY <2>1, Told DEF Undelivered
  <1>2. closeCalls <= 1
    BY DEF Sound, Closing, TypeOK
  <1>3. ref \in {0, 1}
    BY DEF Sound, Referenced
  <1> QED
    BY <1>1, <1>2, <1>3 DEF CloseBarrier, Started

LEMMA EofHolds ==
  ASSUME TypeOK, Sound
  PROVE  EofAfterData
  BY Told DEF Sound, EndOfFile, EofAfterData, DataStates

\* The fields of the entry keep their types and no thread count becomes negative, whatever
\* the user does.
THEOREM TypeCorrect == Spec => []TypeOK
  BY Invariance, PTL DEF ContextInv

\* read_operations, eof_operations and outstanding_operations count what they are named for
\* in every state up to the first failed assertion, also of a user that races its close.
THEOREM CountersRight == Spec => [](NoAssertFails => CountersExact)
  <1>1. ContextInv => (NoAssertFails => CountersExact)
    BY DEF ContextInv, NoAssertFails, Sound
  <1> QED
    BY <1>1, Invariance, PTL

\* End of file is delivered after the data reads it overtook, up to the first failed
\* assertion, also of a user that races its close.
THEOREM EndOfFileLast == Spec => [](NoAssertFails => EofAfterData)
  <1>1. ContextInv => (NoAssertFails => EofAfterData)
    BY EofHolds DEF ContextInv, NoAssertFails
  <1> QED
    BY <1>1, Invariance, PTL

\* The close reaches the driver once, after everything passed before it is delivered, and
\* the entry's reference is dropped once; the user may close without cancelling, but not
\* between its check and its pass.
THEOREM BarrierKept == ASSUME ~RacyUser PROVE Spec => [](NoAssertFails => CloseBarrier)
  <1>1. ContextInv => (NoAssertFails => CloseBarrier)
    BY BarrierHolds DEF ContextInv, NoAssertFails
  <1> QED
    BY <1>1, Invariance, PTL

\* No globus_assert of the pass layer fails for a user that neither races its close nor
\* closes without cancelling.
THEOREM NoAssertion == ASSUME Disciplined PROVE Spec => []NoAssertFails
  <1>1. Init => NoAssertFails
    BY DEF Init, NoAssertFails
  <1>2. ContextInv /\ NoAssertFails /\ [Next]_vars => NoAssertFails'
    BY SoundStep DEF ContextInv, NoAssertFails, Kept
  <1> QED
    BY <1>1, <1>2, Invariance, PTL DEF Spec

\* So for that user the counters are exact, the close barrier holds and end of file comes
\* last, without a proviso.
THEOREM DisciplinedSafe ==
  ASSUME Disciplined
  PROVE  Spec => [](CountersExact /\ CloseBarrier /\ EofAfterData)
  <1>1. ~RacyUser
    BY DEF Disciplined
  <1> QED
    BY <1>1, NoAssertion, CountersRight, EndOfFileLast, BarrierKept, PTL

=============================================================================
