------------------------ MODULE CommandLedgerProofs -------------------------
(***************************************************************************)
(* CommandLifecycle implements CommandLedger, for every finite set of      *)
(* commands, every mix of actions and every bound of the queues: nothing   *)
(* is proved from Assumed.  Rests on the invariant of                      *)
(* CommandLifecycleProofs, and on a count: a success shown and an ok ack   *)
(* still on its way are each paid for by an execution of its own.          *)
(***************************************************************************)
EXTENDS CommandLifecycleProofs, FunctionTheorems

OkAck(m) == m.topic = "ack" /\ m.action = "set" /\ m.status = "ok"
OkAcks == {i \in 1 .. Len(up) : OkAck(up[i])}
SetsSucceeded == {c \in Commands : ActionOf[c] = "set" /\ row[c].status = "success"}

\* okays stops counting at the number of commands.
Budget ==
    \/ okays = Cardinality(Commands)
    \/ Cardinality(SetsSucceeded) + Cardinality(OkAcks) <= okays

\* at numbers the rows in the order in which they were created.
RowsOrdered ==
    /\ \A c \in Commands : row[c].status # "absent" => row[c].at > 0
    /\ \A c \in Commands : row[c].at <= Cardinality(Recorded)
    /\ \A c, d \in Commands : row[c].at = row[d].at /\ row[c].at > 0 => c = d

\* A message that stands for a command is of the command's action.
Named(m) == m.of \in Commands => m.action = ActionOf[m.of]
WireNamed == \A i \in 1 .. Len(wire) : Named(wire[i])

\* The inductive invariant, on top of IInv.
LInv == RowsOrdered /\ Budget

\* What a step may do to the ledger.
LedgerStep == [Ledger!Next]_(Ledger!vars)

-----------------------------------------------------------------------------
(* Counting.                                                                *)

LEMMA QueueFinite ==
    ASSUME NEW q \in Seq(ToWorker)
    PROVE  /\ IsFiniteSet({i \in 1 .. Len(q) : OkAck(q[i])})
           /\ Cardinality({i \in 1 .. Len(q) : OkAck(q[i])}) \in Nat
<1>1. Len(q) \in Nat /\ IsFiniteSet(1 .. Len(q))
  BY LenProperties, FS_Interval
<1>2. IsFiniteSet({i \in 1 .. Len(q) : OkAck(q[i])})
  BY <1>1, FS_Subset
<1> QED BY <1>2, FS_CardinalityType

\* The acks on their way after a step.
LEMMA NextFinite ==
    ASSUME TypeOK'
    PROVE  IsFiniteSet(OkAcks') /\ Cardinality(OkAcks') \in Nat
<1>1. up' \in Seq(ToWorker)
  BY DEF TypeOK
<1> QED BY <1>1, QueueFinite DEF OkAcks

LEMMA Finite ==
    ASSUME TypeOK
    PROVE  /\ IsFiniteSet(OkAcks) /\ Cardinality(OkAcks) \in Nat
           /\ IsFiniteSet(SetsSucceeded) /\ Cardinality(SetsSucceeded) \in Nat
           /\ Cardinality(SetsSucceeded) <= Cardinality(Commands)
           /\ okays \in Nat
<1>3. IsFiniteSet(OkAcks) /\ Cardinality(OkAcks) \in Nat
  BY TypeParts, QueueFinite DEF OkAcks
<1>4. SetsSucceeded \in SUBSET Commands
  BY DEF SetsSucceeded
<1>5. /\ IsFiniteSet(SetsSucceeded) /\ Cardinality(SetsSucceeded) \in Nat
      /\ Cardinality(SetsSucceeded) <= Cardinality(Commands)
  BY <1>4, ConstantFacts, FS_Subset, FS_CardinalityType
<1>6. okays \in Nat
  BY ConstantFacts DEF TypeOK
<1> QED BY <1>3, <1>5, <1>6

\* Taking a message off the queue takes its ack off the count.
LEMMA TakeCounts ==
    ASSUME TypeOK, TypeOK', up # <<>>, up' = Tail(up)
    PROVE  Cardinality(OkAcks') = IF OkAck(Head(up)) THEN Cardinality(OkAcks) - 1
                                  ELSE Cardinality(OkAcks)
<1>1. up \in Seq(ToWorker) /\ Len(up) \in Nat \ {0}
  BY TypeParts, EmptySeq
<1>2. /\ up' \in Seq(ToWorker) /\ Len(up') = Len(up) - 1
      /\ \A i \in 1 .. Len(up') : up'[i] = up[i + 1]
  BY <1>1, HeadTailProperties
<1>3. Head(up) = up[1]
  BY <1>1
<1> DEFINE Rest == OkAcks \ {1}
           next == [i \in OkAcks' |-> i + 1]
<1>4. next \in Bijection(OkAcks', Rest)
  <2>1. \A i \in OkAcks' : i \in 1 .. Len(up') /\ i + 1 \in Rest
    BY <1>1, <1>2 DEF OkAcks
  <2>2. \A j \in Rest : j - 1 \in OkAcks' /\ j = (j - 1) + 1
    BY <1>1, <1>2 DEF OkAcks
  <2>3. next \in [OkAcks' -> Rest]
    BY <2>1
  <2>4. \A i, j \in OkAcks' : next[i] = next[j] => i = j
    BY <2>1
  <2>5. \A j \in Rest : \E i \in OkAcks' : next[i] = j
    BY <2>2
  <2> QED BY <2>3, <2>4, <2>5, Fun_IsBij
<1>5. Cardinality(OkAcks') = Cardinality(Rest)
  <2>1. IsFiniteSet(OkAcks')
    BY NextFinite
  <2>2. ExistsBijection(OkAcks', Rest)
    BY <1>4 DEF ExistsBijection
  <2> QED BY <2>1, <2>2, FS_Bijection
<1>6. Cardinality(Rest) = IF 1 \in OkAcks THEN Cardinality(OkAcks) - 1 ELSE Cardinality(OkAcks)
  BY Finite, FS_RemoveElement
<1>7. 1 \in OkAcks <=> OkAck(Head(up))
  BY <1>1, <1>3 DEF OkAcks
<1> QED BY <1>5, <1>6, <1>7

LEMMA SendCounts ==
    ASSUME TypeOK, NEW m \in ToWorker, Send(m)
    PROVE  Cardinality(OkAcks') = IF OkAck(m) THEN Cardinality(OkAcks) + 1
                                  ELSE Cardinality(OkAcks)
<1>1. up \in Seq(ToWorker) /\ Len(up) \in Nat
  BY TypeParts, LenProperties
<1>2. /\ Len(up') = Len(up) + 1
      /\ \A i \in 1 .. Len(up) : up'[i] = up[i]
      /\ up'[Len(up) + 1] = m
  BY <1>1, AppendProperties DEF Send
<1>3. OkAcks' = IF OkAck(m) THEN OkAcks \cup {Len(up) + 1} ELSE OkAcks
  BY <1>1, <1>2 DEF OkAcks
<1>4. Len(up) + 1 \notin OkAcks
  BY <1>1 DEF OkAcks
<1> QED BY <1>3, <1>4, Finite, FS_AddElement

\* An empty queue holds no ack.
LEMMA LossCounts == ASSUME up' = <<>> PROVE Cardinality(OkAcks') = 0
<1>1. OkAcks' = {}
  BY EmptySeq DEF OkAcks
<1> QED BY <1>1, FS_EmptySet

\* Fewer acks on their way, with the same rows and executions, keep the budget.
LEMMA BudgetKept ==
    ASSUME TypeOK, Budget, okays' = okays,
           SetsSucceeded' \subseteq SetsSucceeded,
           Cardinality(OkAcks') \in Nat, Cardinality(OkAcks') <= Cardinality(OkAcks)
    PROVE  Budget'
<1>1. /\ Cardinality(SetsSucceeded') <= Cardinality(SetsSucceeded)
      /\ Cardinality(SetsSucceeded') \in Nat
  BY Finite, FS_Subset, FS_CardinalityType
<1> QED BY <1>1, Finite DEF Budget

-----------------------------------------------------------------------------
(* Steps that leave the rows and the executions alone.                      *)

LEMMA OrderKept == ASSUME RowsOrdered, row' = row PROVE RowsOrdered'
BY DEF RowsOrdered, Recorded

\* Such a step keeps the budget whatever it does to the queue, as long as it
\* sends no ok ack.
LEMMA QuietStep ==
    ASSUME IInv, IInv', LInv, UNCHANGED <<row, okays>>,
           \/ up' = up
           \/ up' = <<>>
           \/ up # <<>> /\ up' = Tail(up)
           \/ \E m \in ToWorker : Send(m) /\ ~OkAck(m)
    PROVE  LInv'
<1>1. Cardinality(OkAcks') \in Nat /\ Cardinality(OkAcks') <= Cardinality(OkAcks)
  <2>1. Cardinality(OkAcks) \in Nat
    BY Finite DEF IInv
  <2>2. CASE up' = up
    BY <2>1, <2>2 DEF OkAcks
  <2>3. CASE up' = <<>>
    BY <2>1, <2>3, LossCounts
  <2>4. CASE up # <<>> /\ up' = Tail(up)
    <3>1. Cardinality(OkAcks') \in Nat
      BY NextFinite DEF IInv
    <3> QED BY <2>1, <2>4, <3>1, TakeCounts DEF IInv
  <2>5. CASE \E m \in ToWorker : Send(m) /\ ~OkAck(m)
    BY <2>1, <2>5, SendCounts DEF IInv
  <2> QED BY <2>2, <2>3, <2>4, <2>5
<1>2. SetsSucceeded' = SetsSucceeded
  BY DEF SetsSucceeded
<1> QED BY <1>1, <1>2, BudgetKept, OrderKept DEF LInv, IInv

\* The ledger does not notice a step that changes no status, counts no
\* execution and flashes nothing.
LEMMA Unnoticed ==
    ASSUME \A c \in Commands : Shown(c)' = Shown(c), okays' = okays,
           \A c \in Commands : ActionOf[c] = "ota_update" =>
              ("ok" \in outcome'[c] <=> "ok" \in outcome[c])
    PROVE  LedgerStep
<1>1. UNCHANGED [c \in Commands |-> Shown(c)]
  OBVIOUS
<1>2. UNCHANGED UpdatesRun
  BY DEF UpdatesRun
<1> QED BY <1>1, <1>2 DEF LedgerStep, Ledger!vars

LEMMA SameRows ==
    ASSUME UNCHANGED <<row, okays, outcome>>
    PROVE  LedgerStep
BY Unnoticed DEF Shown

-----------------------------------------------------------------------------
(* Steps that mark rows.                                                    *)

\* Marking leaves the order of the rows alone, and the ledger sees what was
\* marked.
LEMMA MarkShown ==
    ASSUME IInv, LInv, NEW cs \in SUBSET Commands, NEW s \in Statuses,
           row' = Marked(cs, s), \A c \in cs : row[c].status # "absent"
    PROVE  /\ RowsOrdered'
           /\ \A c \in Commands :
                 Shown(c)' = IF c \notin cs THEN Shown(c)
                             ELSE IF s = "absent" THEN "deleted" ELSE s
           /\ \A c \in Commands :
                 row'[c].status = IF c \in cs THEN s ELSE row[c].status
<1>1. row \in [Commands -> RowType]
  BY TypeParts DEF IInv
<1>2. \A c \in Commands :
        /\ row'[c].at = row[c].at
        /\ row'[c].status = IF c \in cs THEN s ELSE row[c].status
  BY <1>1 DEF Marked, RowType
<1>3. Recorded' = Recorded
  BY <1>2 DEF Recorded
<1>4. \A c \in cs : row[c].at > 0
  BY DEF LInv, RowsOrdered
<1>5. RowsOrdered'
  BY <1>2, <1>3, <1>4 DEF LInv, RowsOrdered
<1>6. \A c \in cs : row[c].at # 0
  BY <1>1, <1>4, ConstantFacts DEF RowType
<1>7. \A c \in Commands :
        Shown(c)' = IF c \notin cs THEN Shown(c)
                    ELSE IF s = "absent" THEN "deleted" ELSE s
  BY <1>2, <1>6 DEF Shown
<1> QED BY <1>2, <1>5, <1>7

\* The ledger's view of a pending, and of an existing, row.
LEMMA ShownFacts ==
    ASSUME IInv, LInv, NEW c \in Commands
    PROVE  /\ row[c].status = "pending" <=> Shown(c) = "pending"
           /\ row[c].status = "success" <=> Shown(c) = "success"
           /\ row[c].status # "absent" => Shown(c) \notin {"unsent", "deleted"}
<1>1. row[c].status \in Statuses /\ row[c].at \in Nat
  BY TypeParts, ConstantFacts DEF IInv, RowType
<1>2. row[c].status # "absent" => row[c].at # 0
  BY <1>1 DEF LInv, RowsOrdered
<1> QED BY <1>1, <1>2 DEF Shown, Statuses, Terminal

\* A marking as failed, timed out or deleted needs no budget.
LEMMA MarkBudget ==
    ASSUME IInv, IInv', LInv, NEW cs \in SUBSET Commands, NEW s \in Statuses \ {"success"},
           row' = Marked(cs, s), \A c \in cs : row[c].status # "absent",
           UNCHANGED okays, up' = up \/ (up # <<>> /\ up' = Tail(up))
    PROVE  LInv'
<1>1. RowsOrdered' /\ SetsSucceeded' \subseteq SetsSucceeded
  <2>1. s \in Statuses /\ s # "success"
    OBVIOUS
  <2>2. /\ RowsOrdered'
        /\ \A c \in Commands : row'[c].status = IF c \in cs THEN s ELSE row[c].status
    BY <2>1, MarkShown
  <2> QED BY <2>1, <2>2 DEF SetsSucceeded
<1>2. Cardinality(OkAcks') \in Nat
  BY NextFinite DEF IInv
<1>3. Cardinality(OkAcks') <= Cardinality(OkAcks)
  <2>1. Cardinality(OkAcks) \in Nat
    BY Finite DEF IInv
  <2>2. CASE up' = up
    BY <2>1, <2>2 DEF OkAcks
  <2>3. CASE up # <<>> /\ up' = Tail(up)
    BY <2>1, <2>3, TakeCounts DEF IInv
  <2> QED BY <2>2, <2>3
<1> QED BY <1>1, <1>2, <1>3, BudgetKept DEF LInv, IInv

\* How the ledger sees a marking.
LEMMA LedgerMarks ==
    ASSUME IInv, LInv, NEW cs \in SUBSET Commands, NEW s \in Statuses,
           row' = Marked(cs, s), \A c \in cs : row[c].status # "absent",
           UNCHANGED <<okays, outcome>>
    PROVE  /\ s = "absent" => Ledger!Delete(cs)
           /\ s # "absent" => Ledger!Become(cs, s)
           /\ UNCHANGED <<okays, UpdatesRun>>
<1>1. \A c \in Commands :
        Shown(c)' = IF c \notin cs THEN Shown(c)
                    ELSE IF s = "absent" THEN "deleted" ELSE s
  BY MarkShown
<1>2. UNCHANGED UpdatesRun
  BY DEF UpdatesRun
<1>3. \A c \in cs : Shown(c) \notin {"unsent", "deleted"}
  BY ShownFacts
<1> QED BY <1>1, <1>2, <1>3 DEF Ledger!Delete, Ledger!Become

-----------------------------------------------------------------------------
(* The actions.                                                             *)

LEMMA LInit == Init => LInv /\ Ledger!Init
<1> SUFFICES ASSUME Init PROVE LInv /\ Ledger!Init
  OBVIOUS
<1>1. Recorded = {} /\ SetsSucceeded = {} /\ OkAcks = {}
  BY EmptySeq DEF Init, Recorded, SetsSucceeded, OkAcks
<1>2. Budget
  BY <1>1, FS_EmptySet DEF Init, Budget
<1>3. RowsOrdered
  BY <1>1, FS_EmptySet DEF Init, RowsOrdered
<1>4. Ledger!Init
  BY DEF Init, Ledger!Init, Shown, UpdatesRun
<1> QED BY <1>2, <1>3, <1>4 DEF LInv

LEMMA RecordLedger ==
    ASSUME IInv, IInv', LInv, NEW c \in Commands, ViewRecord(c)
    PROVE  LInv' /\ LedgerStep
<1>1. row[c].at = 0 /\ row[c].status = "absent"
  BY DEF IInv, RowsBegin, ViewRecord
<1>2. row \in [Commands -> RowType]
  BY TypeParts DEF IInv
<1>3. Recorded \in SUBSET Commands /\ c \notin Recorded
  BY <1>1 DEF Recorded
<1>4. IsFiniteSet(Recorded) /\ Cardinality(Recorded) \in Nat
  BY <1>3, ConstantFacts, FS_Subset, FS_CardinalityType
<1>5. /\ row'[c].at = Cardinality(Recorded) + 1 /\ row'[c].status = "pending"
      /\ \A d \in Commands \ {c} : row'[d] = row[d]
  BY <1>2 DEF ViewRecord
<1>6. Recorded' = Recorded \cup {c}
  BY <1>3, <1>4, <1>5 DEF Recorded
<1>7. Cardinality(Recorded') = Cardinality(Recorded) + 1
  BY <1>3, <1>4, <1>6, FS_AddElement
<1>8. \A d \in Commands : row[d].at \in Nat
  BY <1>2, ConstantFacts DEF RowType
<1>9. RowsOrdered'
  BY <1>4, <1>5, <1>7, <1>8 DEF LInv, RowsOrdered
<1>10. SetsSucceeded' = SetsSucceeded /\ OkAcks' = OkAcks /\ okays' = okays
  BY <1>1, <1>5 DEF SetsSucceeded, OkAcks, ViewRecord
<1>11. Budget'
  BY <1>10 DEF LInv, Budget
<1>12. Ledger!Record(c)
  <2>1. Shown(c) = "unsent" /\ Shown(c)' = "pending"
    BY <1>1, <1>4, <1>5 DEF Shown
  <2>2. \A d \in Commands \ {c} : Shown(d)' = Shown(d)
    BY <1>5 DEF Shown
  <2>3. UNCHANGED <<okays, UpdatesRun>>
    BY DEF ViewRecord, UpdatesRun
  <2> QED BY <2>1, <2>2, <2>3 DEF Ledger!Record, Ledger!Become
<1> QED BY <1>9, <1>11, <1>12 DEF LInv, LedgerStep, Ledger!Next

LEMMA DeleteLedger ==
    ASSUME IInv, IInv', LInv, NEW cs \in SUBSET Commands, DeleteCommands(cs)
    PROVE  LInv' /\ LedgerStep
<1>1. /\ row' = Marked(cs, "absent") /\ \A c \in cs : row[c].status # "absent"
      /\ UNCHANGED <<okays, up, outcome>>
      /\ "absent" \in Statuses \ {"success"}
  BY DEF DeleteCommands, Statuses
<1>2. LInv'
  BY <1>1, MarkBudget
<1>3. Ledger!Delete(cs)
  BY <1>1, LedgerMarks
<1> QED BY <1>2, <1>3 DEF LedgerStep, Ledger!Next

LEMMA LateLedger ==
    ASSUME IInv, LInv, NEW c \in Commands, UpdateIsLate(c)
    PROVE  LInv' /\ LedgerStep
<1>1. row \in [Commands -> RowType]
  BY TypeParts DEF IInv
<1>2. \A d \in Commands : row'[d].at = row[d].at /\ row'[d].status = row[d].status
  BY <1>1 DEF UpdateIsLate, RowType
<1>3. UNCHANGED <<Recorded, SetsSucceeded, OkAcks, okays, outcome>>
  BY <1>2 DEF Recorded, SetsSucceeded, OkAcks, UpdateIsLate
<1>4. LInv'
  BY <1>2, <1>3 DEF LInv, RowsOrdered, Budget
<1>5. LedgerStep
  BY <1>2, <1>3, Unnoticed DEF Shown
<1> QED BY <1>4, <1>5

-----------------------------------------------------------------------------
(* The worker.                                                              *)

\* Late updates, and requests that went unanswered.
LEMMA TimeOutLedger ==
    ASSUME IInv, IInv', LInv,
           SensorContinues \/ \E sent \in BOOLEAN, taken \in SUBSET Commands : SensorWakesUp(sent, taken)
    PROVE  LInv' /\ LedgerStep
<1>1. PICK cs \in SUBSET Commands :
        /\ row' = Marked(cs, "timeout")
        /\ \A c \in cs : row[c].status = "pending" /\ ActionOf[c] # "set"
  <2>1. /\ LateUpdates \in SUBSET Commands
        /\ LateUpdates \cup Pending("request_capabilities") \in SUBSET Commands
        /\ \A c \in LateUpdates \cup Pending("request_capabilities") :
              row[c].status = "pending" /\ ActionOf[c] # "set"
    BY DEF LateUpdates, Pending
  <2>2. CASE SensorContinues /\ work = "timeout"
    BY <2>1, <2>2 DEF SensorContinues
  <2>3. CASE SensorContinues /\ work # "timeout"
    BY <2>1, <2>3 DEF SensorContinues
  <2>4. CASE \E sent \in BOOLEAN, taken \in SUBSET Commands : SensorWakesUp(sent, taken)
    BY <2>1, <2>4 DEF SensorWakesUp
  <2> QED BY <2>2, <2>3, <2>4
<1>2. UNCHANGED <<okays, up, outcome>>
  BY DEF SensorContinues, SensorWakesUp
<1>3. "timeout" \in Statuses \ {"success"} /\ "timeout" # "absent"
  BY DEF Statuses, Terminal
<1>4. \A c \in cs : row[c].status # "absent"
  BY <1>1
<1>5. LInv'
  BY <1>1, <1>2, <1>3, <1>4, MarkBudget
<1>6. Ledger!Become(cs, "timeout") /\ UNCHANGED <<okays, UpdatesRun>>
  BY <1>1, <1>2, <1>3, <1>4, LedgerMarks
<1>7. \A c \in cs : Shown(c) = "pending"
  BY <1>1, ShownFacts
<1>8. Ledger!TimeOut(cs)
  BY <1>1, <1>6, <1>7 DEF Ledger!TimeOut, Ledger!Pending, Ledger!Of
<1> QED BY <1>5, <1>8 DEF LedgerStep, Ledger!Next

\* The ledger counts as the model does.
LEMMA SameCount == \A S : Ledger!Cardinality(S) = Cardinality(S)
BY DEF Ledger!Cardinality, Cardinality

\* A marking as successful: the ledger accepts it when the budget allows.
LEMMA SuccessLedger ==
    ASSUME IInv, LInv, LInv', IInv', NEW cs \in SUBSET Commands,
           row' = Marked(cs, "success"), \A c \in cs : row[c].status = "pending",
           \A c \in cs : ActionOf[c] = "ota_update" => Ran(c),
           UNCHANGED <<okays, outcome>>,
           Cardinality(SetsSucceeded') <= okays
    PROVE  LedgerStep
<1>1. "success" \in Statuses /\ "success" # "absent"
  BY DEF Statuses, Terminal
<1>2. \A c \in cs : row[c].status # "absent"
  OBVIOUS
<1>3. Ledger!Become(cs, "success") /\ UNCHANGED <<okays, UpdatesRun>>
  BY <1>1, <1>2, LedgerMarks
<1>4. \A c \in cs : Shown(c) = "pending"
  BY ShownFacts
<1>5. cs \cap Ledger!Of("ota_update") \subseteq UpdatesRun
  BY DEF Ledger!Of, UpdatesRun, Ran
<1>6. Ledger!Succeeded' = SetsSucceeded'
  <2>1. \A c \in Commands :
          /\ Shown(c)' = IF c \notin cs THEN Shown(c) ELSE "success"
          /\ row'[c].status = IF c \in cs THEN "success" ELSE row[c].status
    BY <1>1, <1>2, MarkShown
  <2>2. \A c \in Commands : Shown(c)' = "success" <=> row'[c].status = "success"
    BY <2>1, ShownFacts
  <2> QED BY <2>2 DEF Ledger!Succeeded, Ledger!Of, SetsSucceeded
<1>7. cs \subseteq Ledger!Pending
  BY <1>4 DEF Ledger!Pending
<1>8. Ledger!Cardinality(Ledger!Succeeded') <= okays
  BY <1>6, SameCount
<1>9. Ledger!Succeed(cs)
  BY <1>3, <1>5, <1>7, <1>8 DEF Ledger!Succeed
<1> QED BY <1>9 DEF LedgerStep, Ledger!Next

\* No success is invented: the budget, whether or not it still counts.
LEMMA BudgetPays ==
    ASSUME TypeOK, Budget
    PROVE  Cardinality(SetsSucceeded) <= okays
BY Finite DEF Budget

LEMMA CapabilitiesLedger ==
    ASSUME IInv, IInv', LInv, HandleCapabilities
    PROVE  LInv' /\ LedgerStep
<1> USE DEF HandleCapabilities
<1>1. up # <<>> /\ up' = Tail(up) /\ Head(up).topic = "capabilities"
  BY DEF Taken
<1>2. Answered \in SUBSET Commands /\ \A c \in Answered : row[c].status = "pending"
  BY DEF Answered, Pending
<1>3. \A c \in Answered : ActionOf[c] # "set"
  BY DEF Answered, Pending
<1>4. Claims(Head(up), outcome)
  BY TakeStep DEF IInv
<1>5. \A c \in Answered : ActionOf[c] = "ota_update" => Ran(c)
  BY <1>1, <1>4 DEF Answered, Pending, Claims, Ran
<1>6. "success" \in Statuses
  BY DEF Statuses, Terminal
<1>7. \A c \in Answered : row[c].status # "absent"
  BY <1>2
<1>8. /\ RowsOrdered'
      /\ \A c \in Commands :
            row'[c].status = IF c \in Answered THEN "success" ELSE row[c].status
  BY <1>2, <1>6, <1>7, MarkShown
<1>9. SetsSucceeded' = SetsSucceeded
  BY <1>2, <1>3, <1>8 DEF SetsSucceeded
<1>10. Cardinality(OkAcks') \in Nat /\ Cardinality(OkAcks') <= Cardinality(OkAcks)
  <2>1. Cardinality(OkAcks') = Cardinality(OkAcks)
    BY <1>1, TakeCounts DEF IInv, OkAck
  <2> QED BY <2>1, Finite DEF IInv
<1>11. LInv'
  BY <1>8, <1>9, <1>10, BudgetKept DEF LInv, IInv
<1>12. Cardinality(SetsSucceeded') <= okays
  BY <1>9, BudgetPays DEF LInv, IInv
<1>13. LedgerStep
  BY <1>2, <1>5, <1>11, <1>12, SuccessLedger
<1> QED BY <1>11, <1>13

\* An ack concludes at most one row: the newest pending one of its action.
LEMMA LatestIsOne ==
    ASSUME IInv, LInv, NEW action
    PROVE  \A c, d \in Latest(Pending(action)) : c = d
<1>1. \A c \in Commands : row[c].at \in Nat
  BY TypeParts, ConstantFacts DEF IInv, RowType
<1>2. ASSUME NEW c \in Latest(Pending(action)), NEW d \in Latest(Pending(action))
      PROVE  c = d
  <2>1. c \in Commands /\ d \in Commands /\ row[c].status # "absent"
    BY DEF Latest, Pending
  <2>2. row[c].at <= row[d].at /\ row[d].at <= row[c].at
    BY DEF Latest
  <2>3. row[c].at = row[d].at /\ row[c].at > 0
    BY <1>1, <2>1, <2>2 DEF LInv, RowsOrdered
  <2> QED BY <2>1, <2>3 DEF LInv, RowsOrdered
<1> QED BY <1>2

LEMMA AckLedger ==
    ASSUME IInv, IInv', LInv, HandleAck
    PROVE  LInv' /\ LedgerStep
<1> USE DEF HandleAck
<1> DEFINE cs == Latest(Pending(Head(up).action))
           status == IF Head(up).status = "ok" THEN "success" ELSE "failed"
<1>1. /\ up # <<>> /\ up' = Tail(up) /\ Head(up).topic = "ack"
      /\ UNCHANGED <<okays, outcome>> /\ row' = Marked(cs, status)
  BY DEF Taken
<1>2. /\ cs \in SUBSET Commands
      /\ \A c \in cs : row[c].status = "pending" /\ ActionOf[c] = Head(up).action
  BY DEF Latest, Pending
<1>3. \A c, d \in cs : c = d
  BY LatestIsOne
<1>4. Claims(Head(up), outcome)
  BY TakeStep DEF IInv
<1>5. CASE Head(up).status = "ok"
  <2>1. row' = Marked(cs, "success") /\ "success" \in Statuses
    BY <1>1, <1>5 DEF Statuses, Terminal
  <2>2. \A c \in cs : ActionOf[c] # "ota_update"
    BY <1>1, <1>2, <1>4, <1>5 DEF Claims
  <2> HIDE DEF cs
  <2>3. \A c \in cs : row[c].status # "absent"
    BY <1>2
  <2>4. /\ RowsOrdered'
        /\ \A c \in Commands :
              row'[c].status = IF c \in cs THEN "success" ELSE row[c].status
    BY <1>2, <2>1, <2>3, MarkShown
  <2>5. Cardinality(OkAcks') =
          IF Head(up).action = "set" THEN Cardinality(OkAcks) - 1 ELSE Cardinality(OkAcks)
    BY <1>1, <1>5, TakeCounts DEF IInv, OkAck
  <2>6. Budget'
    <3>1. CASE Head(up).action = "set" /\ cs # {}
      <4>1. PICK c \in cs : TRUE
        BY <3>1
      <4>2. c \in Commands /\ ActionOf[c] = "set" /\ row[c].status = "pending" /\ cs = {c}
        BY <1>2, <1>3, <3>1, <4>1
      <4>3. SetsSucceeded' = SetsSucceeded \cup {c} /\ c \notin SetsSucceeded
        BY <2>4, <4>2 DEF SetsSucceeded
      <4>4. Cardinality(SetsSucceeded') = Cardinality(SetsSucceeded) + 1
        BY <4>3, Finite, FS_AddElement DEF IInv
      <4> QED BY <1>1, <2>5, <3>1, <4>4, Finite DEF LInv, IInv, Budget
    <3>2. CASE Head(up).action # "set" \/ cs = {}
      <4>1. SetsSucceeded' = SetsSucceeded
        BY <1>2, <2>4, <3>2 DEF SetsSucceeded
      <4>2. Cardinality(OkAcks') \in Nat
        BY NextFinite DEF IInv
      <4>3. Cardinality(OkAcks') <= Cardinality(OkAcks)
        BY <2>5, Finite DEF IInv
      <4> QED BY <1>1, <4>1, <4>2, <4>3, BudgetKept DEF LInv, IInv
    <3> QED BY <3>1, <3>2
  <2>7. LInv'
    BY <2>4, <2>6 DEF LInv
  <2>8. Cardinality(SetsSucceeded') <= okays
    <3>1. SetsSucceeded' \in SUBSET Commands
      BY DEF SetsSucceeded
    <3>2. /\ Cardinality(SetsSucceeded') \in Nat
          /\ Cardinality(SetsSucceeded') <= Cardinality(Commands)
      BY <3>1, ConstantFacts, FS_Subset, FS_CardinalityType
    <3>3. Cardinality(OkAcks') \in Nat
      BY NextFinite DEF IInv
    <3> QED BY <1>1, <2>6, <3>2, <3>3, Finite DEF Budget, IInv
  <2>9. LedgerStep
    BY <1>1, <1>2, <2>1, <2>2, <2>7, <2>8, SuccessLedger
  <2> QED BY <2>7, <2>9
<1>6. CASE Head(up).status # "ok"
  <2>1. row' = Marked(cs, "failed") /\ "failed" \in Statuses \ {"success"}
    BY <1>1, <1>6 DEF Statuses, Terminal
  <2> HIDE DEF cs
  <2>2. \A c \in cs : row[c].status # "absent"
    BY <1>2
  <2>3. LInv'
    BY <1>1, <1>2, <2>1, <2>2, MarkBudget
  <2>4. Ledger!Become(cs, "failed") /\ UNCHANGED <<okays, UpdatesRun>>
    BY <1>1, <1>2, <2>1, <2>2, LedgerMarks
  <2>5. CASE cs = {}
    <3>1. \A c \in Commands : Shown(c)' = Shown(c)
      BY <1>2, <2>1, <2>2, <2>5, MarkShown
    <3> QED BY <1>1, <2>3, <3>1, Unnoticed
  <2>6. CASE cs # {}
    <3>1. PICK c \in cs : cs = {c}
      BY <1>3, <2>6
    <3>2. c \in Commands /\ Shown(c) = "pending"
      BY <1>2, <3>1, ShownFacts
    <3>3. Ledger!Fail(c)
      BY <2>4, <3>1, <3>2 DEF Ledger!Fail, Ledger!Pending
    <3> QED BY <2>3, <3>2, <3>3 DEF LedgerStep, Ledger!Next
  <2> QED BY <2>5, <2>6
<1> QED BY <1>5, <1>6

-----------------------------------------------------------------------------
(* What the device is sent keeps its name.                                  *)

LEMMA NamedPublish ==
    ASSUME TypeOK, WireNamed, NEW ms \in Seq(ToDevice), Publish(ms),
           \A i \in 1 .. Len(ms) : Named(ms[i])
    PROVE  WireNamed'
<1>1. wire \in Seq(ToDevice)
  BY TypeParts
<1>2. \A i \in 1 .. Len(wire \o ms) : Named((wire \o ms)[i])
  <2>1. /\ Len(wire) \in Nat /\ Len(ms) \in Nat
        /\ Len(wire \o ms) = Len(wire) + Len(ms)
        /\ \A i \in 1 .. Len(wire) : (wire \o ms)[i] = wire[i]
        /\ \A i \in 1 .. Len(ms) : (wire \o ms)[Len(wire) + i] = ms[i]
    BY <1>1, ConcatProperties, LenProperties
  <2> SUFFICES ASSUME NEW i \in 1 .. Len(wire \o ms) PROVE Named((wire \o ms)[i])
    OBVIOUS
  <2>2. CASE i \in 1 .. Len(wire)
    BY <2>1, <2>2 DEF WireNamed
  <2>3. CASE i \notin 1 .. Len(wire)
    <3>1. i - Len(wire) \in 1 .. Len(ms) /\ i = Len(wire) + (i - Len(wire))
      BY <2>1, <2>3
    <3>2. (wire \o ms)[i] = ms[i - Len(wire)]
      BY <2>1, <3>1
    <3> QED BY <3>1, <3>2
  <2> QED BY <2>2, <2>3
<1> QED BY <1>2 DEF WireNamed, Publish, Named

LEMMA NamedReceipt ==
    ASSUME TypeOK, WireNamed, wire # <<>>, NEW once \in BOOLEAN, wire' = AfterReceipt(once)
    PROVE  WireNamed'
<1>1. wire \in Seq(ToDevice) /\ Len(wire) \in Nat \ {0}
  BY TypeParts, EmptySeq
<1>2. Len(Tail(wire)) = Len(wire) - 1 /\ \A i \in 1 .. Len(Tail(wire)) : Tail(wire)[i] = wire[i + 1]
  BY <1>1, HeadTailProperties
<1>3. \A i \in 1 .. Len(Tail(wire)) : Named(Tail(wire)[i])
  BY <1>1, <1>2 DEF WireNamed
<1> QED BY <1>3 DEF WireNamed, AfterReceipt, Named

LEMMA NamedLoss == ASSUME wire' = <<>> PROVE WireNamed'
BY EmptySeq DEF WireNamed

LEMMA NamedKept == ASSUME WireNamed, wire' = wire PROVE WireNamed'
BY DEF WireNamed, Named

LEMMA NamedWakeUp ==
    ASSUME TypeOK, WireNamed, NEW sent \in BOOLEAN, NEW taken \in SUBSET Commands,
           SensorWakesUp(sent, taken)
    PROVE  WireNamed'
<1>1. PICK order \in BySentAt(taken) :
        Publish(IF sent THEN Append(Flushed(taken, order), CapsRequest) ELSE Flushed(taken, order))
  BY DEF SensorWakesUp
<1>2. taken \in SUBSET Commands
  OBVIOUS
<1>3. Cardinality(taken) \in Nat
  BY <1>2, ConstantFacts, FS_Subset, FS_CardinalityType
<1>4. \A i \in 1 .. Cardinality(taken) : order[i] \in Commands
  BY <1>1, <1>2 DEF BySentAt
<1>5. /\ Flushed(taken, order) \in Seq(ToDevice)
      /\ \A i \in 1 .. Len(Flushed(taken, order)) : Named(Flushed(taken, order)[i])
  <2>1. \A i \in 1 .. Cardinality(taken) :
          /\ Message(ActionOf[order[i]], order[i]) \in ToDevice
          /\ Named(Message(ActionOf[order[i]], order[i]))
    BY <1>4, ConstantFacts DEF Message, ToDevice, Named
  <2>2. Flushed(taken, order) \in [1 .. Cardinality(taken) -> ToDevice]
    BY <2>1 DEF Flushed
  <2>3. Flushed(taken, order) \in Seq(ToDevice) /\ Len(Flushed(taken, order)) = Cardinality(taken)
    BY <1>3, <2>2
  <2> QED BY <2>1, <2>3 DEF Flushed
<1>6. CapsRequest \in ToDevice /\ Named(CapsRequest)
  BY ConstantFacts DEF CapsRequest, Message, ToDevice, Actions, Named
<1>7. /\ Append(Flushed(taken, order), CapsRequest) \in Seq(ToDevice)
      /\ \A i \in 1 .. Len(Append(Flushed(taken, order), CapsRequest)) :
            Named(Append(Flushed(taken, order), CapsRequest)[i])
  BY <1>5, <1>6, AppendProperties
<1> QED BY <1>1, <1>5, <1>7, NamedPublish

LEMMA NamedView ==
    ASSUME TypeOK, WireNamed, NEW c \in Commands, ViewPublish(c) \/ ViewAsk(c)
    PROVE  WireNamed'
<1>1. PICK m \in ToDevice : Named(m) /\ Publish(<<m>>)
  <2>1. Message(ActionOf[c], c) \in ToDevice /\ Named(Message(ActionOf[c], c))
    BY ConstantFacts DEF Message, ToDevice, Named
  <2>2. CapsRequest \in ToDevice /\ Named(CapsRequest)
    BY ConstantFacts DEF CapsRequest, Message, ToDevice, Actions, Named
  <2> QED BY <2>1, <2>2 DEF ViewPublish, ViewAsk
<1>2. <<m>> \in Seq(ToDevice) /\ \A i \in 1 .. Len(<<m>>) : Named(<<m>>[i])
  BY <1>1
<1> QED BY <1>1, <1>2, NamedPublish

LEMMA NextNamed == ASSUME TypeOK, WireNamed, [Next]_vars PROVE WireNamed'
<1>1. ASSUME NEW c \in Commands, ViewPublish(c) \/ ViewStep(c) \/ UpdateIsLate(c)
      PROVE  WireNamed'
  <2>1. CASE ViewPublish(c) \/ ViewAsk(c)
    BY <2>1, NamedView
  <2>2. CASE ViewRecord(c) \/ ViewAskFails(c) \/ ViewStartClock(c) \/ UpdateIsLate(c)
    BY <2>2, NamedKept DEF ViewRecord, ViewAskFails, ViewStartClock, UpdateIsLate
  <2> QED BY <1>1, <2>1, <2>2 DEF ViewStep
<1>2. ASSUME NEW cs, DeleteCommands(cs) PROVE WireNamed'
  BY <1>2, NamedKept DEF DeleteCommands
<1>3. ASSUME NEW once \in BOOLEAN, Execute(once) PROVE WireNamed'
  <2>1. wire # <<>> /\ (wire' = AfterReceipt(once) \/ wire' = <<>>)
    BY <1>3 DEF Execute, AnswerRequest, ExecuteSet, RefuseUpdate, Flash
  <2> QED BY <2>1, NamedReceipt, NamedLoss
<1>4. CASE Wake \/ Listen \/ PublishSensors \/ PublishOther \/ PublishCapabilities \/ Sleep
  <2>1. wire' = wire \/ wire' = <<>>
    BY <1>4 DEF Wake, Listen, PublishSensors, PublishOther, PublishCapabilities, Sleep
  <2> QED BY <2>1, NamedKept, NamedLoss
<1>5. CASE DeviceStep
  BY <1>3, <1>4, <1>5 DEF DeviceStep
<1>6. CASE Handler
  <2>1. CASE \E sent \in BOOLEAN, taken \in SUBSET Commands : SensorWakesUp(sent, taken)
    BY <2>1, NamedWakeUp
  <2>2. CASE SensorBegin \/ SensorContinues \/ HandleOther \/ HandleCapabilities \/ HandleAck
    BY <2>2, NamedKept
       DEF SensorBegin, SensorContinues, HandleOther, HandleCapabilities, HandleAck
  <2> QED BY <1>6, <2>1, <2>2 DEF Handler
<1>7. CASE WorkerRestarts \/ GoesOffline \/ ClockExpires \/ UNCHANGED vars
  BY <1>7, NamedKept DEF WorkerRestarts, GoesOffline, ClockExpires, vars
<1> QED BY <1>1, <1>2, <1>5, <1>6, <1>7 DEF Next

-----------------------------------------------------------------------------
(* The steps of the device.                                                 *)

\* Executing a "set" pays for its ok ack; no other execution sends one.
LEMMA ExecuteSetLedger ==
    ASSUME IInv, IInv', LInv, WireNamed, wire # <<>>, row' = row,
           NEW once \in BOOLEAN, NEW status \in {"ok", "error"}, ExecuteSet(once, status)
    PROVE  LInv' /\ LedgerStep
<1> DEFINE m == Ack("set", status)
<1>1. m \in ToWorker /\ (OkAck(m) <=> status = "ok")
  BY DEF Ack, ToWorker, Actions, OkAck
<1>2. Send(m) /\ (okays' = IF status = "ok" /\ okays < Cardinality(Commands)
                           THEN okays + 1 ELSE okays)
  BY DEF ExecuteSet
<1>3. okays \in 0 .. Cardinality(Commands) /\ Cardinality(Commands) \in Nat
  BY ConstantFacts DEF IInv, TypeOK
<1>4. Cardinality(OkAcks') = IF status = "ok" THEN Cardinality(OkAcks) + 1
                             ELSE Cardinality(OkAcks)
  BY <1>1, <1>2, SendCounts DEF IInv
<1>5. SetsSucceeded' = SetsSucceeded
  BY DEF SetsSucceeded
<1>6. Budget'
  BY <1>2, <1>3, <1>4, <1>5, Finite DEF LInv, IInv, Budget
<1>7. RowsOrdered'
  BY OrderKept DEF LInv
<1>8. Head(wire).of \in Commands => ActionOf[Head(wire).of] = "set"
  <2>1. wire \in Seq(ToDevice) /\ Len(wire) \in Nat \ {0}
    BY TypeParts, EmptySeq DEF IInv
  <2>2. Named(Head(wire))
    BY <2>1 DEF WireNamed
  <2> QED BY <2>2 DEF Named, ExecuteSet
<1>9. \A c \in Commands : ActionOf[c] = "ota_update" => outcome'[c] = outcome[c]
  <2>1. outcome \in [Commands -> SUBSET {"ok", "error"}]
    BY TypeParts DEF IInv
  <2> QED BY <1>8, <2>1 DEF ExecuteSet
<1>10. LedgerStep
  <2>1. CASE okays' = okays
    BY <1>9, <2>1, Unnoticed DEF Shown
  <2>2. CASE okays' = okays + 1 /\ okays < Cardinality(Commands)
    <3>1. UNCHANGED [c \in Commands |-> Shown(c)]
      BY DEF Shown
    <3>2. UNCHANGED UpdatesRun
      BY <1>9 DEF UpdatesRun
    <3>3. Ledger!Run
      BY <2>2, <3>1, <3>2, SameCount DEF Ledger!Run
    <3> QED BY <3>3 DEF LedgerStep, Ledger!Next
  <2> QED BY <1>2, <1>3, <2>1, <2>2
<1> QED BY <1>6, <1>7, <1>10 DEF LInv

LEMMA FlashLedger ==
    ASSUME IInv, IInv', LInv, WireNamed, wire # <<>>, row' = row,
           NEW once \in BOOLEAN, Flash(once)
    PROVE  LInv' /\ LedgerStep
<1>1. UNCHANGED <<row, okays, up>>
  BY DEF Flash
<1>2. LInv'
  BY <1>1, QuietStep
<1>3. wire \in Seq(ToDevice) /\ Len(wire) \in Nat \ {0}
  BY TypeParts, EmptySeq DEF IInv
<1>4. Named(Head(wire)) /\ Head(wire).of \in Commands \cup {None}
  <2>1. 1 \in 1 .. Len(wire) /\ Head(wire) = wire[1] /\ Head(wire) \in ToDevice
    BY <1>3
  <2>2. Named(Head(wire))
    BY <2>1 DEF WireNamed
  <2> QED BY <2>1, <2>2 DEF ToDevice
<1>5. outcome \in [Commands -> SUBSET {"ok", "error"}]
  BY TypeParts DEF IInv
<1>6. CASE Head(wire).of \in Commands
  <2>1. ActionOf[Head(wire).of] = "ota_update"
    BY <1>4, <1>6 DEF Named, Flash
  <2>2. UpdatesRun' = UpdatesRun \cup {Head(wire).of}
    BY <1>5, <1>6, <2>1 DEF UpdatesRun, Flash
  <2>3. UNCHANGED [c \in Commands |-> Shown(c)]
    BY DEF Shown
  <2>4. Ledger!Flash(Head(wire).of)
    BY <1>1, <1>6, <2>1, <2>2, <2>3 DEF Ledger!Flash, Ledger!Of
  <2> QED BY <1>2, <1>6, <2>4 DEF LedgerStep, Ledger!Next
<1>7. CASE Head(wire).of \notin Commands
  <2>1. outcome' = outcome
    BY <1>5, <1>7 DEF Flash
  <2> QED BY <1>1, <1>2, <2>1, SameRows
<1> QED BY <1>6, <1>7

LEMMA RefuseLedger ==
    ASSUME IInv, IInv', LInv, row' = row, NEW once \in BOOLEAN, RefuseUpdate(once)
    PROVE  LInv' /\ LedgerStep
<1>1. Ack("ota_update", "error") \in ToWorker /\ ~OkAck(Ack("ota_update", "error"))
  BY DEF Ack, ToWorker, Actions, OkAck
<1>2. UNCHANGED <<row, okays>> /\ (Send(Ack("ota_update", "error")) \/ up' = up)
  BY DEF RefuseUpdate
<1>3. LInv'
  BY <1>1, <1>2, QuietStep
<1>4. outcome \in [Commands -> SUBSET {"ok", "error"}]
  BY TypeParts DEF IInv
<1>5. \A c \in Commands : "ok" \in outcome'[c] <=> "ok" \in outcome[c]
  BY <1>4 DEF RefuseUpdate
<1>6. LedgerStep
  BY <1>2, <1>5, Unnoticed DEF Shown
<1> QED BY <1>3, <1>6

LEMMA ExecuteLedger ==
    ASSUME IInv, IInv', LInv, WireNamed, NEW once \in BOOLEAN, Execute(once)
    PROVE  LInv' /\ LedgerStep
<1>1. wire # <<>> /\ row' = row
  BY DEF Execute
<1>2. CASE AnswerRequest(once)
  <2>1. device.fw \in Commands \cup {None}
    BY TypeParts DEF IInv, DeviceType
  <2>2. Capabilities(device.fw) \in ToWorker /\ ~OkAck(Capabilities(device.fw))
    BY <2>1 DEF Capabilities, ToWorker, OkAck
  <2>3. UNCHANGED <<row, okays, outcome>> /\ Send(Capabilities(device.fw))
    BY <1>1, <1>2 DEF AnswerRequest
  <2> QED BY <2>2, <2>3, QuietStep, SameRows
<1> QED BY <1>1, <1>2, ExecuteSetLedger, RefuseLedger, FlashLedger DEF Execute

LEMMA PublicationLedger ==
    ASSUME IInv, IInv', LInv, PublishSensors \/ PublishOther \/ PublishCapabilities
    PROVE  LInv' /\ LedgerStep
<1>1. UNCHANGED <<row, okays, outcome>>
  BY DEF PublishSensors, PublishOther, PublishCapabilities
<1>2. \E m \in ToWorker : Send(m) /\ ~OkAck(m)
  <2>1. device.fw \in Commands \cup {None}
    BY TypeParts DEF IInv, DeviceType
  <2>2. Capabilities(device.fw) \in ToWorker /\ ~OkAck(Capabilities(device.fw))
    BY <2>1 DEF Capabilities, ToWorker, OkAck
  <2>3. \A topic \in {"sensors", "other"} :
          Publication(topic) \in ToWorker /\ ~OkAck(Publication(topic))
    BY DEF Publication, ToWorker, OkAck
  <2> QED BY <2>2, <2>3 DEF PublishSensors, PublishOther, PublishCapabilities
<1> QED BY <1>1, <1>2, QuietStep, SameRows

\* Every step that touches neither rows, executions nor the sending end of up.
LEMMA QuietLedger ==
    ASSUME IInv, IInv', LInv, UNCHANGED <<row, okays, outcome>>,
           up' = up \/ up' = <<>> \/ (up # <<>> /\ up' = Tail(up))
    PROVE  LInv' /\ LedgerStep
BY QuietStep, SameRows

-----------------------------------------------------------------------------
LEMMA NextLedger ==
    ASSUME IInv, IInv', LInv, WireNamed, [Next]_vars
    PROVE  LInv' /\ LedgerStep
<1>1. ASSUME NEW c \in Commands, ViewPublish(c) \/ ViewStep(c) \/ UpdateIsLate(c)
      PROVE  LInv' /\ LedgerStep
  <2>1. CASE ViewRecord(c)
    BY <2>1, RecordLedger
  <2>2. CASE UpdateIsLate(c)
    BY <2>2, LateLedger
  <2>3. CASE ViewPublish(c) \/ ViewAsk(c) \/ ViewAskFails(c) \/ ViewStartClock(c)
    BY <2>3, QuietLedger DEF ViewPublish, ViewAsk, ViewAskFails, ViewStartClock
  <2> QED BY <1>1, <2>1, <2>2, <2>3 DEF ViewStep
<1>2. ASSUME NEW cs \in SUBSET Commands, DeleteCommands(cs) PROVE LInv' /\ LedgerStep
  BY <1>2, DeleteLedger
<1>3. CASE DeviceStep
  <2>1. CASE Wake \/ Listen \/ Sleep
    BY <2>1, QuietLedger DEF Wake, Listen, Sleep
  <2>2. CASE PublishSensors \/ PublishOther \/ PublishCapabilities
    BY <2>2, PublicationLedger
  <2>3. ASSUME NEW once \in BOOLEAN, Execute(once) PROVE LInv' /\ LedgerStep
    BY <2>3, ExecuteLedger
  <2> QED BY <1>3, <2>1, <2>2, <2>3 DEF DeviceStep
<1>4. CASE Handler
  <2>1. CASE SensorBegin \/ HandleOther
    BY <2>1, QuietLedger DEF SensorBegin, HandleOther, Taken
  <2>2. CASE SensorContinues \/ \E sent \in BOOLEAN, taken \in SUBSET Commands : SensorWakesUp(sent, taken)
    BY <2>2, TimeOutLedger
  <2> QED BY <1>4, <2>1, <2>2, CapabilitiesLedger, AckLedger DEF Handler
<1>5. CASE WorkerRestarts \/ GoesOffline \/ ClockExpires \/ UNCHANGED vars
  BY <1>5, QuietLedger DEF WorkerRestarts, GoesOffline, ClockExpires, vars
<1>6. {c \in Commands : row[c].status # "absent"} \in SUBSET Commands
      /\ \A c \in Commands : {c} \in SUBSET Commands
  OBVIOUS
<1> QED BY <1>1, <1>2, <1>3, <1>4, <1>5, <1>6 DEF Next

THEOREM LedgerInvariance == Spec => [](IInv /\ LInv /\ WireNamed)
<1>1. Init => IInv /\ LInv /\ WireNamed
  BY InitInv, LInit, EmptySeq DEF Init, WireNamed
<1>2. IInv /\ LInv /\ WireNamed /\ [Next]_vars => (IInv /\ LInv /\ WireNamed)'
  <2>1. IInv => TypeOK
    BY DEF IInv
  <2> QED BY <2>1, NextInv, NextLedger, NextNamed
<1> QED BY <1>1, <1>2, PTL DEF Spec

\* Never more commands shown as successful than the device executed, whatever
\* is lost, repeated, flushed or restarted (services.py:1091-1097).
THEOREM NoSuccessInvented == Spec => []NoInventedSuccess
<1>1. IInv /\ LInv => NoInventedSuccess
  BY BudgetPays DEF IInv, LInv, NoInventedSuccess, SetsSucceeded
<1> QED BY <1>1, LedgerInvariance, PTL

\* The command log keeps CommandLedger's promises: every step of views, broker,
\* device and worker is a step of it, or none that its reader sees.
THEOREM LedgerImplemented == Spec => ImplementsLedger
<1>1. Init => Ledger!Init
  BY LInit
<1>2. IInv /\ LInv /\ WireNamed /\ [Next]_vars => LedgerStep
  BY NextInv, NextLedger
<1> QED BY <1>1, <1>2, LedgerInvariance, PTL DEF Spec, ImplementsLedger, Ledger!Spec, LedgerStep
=============================================================================
