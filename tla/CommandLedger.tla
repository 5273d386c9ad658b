---------------------------- MODULE CommandLedger ----------------------------
(***************************************************************************)
(* What the command log promises to whoever reads it, with nothing of how: *)
(* no queues, no views, no worker, no losses.  CommandLifecycle implements *)
(* it.                                                                     *)
(*                                                                         *)
(* A command is recorded once and concludes at most once; a deleted row    *)
(* does not come back.  There are never more successes than executions     *)
(* that gave one, an update succeeds only when its image has run, and what *)
(* a device acknowledges has no timeout.                                   *)
(***************************************************************************)
EXTENDS Naturals, FiniteSets

CONSTANTS
    Commands,
    ActionOf       \* [Commands -> {"set", "ota_update", "request_capabilities"}]

VARIABLES
    status,   \* [Commands -> what the log shows of the command]
    ran,      \* successful executions of "set" commands, up to the number of commands
    flashed   \* updates whose image has run

Of(action) == {c \in Commands : ActionOf[c] = action}
Pending == {c \in Commands : status[c] = "pending"}
Succeeded == {c \in Of("set") : status[c] = "success"}

Init ==
    /\ status = [c \in Commands |-> "unsent"]
    /\ ran = 0
    /\ flashed = {}

Become(cs, s) == status' = [c \in Commands |-> IF c \in cs THEN s ELSE status[c]]

Record(c) ==
    /\ status[c] = "unsent"
    /\ Become({c}, "pending")
    /\ UNCHANGED <<ran, flashed>>

Run ==
    /\ ran < Cardinality(Commands)
    /\ ran' = ran + 1
    /\ UNCHANGED <<status, flashed>>

Flash(c) ==
    /\ c \in Of("ota_update")
    /\ flashed' = flashed \cup {c}
    /\ UNCHANGED <<status, ran>>

Succeed(cs) ==
    /\ cs \subseteq Pending
    /\ cs \cap Of("ota_update") \subseteq flashed
    /\ Become(cs, "success")
    /\ Cardinality(Succeeded') <= ran
    /\ UNCHANGED <<ran, flashed>>

Fail(c) ==
    /\ c \in Pending
    /\ Become({c}, "failed")
    /\ UNCHANGED <<ran, flashed>>

TimeOut(cs) ==
    /\ cs \subseteq Pending \ Of("set")
    /\ Become(cs, "timeout")
    /\ UNCHANGED <<ran, flashed>>

Delete(cs) ==
    /\ \A c \in cs : status[c] \notin {"unsent", "deleted"}
    /\ Become(cs, "deleted")
    /\ UNCHANGED <<ran, flashed>>

Next ==
    \/ \E c \in Commands : Record(c) \/ Flash(c) \/ Fail(c)
    \/ Run
    \/ \E cs \in SUBSET Commands : Succeed(cs) \/ TimeOut(cs) \/ Delete(cs)

vars == <<status, ran, flashed>>
Spec == Init /\ [][Next]_vars
=============================================================================
