----------------------------- MODULE ScanServer -----------------------------
(***************************************************************************)
(* The server end of the phone's send path: submit_scan_batch and          *)
(* replay_op, as transactions that read, then commit.  A call is a slot:   *)
(* the phone gives up on a slot when it times out or is killed, the        *)
(* transaction behind it runs on regardless.                               *)
(***************************************************************************)
EXTENDS Outbox

CONSTANTS
    Slots,     \* bound: calls in existence at once
    Poison,    \* ops the server's rules refuse whenever they are new to it
    Gated,     \* ops only some roles may send
    Sessions,  \* what the phone's session may become
    Naming     \* may an error carry the client_seq it is about?

ASSUME ServerAssumption ==
    /\ Sessions \subseteq {"full", "floor", "dead"}
    /\ Naming \in BOOLEAN

VARIABLES
    calls,     \* slot -> the call in it
    effects,   \* op -> how many times its effect was committed
    session    \* whose session the phone presents: a full role, a role
               \* without the gated ops, or one the server no longer honours

serverVars == <<calls, effects, session>>

CallStep == {"idle", "sent", "running", "done", "refused", "lost"}

Call == [step : CallStep, ops : SUBSET Ops, dups : SUBSET Ops,
         culprit : 0..MaxOps, open : BOOLEAN]

IdleCall == [step |-> "idle", ops |-> {}, dups |-> {}, culprit |-> NoOp, open |-> FALSE]

ServerTypeOK ==
    /\ calls \in [Slots -> Call]
    /\ effects \in [Ops -> Nat]
    /\ session \in {"full", "floor", "dead"}

ServerInit ==
    /\ calls = [s \in Slots |-> IdleCall]
    /\ effects = [o \in Ops |-> 0]
    /\ session = "full"

-----------------------------------------------------------------------------

Landed == {o \in Ops : effects[o] > 0}
IsScanCall(s) == \A o \in calls[s].ops : kind[o] # "rpc"

\* The role gate: submit_scan_batch asks it of every op before it looks for
\* a duplicate; replay_op answers from the receipt before the RPC that asks.
GateRefuses(o) ==
    /\ o \in Gated
    /\ session = "floor"
    /\ kind[o] = "rpc" => o \notin Landed

\* A new op may break a rule of its own, and a correction's target must be
\* in the log, from an earlier call or earlier in this one.
RuleRefuses(o, batch) ==
    /\ o \notin Landed
    /\ \/ o \in Poison
       \/ kind[o] = "void" /\ dep[o] \notin Landed \cup batch

Refused(batch) == {o \in batch : GateRefuses(o) \/ RuleRefuses(o, batch)}

DeviceRowFree_NoLock(s) == TRUE

\* The upsert of the device's row holds that row until the transaction ends,
\* so one phone's scan batches run one at a time; replay_op locks nothing.
DeviceRowFree(s) ==
    IsScanCall(s) =>
        \A t \in Slots \ {s} : calls[t].step = "running" => ~IsScanCall(t)

\* What a call becomes when the server is finished with it: an answer if the
\* phone still listens, nothing otherwise.
Answered(s, step, culprit) ==
    IF calls[s].open THEN [calls[s] EXCEPT !.step = step, !.culprit = culprit]
                     ELSE IdleCall

\* The transaction's reads: the gates, the rules, the duplicate lookup.  An
\* op is refused by name where the error carries its client_seq.
ServerBegin(s) ==
    /\ calls[s].step = "sent"
    /\ session # "dead"
    /\ DeviceRowFree(s)
    /\ IF Refused(calls[s].ops) = {}
       THEN calls' = [calls EXCEPT ![s].step = "running",
                                   ![s].dups = calls[s].ops \cap Landed]
       ELSE \E o \in Refused(calls[s].ops) :
              /\ \A p \in Refused(calls[s].ops) : o <= p
              /\ \E named \in {NoOp} \cup (IF Naming THEN {o} ELSE {}) :
                   calls' = [calls EXCEPT ![s] = Answered(s, "refused", named)]
    /\ UNCHANGED <<effects, session>>

\* authenticate_device raises 28000 before anything else runs.
ServerTurnsAway(s) ==
    /\ calls[s].step = "sent"
    /\ session = "dead"
    /\ calls' = [calls EXCEPT ![s] = Answered(s, "refused", NoOp)]
    /\ UNCHANGED <<effects, session>>

Clash_NoUniqueKey(s) == {}

\* The commit: a row another transaction inserted since the lookup breaks
\* the unique key and the whole call is refused.
Clash(s) == (calls[s].ops \ calls[s].dups) \cap Landed

ServerCommit(s) ==
    /\ calls[s].step = "running"
    /\ IF Clash(s) = {}
       THEN /\ effects' = [o \in Ops |-> IF o \in calls[s].ops \ calls[s].dups
                                         THEN effects[o] + 1 ELSE effects[o]]
            /\ calls' = [calls EXCEPT ![s] = Answered(s, "done", NoOp)]
       ELSE /\ calls' = [calls EXCEPT ![s] = Answered(s, "refused", NoOp)]
            /\ UNCHANGED effects
    /\ UNCHANGED session

\* The request is lost, or the transaction is aborted with a retryable error.
CallLost(s) ==
    /\ calls[s].step \in {"sent", "running"}
    /\ calls' = [calls EXCEPT ![s] = Answered(s, "lost", NoOp)]
    /\ UNCHANGED <<effects, session>>

\* Another person picks up the phone, or the session is revoked or renewed.
SessionChanges(x) ==
    /\ x \in Sessions \ {session}
    /\ session' = x
    /\ UNCHANGED <<calls, effects>>
=============================================================================
