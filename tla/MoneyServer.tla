---------------------------- MODULE MoneyServer ----------------------------
(***************************************************************************)
(* The server's money book: the append-only ledger and the deposits beside *)
(* it (migrations 0017 and 0018).  A call runs in two steps, because two   *)
(* desks' transactions overlap: it validates against what is committed,    *)
(* taking the deposit's row lock if it moves one, and later commits, which *)
(* is when the unique indexes speak.  One customer's account.              *)
(***************************************************************************)
EXTENDS Integers, Sequences

CONSTANT Desks      \* who calls: each has at most one call open

VARIABLES
    ledger,         \* committed rows, in order; a row's id is its position
    deposits,       \* the deposits rows; an id is a position
    call            \* per desk, the rpc its open transaction runs, or NoCall

serverVars == <<ledger, deposits, call>>

ChargeKinds == {"charge", "late_fee", "damage_charge"}
DepositKinds == {"deposit_hold", "deposit_apply", "deposit_refund"}
EntryKinds == ChargeKinds \cup {"payment", "write_off", "adjustment", "reversal"}
Verbs == {"entry", "hold", "apply", "refund"}

\* An rpc, and the row it writes.  corrects, reverses and deposit are ids, 0
\* for none.
Rpc == [verb : Verbs, kind : EntryKinds \cup DepositKinds, amount : Int,
        corrects : Nat, reverses : Nat, deposit : Nat]
NoCall == [verb |-> "none"]

Row == [kind : EntryKinds \cup DepositKinds, amount : Int,
        corrects : Nat, reverses : Nat, deposit : Nat]
EntryRow(r) == [kind |-> r.kind, amount |-> r.amount, corrects |-> r.corrects,
                reverses |-> r.reverses, deposit |-> 0]
DepositRow(k, n, dep) == [kind |-> k, amount |-> n, corrects |-> 0,
                          reverses |-> 0, deposit |-> dep]

\* 'held' and 'partially_applied' are told apart by applied alone.
Deposit == [amount : Nat, applied : Nat, refunded : BOOLEAN]

ServerTypeOK ==
    /\ ledger \in Seq(Row)
    /\ deposits \in Seq(Deposit)
    /\ call \in [Desks -> Rpc \cup {NoCall}]

ServerInit ==
    /\ ledger = <<>>
    /\ deposits = <<>>
    /\ call = [d \in Desks |-> NoCall]

-----------------------------------------------------------------------------
(* What record_ledger_entry and its trigger let in.                        *)

SignFits(r) ==
    /\ r.amount # 0
    /\ r.kind \in ChargeKinds => r.amount > 0
    /\ r.kind \in {"payment", "write_off"} => r.amount < 0

Corrected(id) == \E i \in DOMAIN ledger : ledger[i].corrects = id
Reversed(id) == \E i \in DOMAIN ledger : ledger[i].reverses = id

CorrectionFits(r) ==
    /\ r.corrects \in DOMAIN ledger
    /\ ledger[r.corrects].kind = r.kind
    /\ ~ Reversed(r.corrects)

ReversalFits(r) ==
    /\ r.reverses \in DOMAIN ledger
    /\ ledger[r.reverses].kind \notin DepositKinds \cup {"reversal"}
    /\ r.amount = -ledger[r.reverses].amount
    /\ ~ Corrected(r.reverses)

EntryFits(r) ==
    /\ r.kind \in EntryKinds
    /\ SignFits(r)
    /\ (r.kind = "reversal") = (r.reverses # 0)
    /\ r.corrects # 0 => CorrectionFits(r)
    /\ r.reverses # 0 => ReversalFits(r)

-----------------------------------------------------------------------------
(* What the three deposit calls let in.  apply and refund read the row     *)
(* FOR UPDATE, so one of them waits while another call holds it.           *)

Left(dep) == deposits[dep].amount - deposits[dep].applied

Moves(r) == r.verb \in {"apply", "refund"}
LockFree(r) == \A d \in Desks : ~ (Moves(call[d]) /\ call[d].deposit = r.deposit)

ApplyFits_Refunded(r) ==
    /\ r.deposit \in DOMAIN deposits
    /\ r.amount \in 1 .. Left(r.deposit)
ApplyFits(r) ==
    /\ r.deposit \in DOMAIN deposits
    /\ ~ deposits[r.deposit].refunded
    /\ r.amount \in 1 .. Left(r.deposit)

RefundFits(r) ==
    /\ r.deposit \in DOMAIN deposits
    /\ ~ deposits[r.deposit].refunded
    /\ Left(r.deposit) > 0

Fits(r) == CASE r.verb = "entry" -> EntryFits(r)
             [] r.verb = "hold" -> r.amount > 0
             [] r.verb = "apply" -> ApplyFits(r)
             [] r.verb = "refund" -> RefundFits(r)

MayStart_NoLock(r) == Fits(r)

MayStart(r) == Fits(r) /\ (Moves(r) => LockFree(r))

Begin(d, r) ==
    /\ call[d] = NoCall
    /\ MayStart(r)
    /\ call' = [call EXCEPT ![d] = r]
    /\ UNCHANGED <<ledger, deposits>>

IndexTaken_CorrectsOnly(r) == r.corrects # 0 /\ Corrected(r.corrects)

\* ledger_corrects_once_idx and ledger_reversal_once_idx.
IndexTaken(r) ==
    \/ r.corrects # 0 /\ Corrected(r.corrects)
    \/ r.reverses # 0 /\ Reversed(r.reverses)

CommitEntry(r) ==
    /\ r.verb = "entry"
    /\ ~ IndexTaken(r)
    /\ ledger' = Append(ledger, EntryRow(r))
    /\ UNCHANGED deposits

CommitHold(r) ==
    /\ r.verb = "hold"
    /\ deposits' = Append(deposits, [amount |-> r.amount, applied |-> 0,
                                     refunded |-> FALSE])
    /\ ledger' = Append(ledger, DepositRow("deposit_hold", r.amount, Len(deposits) + 1))

CommitApply(r) ==
    /\ r.verb = "apply"
    /\ ledger' = Append(ledger, DepositRow("deposit_apply", -r.amount, r.deposit))
    /\ deposits' = [deposits EXCEPT ![r.deposit].applied = @ + r.amount]

CommitRefund(r) ==
    /\ r.verb = "refund"
    /\ ledger' = Append(ledger, DepositRow("deposit_refund", -Left(r.deposit), r.deposit))
    /\ deposits' = [deposits EXCEPT ![r.deposit].refunded = TRUE]

Commit(d) ==
    /\ call[d] # NoCall
    /\ \/ CommitEntry(call[d])
       \/ CommitHold(call[d])
       \/ CommitApply(call[d])
       \/ CommitRefund(call[d])
    /\ call' = [call EXCEPT ![d] = NoCall]

\* The insert lost to another on its unique index; or the transaction ended
\* for a reason of its own (the connection, the shortfall gate of a refund).
RollBack(d) ==
    /\ call[d] # NoCall
    /\ call' = [call EXCEPT ![d] = NoCall]
    /\ UNCHANGED <<ledger, deposits>>

ServerNext ==
    \E d \in Desks : \/ call'[d] \in Rpc /\ Begin(d, call'[d])
                     \/ Commit(d)
                     \/ RollBack(d)

ServerSpec == ServerInit /\ [][ServerNext]_serverVars

-----------------------------------------------------------------------------

\* A deposit is never spent past what was taken, however many desks move it
\* at once: what a call found free when it read the row is still free when
\* it commits (0017 apply_deposit, refund_deposit: FOR UPDATE).
NeverOverspent ==
    /\ \A dep \in DOMAIN deposits : deposits[dep].applied <= deposits[dep].amount
    /\ \A d \in Desks :
         /\ call[d].verb = "apply" => call[d].amount <= Left(call[d].deposit)
         /\ Moves(call[d]) => ~ deposits[call[d].deposit].refunded

\* A refund is the last line a deposit gets, and a refunded deposit's row
\* never changes again.
RefundIsFinal ==
    [][\A dep \in DOMAIN deposits : deposits[dep].refunded =>
         /\ deposits'[dep] = deposits[dep]
         /\ \A i \in DOMAIN ledger' \ DOMAIN ledger : ledger'[i].deposit # dep]_serverVars

\* An entry is voided at most once and superseded at most once, whoever
\* races to do it (the two unique indexes of 0017 and 0018).
SettledOncePerVerb ==
    \A i, j \in DOMAIN ledger : i # j =>
        /\ ledger[i].corrects # 0 => ledger[i].corrects # ledger[j].corrects
        /\ ledger[i].reverses # 0 => ledger[i].reverses # ledger[j].reverses

\* "D6: the two verbs exclude each other" (0018:408).  The trigger looks for
\* the other verb's committed row and takes no lock, so it is not true of two
\* overlapping calls.
VerbsExclude == \A id \in DOMAIN ledger : ~ (Corrected(id) /\ Reversed(id))
=============================================================================
