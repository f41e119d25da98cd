---------------------------- MODULE HisaabProofs ----------------------------
(***************************************************************************)
(* The house's account, for any amounts, jobs, bounds and number of acts:  *)
(* the server's book moves only as MoneyServer says, so no deposit is ever *)
(* overspent, what a money screen offers can be taken, every figure it     *)
(* shows agrees with every other, and once everything has landed the phone *)
(* and the server have one account.                                        *)
(***************************************************************************)
EXTENDS Hisaab, DataInduction, TLAPS

-----------------------------------------------------------------------------
(* The server's book first, for any number of desks, rows and deposits.    *)
(* The strengthening is CallSound: an open call that moves a deposit holds *)
(* its row lock, so what it read is still so.                              *)

CallSound ==
    /\ \A d \in Desks : Moves(call[d]) =>
         /\ call[d].deposit \in DOMAIN deposits
         /\ ~ deposits[call[d].deposit].refunded
    /\ \A d \in Desks : call[d].verb = "hold" => call[d].amount > 0
    /\ \A d \in Desks : call[d].verb = "apply" =>
         call[d].amount \in 1 .. Left(call[d].deposit)
    /\ \A d, e \in Desks :
         d # e /\ Moves(call[d]) /\ Moves(call[e]) => call[d].deposit # call[e].deposit

MoneyInv ==
    /\ ServerTypeOK
    /\ CallSound
    /\ \A dep \in DOMAIN deposits : deposits[dep].applied <= deposits[dep].amount
    /\ SettledOncePerVerb

-----------------------------------------------------------------------------
(* Appending to a sequence.                                                *)

LEMMA AppendIsSeq ==
    ASSUME NEW S, NEW s \in Seq(S), NEW x \in S
    PROVE  /\ Append(s, x) \in Seq(S)
           /\ DOMAIN s = 1 .. Len(s)
           /\ DOMAIN Append(s, x) = 1 .. Len(s) + 1
           /\ Len(s) \in Nat
           /\ \A i \in DOMAIN s : Append(s, x)[i] = s[i]
           /\ Append(s, x)[Len(s) + 1] = x
    OBVIOUS

LEMMA ElementsAreTyped ==
    ASSUME NEW S, NEW s \in Seq(S), NEW i \in DOMAIN s
    PROVE  s[i] \in S
    OBVIOUS

LEMMA ExceptIsSeq ==
    ASSUME NEW S, NEW s \in Seq(S), NEW i \in DOMAIN s, NEW x \in S
    PROVE  /\ [s EXCEPT ![i] = x] \in Seq(S)
           /\ DOMAIN [s EXCEPT ![i] = x] = DOMAIN s
           /\ \A j \in DOMAIN s : [s EXCEPT ![i] = x][j] = IF j = i THEN x ELSE s[j]
    OBVIOUS

(* What is left of a deposit is a number.                                  *)
LEMMA LeftIsInt ==
    ASSUME ServerTypeOK, NEW dep \in DOMAIN deposits
    PROVE  Left(dep) \in Int
<1>1. deposits[dep] \in Deposit
    BY ElementsAreTyped DEF ServerTypeOK
<1> QED BY <1>1 DEF Left, Deposit

LEMMA RowsAreTyped ==
    /\ \A r \in Rpc : EntryRow(r) \in Row
    /\ \A n \in Int, dep \in Nat, k \in DepositKinds : DepositRow(k, n, dep) \in Row
    BY DEF EntryRow, DepositRow, Row, Rpc

(* One call at most leaves the set of open ones; the others are as before. *)
LEMMA CallIsTyped ==
    ASSUME ServerTypeOK, NEW d \in Desks
    PROVE  /\ call[d] = NoCall \/ call[d] \in Rpc
           /\ call[d] # NoCall => call[d] \in Rpc
           /\ NoCall.verb = "none" /\ ~ Moves(NoCall)
    BY DEF ServerTypeOK, NoCall, Moves

-----------------------------------------------------------------------------

LEMMA BeginKeeps ==
    ASSUME MoneyInv, NEW d \in Desks, NEW r \in Rpc, Begin(d, r)
    PROVE  MoneyInv'
<1> USE DEF MoneyInv
<1>1. call' = [call EXCEPT ![d] = r] /\ call' \in [Desks -> Rpc \cup {NoCall}]
    BY DEF Begin, ServerTypeOK
<1>2. UNCHANGED <<ledger, deposits>>
    BY DEF Begin
<1>3. ServerTypeOK'
    BY <1>1, <1>2 DEF ServerTypeOK
<1>4. SettledOncePerVerb'
    BY <1>2 DEF SettledOncePerVerb
<1>5. CallSound'
  <2>1. ASSUME NEW e \in Desks, Moves(call'[e])
        PROVE  /\ call'[e].deposit \in DOMAIN deposits
               /\ ~ deposits[call'[e].deposit].refunded
    <3>1. CASE e = d
        BY <1>1, <2>1, <3>1 DEF Begin, MayStart, Fits, Moves, ApplyFits, RefundFits, ServerTypeOK
    <3>2. CASE e # d
        BY <1>1, <2>1, <3>2 DEF CallSound, ServerTypeOK
    <3> QED BY <3>1, <3>2
  <2>2. ASSUME NEW e \in Desks, call'[e].verb = "hold" PROVE call'[e].amount > 0
    <3>1. CASE e = d
        BY <1>1, <2>2, <3>1 DEF Begin, MayStart, Fits, ServerTypeOK
    <3>2. CASE e # d
        BY <1>1, <2>2, <3>2 DEF CallSound, ServerTypeOK
    <3> QED BY <3>1, <3>2
  <2>3. ASSUME NEW e \in Desks, call'[e].verb = "apply"
        PROVE  call'[e].amount \in 1 .. Left(call'[e].deposit)
    <3>1. CASE e = d
        BY <1>1, <2>3, <3>1 DEF Begin, MayStart, Fits, ApplyFits, ServerTypeOK
    <3>2. CASE e # d
        BY <1>1, <2>3, <3>2 DEF CallSound, ServerTypeOK
    <3> QED BY <3>1, <3>2
  <2>4. ASSUME NEW e \in Desks, NEW f \in Desks, e # f, Moves(call'[e]), Moves(call'[f])
        PROVE  call'[e].deposit # call'[f].deposit
    <3>1. CASE e = d
        BY <1>1, <2>4, <3>1 DEF Begin, MayStart, LockFree, ServerTypeOK
    <3>2. CASE f = d
        BY <1>1, <2>4, <3>2 DEF Begin, MayStart, LockFree, ServerTypeOK
    <3>3. CASE e # d /\ f # d
        BY <1>1, <2>4, <3>3 DEF CallSound, ServerTypeOK
    <3> QED BY <3>1, <3>2, <3>3
  <2>5. \A dep : Left(dep)' = Left(dep)
      BY <1>2 DEF Left
  <2> QED BY <1>2, <2>1, <2>2, <2>3, <2>4, <2>5 DEF CallSound, Moves
<1> QED BY <1>2, <1>3, <1>4, <1>5

LEMMA RollBackKeeps ==
    ASSUME MoneyInv, NEW d \in Desks, RollBack(d)
    PROVE  MoneyInv'
<1> USE DEF MoneyInv
<1>1. /\ call' = [call EXCEPT ![d] = NoCall]
      /\ UNCHANGED <<ledger, deposits>>
    BY DEF RollBack
<1>2. ServerTypeOK'
    BY <1>1 DEF ServerTypeOK
<1>3. SettledOncePerVerb'
    BY <1>1 DEF SettledOncePerVerb
<1>4. \A e \in Desks : call'[e] = IF e = d THEN NoCall ELSE call[e]
    BY <1>1 DEF ServerTypeOK
<1>5. CallSound'
    BY <1>1, <1>4 DEF CallSound, NoCall, Moves, Left
<1> QED BY <1>1, <1>2, <1>3, <1>5

-----------------------------------------------------------------------------
(* A commit appends one row and touches one deposit at most.               *)

(* The row of a deposit call settles nothing.                              *)
LEMMA DepositRowSettlesNothing ==
    ASSUME ServerTypeOK, SettledOncePerVerb,
           NEW k \in DepositKinds, NEW n \in Int, NEW dep \in Nat,
           ledger' = Append(ledger, DepositRow(k, n, dep))
    PROVE  SettledOncePerVerb' /\ ledger' \in Seq(Row)
<1> DEFINE x == DepositRow(k, n, dep)
<1>1. x \in Row /\ x.corrects = 0 /\ x.reverses = 0
    BY RowsAreTyped DEF DepositRow
<1>2. ledger \in Seq(Row)
    BY DEF ServerTypeOK
<1> HIDE DEF x
<1>3. /\ ledger' \in Seq(Row) /\ Len(ledger) \in Nat
      /\ DOMAIN ledger = 1 .. Len(ledger) /\ DOMAIN ledger' = 1 .. Len(ledger) + 1
      /\ \A i \in DOMAIN ledger : ledger'[i] = ledger[i]
      /\ ledger'[Len(ledger) + 1] = x
    BY <1>1, <1>2, AppendIsSeq DEF x
<1>4. \A i \in DOMAIN ledger' : i \in DOMAIN ledger \/ i = Len(ledger) + 1
    BY <1>3
<1> QED BY <1>1, <1>3, <1>4 DEF SettledOncePerVerb

LEMMA CommitEntryKeeps ==
    ASSUME MoneyInv, NEW d \in Desks, call[d] # NoCall, CommitEntry(call[d]),
           call' = [call EXCEPT ![d] = NoCall]
    PROVE  MoneyInv'
<1> USE DEF MoneyInv
<1> DEFINE x == EntryRow(call[d])
<1>1. call[d] \in Rpc
    BY CallIsTyped
<1>2. x \in Row /\ x.corrects = call[d].corrects /\ x.reverses = call[d].reverses
    BY <1>1, RowsAreTyped DEF EntryRow
<1>3. ledger' = Append(ledger, x) /\ UNCHANGED deposits /\ ~ IndexTaken(call[d])
    BY DEF CommitEntry
<1>4. ledger \in Seq(Row)
    BY DEF ServerTypeOK
<1> HIDE DEF x
<1>5. /\ ledger' \in Seq(Row) /\ Len(ledger) \in Nat
      /\ DOMAIN ledger = 1 .. Len(ledger) /\ DOMAIN ledger' = 1 .. Len(ledger) + 1
      /\ \A i \in DOMAIN ledger : ledger'[i] = ledger[i]
      /\ ledger'[Len(ledger) + 1] = x
    BY <1>2, <1>3, <1>4, AppendIsSeq
<1>6. \A i \in DOMAIN ledger' : i \in DOMAIN ledger \/ i = Len(ledger) + 1
    BY <1>5
<1>7. \A i \in DOMAIN ledger : /\ x.corrects # 0 => ledger[i].corrects # x.corrects
                               /\ x.reverses # 0 => ledger[i].reverses # x.reverses
    BY <1>2, <1>3 DEF IndexTaken, Corrected, Reversed
<1>8. SettledOncePerVerb'
    BY <1>5, <1>6, <1>7 DEF SettledOncePerVerb
<1>9. \A e \in Desks : call'[e] = IF e = d THEN NoCall ELSE call[e]
    BY DEF ServerTypeOK
<1>10. CallSound'
    BY <1>3, <1>9 DEF CallSound, NoCall, Moves, Left
<1>11. ServerTypeOK'
    BY <1>3, <1>5 DEF ServerTypeOK
<1> QED BY <1>3, <1>8, <1>10, <1>11

LEMMA CommitHoldKeeps ==
    ASSUME MoneyInv, NEW d \in Desks, call[d] # NoCall, CommitHold(call[d]),
           call' = [call EXCEPT ![d] = NoCall]
    PROVE  MoneyInv'
<1> USE DEF MoneyInv
<1> DEFINE new == [amount |-> call[d].amount, applied |-> 0, refunded |-> FALSE]
<1>1. call[d] \in Rpc /\ call[d].amount > 0
    BY CallIsTyped DEF CallSound, CommitHold
<1>2. new \in Deposit /\ new.applied = 0 /\ new.amount > 0
    BY <1>1 DEF Deposit, Rpc
<1>3. deposits \in Seq(Deposit) /\ deposits' = Append(deposits, new)
    BY DEF CommitHold, ServerTypeOK
<1> HIDE DEF new
<1>4. /\ deposits' \in Seq(Deposit) /\ Len(deposits) \in Nat
      /\ DOMAIN deposits = 1 .. Len(deposits) /\ DOMAIN deposits' = 1 .. Len(deposits) + 1
      /\ \A i \in DOMAIN deposits : deposits'[i] = deposits[i]
      /\ deposits'[Len(deposits) + 1] = new
    BY <1>2, <1>3, AppendIsSeq
<1>5. SettledOncePerVerb' /\ ledger' \in Seq(Row)
  <2>1. ledger' = Append(ledger, DepositRow("deposit_hold", call[d].amount, Len(deposits) + 1))
      BY DEF CommitHold
  <2>2. "deposit_hold" \in DepositKinds /\ call[d].amount \in Int /\ Len(deposits) + 1 \in Nat
      BY <1>1, <1>4 DEF DepositKinds, Rpc
  <2> QED BY <2>1, <2>2, DepositRowSettlesNothing
<1>6. \A e \in Desks : call'[e] = IF e = d THEN NoCall ELSE call[e]
    BY DEF ServerTypeOK
<1>7. CallSound'
    BY <1>4, <1>6 DEF CallSound, NoCall, Moves, Left
<1>8. ServerTypeOK'
    BY <1>4, <1>5 DEF ServerTypeOK
<1>9. \A dep \in DOMAIN deposits' : deposits'[dep].applied <= deposits'[dep].amount
  <2>1. \A i \in DOMAIN deposits' : i \in DOMAIN deposits \/ i = Len(deposits) + 1
      BY <1>4
  <2>2. \A i \in DOMAIN deposits : deposits'[i].applied <= deposits'[i].amount
      BY <1>4
  <2>3. 0 <= new.amount
      BY <1>2 DEF Deposit
  <2>4. LET last == deposits'[Len(deposits) + 1] IN last.applied <= last.amount
      BY <1>2, <1>4, <2>3
  <2> QED BY <2>1, <2>2, <2>4
<1> QED BY <1>5, <1>7, <1>8, <1>9

(* The deposit that moves is the caller's; every other open call moves     *)
(* another one.                                                            *)
LEMMA MovedKeeps ==
    ASSUME MoneyInv, NEW d \in Desks, Moves(call[d]), NEW new \in Deposit,
           new.applied <= new.amount,
           deposits' = [deposits EXCEPT ![call[d].deposit] = new],
           NEW k \in DepositKinds, NEW n \in Int,
           ledger' = Append(ledger, DepositRow(k, n, call[d].deposit)),
           call' = [call EXCEPT ![d] = NoCall]
    PROVE  MoneyInv'
<1> USE DEF MoneyInv
<1>1. call[d] \in Rpc /\ call[d].deposit \in Nat
    BY CallIsTyped DEF Moves, NoCall, Rpc
<1>2. SettledOncePerVerb' /\ ledger' \in Seq(Row)
    BY <1>1, DepositRowSettlesNothing
<1>3. /\ deposits \in Seq(Deposit) /\ deposits' \in Seq(Deposit)
      /\ DOMAIN deposits' = DOMAIN deposits
      /\ \A dep \in DOMAIN deposits :
            deposits'[dep] = IF dep = call[d].deposit THEN new ELSE deposits[dep]
  <2>1. deposits \in Seq(Deposit) /\ call[d].deposit \in DOMAIN deposits
      BY DEF ServerTypeOK, CallSound
  <2> QED BY <2>1, ExceptIsSeq
<1>4. \A e \in Desks : call'[e] = IF e = d THEN NoCall ELSE call[e]
    BY DEF ServerTypeOK
<1>5. \A e \in Desks : e # d /\ Moves(call[e]) => call[e].deposit # call[d].deposit
    BY DEF CallSound
<1>6. CallSound'
    BY <1>3, <1>4, <1>5 DEF CallSound, NoCall, Moves, Left
<1>7. ServerTypeOK'
    BY <1>2, <1>3 DEF ServerTypeOK
<1> QED BY <1>2, <1>3, <1>6, <1>7

LEMMA CommitApplyKeeps ==
    ASSUME MoneyInv, NEW d \in Desks, call[d] # NoCall, CommitApply(call[d]),
           call' = [call EXCEPT ![d] = NoCall]
    PROVE  MoneyInv'
<1> USE DEF MoneyInv
<1> DEFINE old == deposits[call[d].deposit]
           new == [old EXCEPT !.applied = @ + call[d].amount]
<1>1. call[d] \in Rpc /\ call[d].verb = "apply" /\ Moves(call[d])
    BY CallIsTyped DEF CommitApply, Moves
<1>2. call[d].amount \in Int /\ call[d].amount > 0
      /\ call[d].amount <= old.amount - old.applied
      /\ call[d].deposit \in DOMAIN deposits
      /\ old \in Deposit
    BY <1>1, ElementsAreTyped DEF CallSound, Left, ServerTypeOK, Rpc
<1>3. new \in Deposit /\ new.applied <= new.amount
    BY <1>2 DEF Deposit
<1>4. deposits' = [deposits EXCEPT ![call[d].deposit] = new]
    BY <1>1 DEF CommitApply
<1>5. ledger' = Append(ledger, DepositRow("deposit_apply", -call[d].amount, call[d].deposit))
    BY DEF CommitApply
<1>6. -call[d].amount \in Int /\ "deposit_apply" \in DepositKinds
    BY <1>2 DEF DepositKinds
<1> QED BY <1>1, <1>3, <1>4, <1>5, <1>6, MovedKeeps

LEMMA CommitRefundKeeps ==
    ASSUME MoneyInv, NEW d \in Desks, call[d] # NoCall, CommitRefund(call[d]),
           call' = [call EXCEPT ![d] = NoCall]
    PROVE  MoneyInv'
<1> USE DEF MoneyInv
<1> DEFINE old == deposits[call[d].deposit]
           new == [old EXCEPT !.refunded = TRUE]
<1>1. Moves(call[d])
    BY DEF CommitRefund, Moves
<1>2. call[d].deposit \in DOMAIN deposits /\ old \in Deposit /\ old.applied <= old.amount
    BY <1>1, ElementsAreTyped DEF CallSound, ServerTypeOK
<1>3. new \in Deposit /\ new.applied <= new.amount
    BY <1>2 DEF Deposit
<1>4. deposits' = [deposits EXCEPT ![call[d].deposit] = new]
    BY DEF CommitRefund
<1>5. ledger' = Append(ledger, DepositRow("deposit_refund", -Left(call[d].deposit), call[d].deposit))
    BY DEF CommitRefund
<1>6. -Left(call[d].deposit) \in Int /\ "deposit_refund" \in DepositKinds
    BY <1>2, LeftIsInt DEF DepositKinds
<1> QED BY <1>1, <1>3, <1>4, <1>5, <1>6, MovedKeeps

LEMMA CommitKeeps ==
    ASSUME MoneyInv, NEW d \in Desks, Commit(d)
    PROVE  MoneyInv'
    BY CommitEntryKeeps, CommitHoldKeeps, CommitApplyKeeps, CommitRefundKeeps DEF Commit

LEMMA StutterKeeps == MoneyInv /\ UNCHANGED serverVars => MoneyInv'
    BY DEF MoneyInv, serverVars, ServerTypeOK, CallSound, SettledOncePerVerb, Moves, Left

LEMMA MoneyStep == MoneyInv /\ [ServerNext]_serverVars => MoneyInv'
    BY BeginKeeps, CommitKeeps, RollBackKeeps, StutterKeeps DEF ServerNext

(* The inductive invariant: types, locks, bounds and the two indexes.      *)
THEOREM MoneyInvariant == ServerSpec => []MoneyInv
<1>1. ServerInit => MoneyInv
    BY DEF ServerInit, MoneyInv, ServerTypeOK, CallSound, SettledOncePerVerb, NoCall, Moves
<1> QED BY <1>1, MoneyStep, PTL DEF ServerSpec

-----------------------------------------------------------------------------

(* No deposit is spent past what was taken, however many desks move it at  *)
(* once: the FOR UPDATE of apply_deposit and refund_deposit (0017).        *)
THEOREM DepositsNeverOverspent == ServerSpec => []NeverOverspent
<1>1. MoneyInv => NeverOverspent
  <2> SUFFICES ASSUME MoneyInv PROVE NeverOverspent
      OBVIOUS
  <2>1. ASSUME NEW d \in Desks, call[d].verb = "apply"
        PROVE  call[d].amount <= Left(call[d].deposit)
    <3>1. call[d].amount \in 1 .. Left(call[d].deposit)
        BY <2>1 DEF MoneyInv, CallSound
    <3>2. call[d].deposit \in DOMAIN deposits
        BY <2>1 DEF MoneyInv, CallSound, Moves
    <3>3. Left(call[d].deposit) \in Int
        BY <3>2, LeftIsInt DEF MoneyInv
    <3> QED BY <3>1, <3>3
  <2> QED BY <2>1 DEF MoneyInv, CallSound, NeverOverspent
<1> QED BY <1>1, MoneyInvariant, PTL

(* An entry is voided at most once and superseded at most once: the two    *)
(* unique indexes, under any race.                                         *)
THEOREM SettledOnceEach == ServerSpec => []SettledOncePerVerb
<1>1. MoneyInv => SettledOncePerVerb
    BY DEF MoneyInv
<1> QED BY <1>1, MoneyInvariant, PTL

(* A refund is the last thing that happens to a deposit.                   *)
THEOREM RefundsAreFinal == ServerSpec => RefundIsFinal
<1> DEFINE Final(dep) == deposits[dep].refunded =>
                 /\ deposits'[dep] = deposits[dep]
                 /\ \A i \in DOMAIN ledger' \ DOMAIN ledger : ledger'[i].deposit # dep
<1>1. ASSUME MoneyInv, [ServerNext]_serverVars, NEW dep \in DOMAIN deposits PROVE Final(dep)
  <2>1. ledger \in Seq(Row) /\ deposits \in Seq(Deposit)
        /\ Len(ledger) \in Nat /\ Len(deposits) \in Nat
        /\ DOMAIN deposits = 1 .. Len(deposits)
      BY <1>1 DEF MoneyInv, ServerTypeOK
  <2>2. ASSUME NEW x \in Row, ledger' = Append(ledger, x)
        PROVE  \A i \in DOMAIN ledger' \ DOMAIN ledger : ledger'[i] = x
      BY <2>1, <2>2, AppendIsSeq
  <2>3. CASE UNCHANGED <<ledger, deposits>>
      BY <2>3
  <2>4. ASSUME NEW d \in Desks, CommitEntry(call[d]), call[d] # NoCall PROVE Final(dep)
    <3>1. call[d] \in Rpc
        BY <1>1, <2>4, CallIsTyped DEF MoneyInv
    <3>2. EntryRow(call[d]) \in Row /\ EntryRow(call[d]).deposit = 0
        BY <3>1, RowsAreTyped DEF EntryRow
    <3>3. dep # 0
        BY <2>1
    <3> QED BY <2>2, <2>4, <3>2, <3>3 DEF CommitEntry
  <2>5. ASSUME NEW d \in Desks, CommitHold(call[d]), call[d] # NoCall PROVE Final(dep)
    <3> DEFINE x == DepositRow("deposit_hold", call[d].amount, Len(deposits) + 1)
    <3>1. call[d] \in Rpc /\ call[d].amount > 0
        BY <1>1, <2>5, CallIsTyped DEF MoneyInv, CallSound, CommitHold
    <3>2. x \in Row /\ x.deposit = Len(deposits) + 1
      <4>1. call[d].amount \in Int /\ Len(deposits) + 1 \in Nat
            /\ "deposit_hold" \in DepositKinds
          BY <2>1, <3>1 DEF Rpc, DepositKinds
      <4> QED BY <4>1, RowsAreTyped DEF DepositRow
    <3>3. [amount |-> call[d].amount, applied |-> 0, refunded |-> FALSE] \in Deposit
        BY <3>1 DEF Deposit, Rpc
    <3>4. deposits'[dep] = deposits[dep]
        BY <2>1, <2>5, <3>3, AppendIsSeq DEF CommitHold
    <3> HIDE DEF x
    <3>5. \A i \in DOMAIN ledger' \ DOMAIN ledger : ledger'[i] = x
        BY <2>2, <2>5, <3>2 DEF CommitHold, x
    <3> QED BY <2>1, <3>2, <3>4, <3>5
  <2>6. ASSUME NEW d \in Desks, call[d] # NoCall,
               CommitApply(call[d]) \/ CommitRefund(call[d])
        PROVE  Final(dep)
    <3>1. call[d] \in Rpc /\ Moves(call[d]) /\ call[d].deposit \in DOMAIN deposits
          /\ ~ deposits[call[d].deposit].refunded
        BY <1>1, <2>6, CallIsTyped DEF MoneyInv, CallSound, CommitApply, CommitRefund, Moves
    <3>2. deposits[dep].refunded => dep # call[d].deposit
        BY <3>1
    <3>3. dep # call[d].deposit => deposits'[dep] = deposits[dep]
        BY <2>1, <2>6 DEF CommitApply, CommitRefund
    <3>4. PICK k \in DepositKinds, n \in Int : ledger' = Append(ledger, DepositRow(k, n, call[d].deposit))
      <4>1. -call[d].amount \in Int /\ -Left(call[d].deposit) \in Int
          BY <1>1, <3>1, LeftIsInt DEF MoneyInv, Rpc
      <4> QED BY <2>6, <4>1 DEF CommitApply, CommitRefund, DepositKinds
    <3>5. DepositRow(k, n, call[d].deposit) \in Row
          /\ DepositRow(k, n, call[d].deposit).deposit = call[d].deposit
        BY <3>1, RowsAreTyped DEF DepositRow, Rpc
    <3> QED BY <2>2, <3>2, <3>3, <3>4, <3>5
  <2>7. ASSUME NEW d \in Desks, Commit(d) PROVE Final(dep)
      BY <2>4, <2>5, <2>6, <2>7 DEF Commit
  <2> QED BY <1>1, <2>3, <2>7 DEF ServerNext, serverVars, Begin, RollBack
<1>2. MoneyInv /\ [ServerNext]_serverVars =>
        [\A dep \in DOMAIN deposits : Final(dep)]_serverVars
    BY <1>1
<1> QED BY <1>2, MoneyInvariant, PTL DEF ServerSpec, RefundIsFinal

-----------------------------------------------------------------------------
(* The house and its phone.                                                *)

Settleable(l) == l.deposit = 0 /\ l.kind \notin {"reversal", "write_off", "adjustment"}

LineFits(b, i) ==
    LET l == b[i]
    IN  /\ l.reverses \in 0 .. i - 1 /\ l.corrects \in 0 .. i - 1
        /\ l.reverses # 0 <=> l.kind = "reversal"
        /\ l.deposit # 0 <=> l.kind \in DepositKinds
        /\ l.corrects # 0 => l.kind = "write_off" /\ b[l.corrects].kind \in ChargeKinds
        /\ l.kind \in ChargeKinds => l.amount > 0
        /\ l.kind = "payment" => l.amount < 0
        /\ l.kind # "adjustment"
        /\ \A t \in {l.reverses, l.corrects} \ {0} :
             /\ Settleable(b[t]) /\ l.amount = -b[t].amount
             /\ \A k \in 1 .. i - 1 : t \notin {b[k].reverses, b[k].corrects}

OpFits(o) ==
    LET q == queue[o]
    IN  /\ q.deposit \in 0 .. Len(pots)
        /\ q.op \in Verbs \cup {"lend"} => q.line \in DOMAIN book
        /\ q.op \in ExpenseOps => q.line \in DOMAIN spent

Counts ==
    /\ Len(book) <= Len(queue) /\ Len(book) <= MaxOps
    /\ Len(spent) <= Len(queue) /\ Len(spent) <= MaxOps
    /\ Len(pots) <= Len(book)

PhoneInv ==
    /\ HisaabTypeOK
    /\ Counts
    /\ \A i \in DOMAIN book : LineFits(book, i)
    /\ \A i \in DOMAIN book : book[i].deposit <= Len(pots) /\ book[i].at \in 1 .. Len(queue)
    /\ \A e \in DOMAIN spent : spent[e].reverses < e /\ spent[e].at <= Len(queue)
    /\ \A o \in DOMAIN queue : OpFits(o)

-----------------------------------------------------------------------------
(* Least and greatest members.                                             *)

LEMMA MinIsIn ==
    ASSUME NEW T \in SUBSET Nat, T # {}
    PROVE  Min(T) \in T /\ \A k \in T : Min(T) <= k
    BY LeastNat DEF Min

LEMMA MaxIsIn ==
    ASSUME NEW n \in Nat, NEW T \in SUBSET (1 .. n), T # {}
    PROVE  Max(T) \in T /\ \A k \in T : k <= Max(T)
<1> DEFINE U == {k \in Nat : n - k \in T}
<1>1. PICK t \in T : TRUE
    OBVIOUS
<1>2. n - t \in U /\ n - (n - t) = t
    OBVIOUS
<1>3. PICK m \in U : \A k \in U : m <= k
  <2>1. U \in SUBSET Nat /\ U # {}
      BY <1>2
  <2> QED BY <2>1, LeastNat
<1>4. \A k \in T : n - k \in U /\ n - (n - k) = k
    OBVIOUS
<1>5. n - m \in T /\ \A k \in T : n - m >= k
    BY <1>3, <1>4
<1> QED BY <1>5 DEF Max

-----------------------------------------------------------------------------
(* What an act queues is an op.                                            *)

LEMMA ThingsAreNamed ==
    /\ Customer \in Things
    /\ \A i \in Lines : LineThing(i) \in Things /\ PotThing(i) \in Things /\ ExpenseThing(i) \in Things
    /\ \A j \in Jobs : JobThing(j) \in Things
    BY DEF Things

LEMMA PendingIsIn ==
    ASSUME queue \in Seq(OpRec)
    PROVE  /\ Pending \subseteq 1 .. Len(queue) /\ Len(queue) \in Nat
           /\ DOMAIN queue = 1 .. Len(queue)
           /\ \A ts : LastOpNaming(ts) \in Nat
           /\ Pending # {} => First \in Pending
<1>1. Len(queue) \in Nat /\ DOMAIN queue = 1 .. Len(queue) /\ Pending \subseteq 1 .. Len(queue)
    BY DEF Pending
<1>2. ASSUME NEW ts PROVE LastOpNaming(ts) \in Nat
  <2> DEFINE naming == {o \in Pending : \E t \in ts : queue[o].names \cap NamesFor(t) # {}}
  <2>1. naming \in SUBSET (1 .. Len(queue))
      BY <1>1
  <2>2. LastOpNaming(ts) = IF naming = {} THEN 0 ELSE Max(naming)
      BY DEF LastOpNaming, LastNamed
  <2> HIDE DEF naming
  <2>3. naming # {} => Max(naming) \in 1 .. Len(queue)
      BY <1>1, <2>1, MaxIsIn
  <2> QED BY <1>1, <2>2, <2>3
<1>3. Pending # {} => First \in Pending
  <2>1. Pending \in SUBSET Nat
      BY <1>1
  <2> QED BY <2>1, MinIsIn DEF First
<1> QED BY <1>1, <1>2, <1>3

JobOrNone == Jobs \cup {NoJob}
OpKinds == Elsewhere \cup Verbs \cup {"lend"} \cup ExpenseOps \cup BarOps

LEMMA OpIsTyped ==
    ASSUME queue \in Seq(OpRec), NEW op \in OpKinds, NEW line \in Nat,
           NEW job \in JobOrNone, NEW dep \in Nat,
           NEW payload \in SUBSET Things, NEW named
    PROVE  LET q == Op(op, line, job, dep, payload, named)
           IN  q \in OpRec /\ q.op = op /\ q.line = line /\ q.deposit = dep
<1>1. {NameOf(t) : t \in payload} \in SUBSET (Things \X {"phone", "server"})
    BY DEF NameOf
<1>2. LastOpNaming(named) \in Nat
    BY PendingIsIn
<1> HIDE DEF OpKinds
<1> DEFINE names == {NameOf(t) : t \in payload}
<1> HIDE DEF names
<1> QED BY <1>1, <1>2 DEF Op, OpRec, OpKinds, names, JobOrNone

LEMMA ChainedOp ==
    ASSUME NEW q \in OpRec, NEW n \in Nat
    PROVE  LET r == [q EXCEPT !.dep = n]
           IN  r \in OpRec /\ r.op = q.op /\ r.line = q.line /\ r.deposit = q.deposit
    BY DEF OpRec

LEMMA NamedThings ==
    ASSUME NEW l, l.job \in Jobs \cup {NoJob}
    PROVE  /\ JobOf(l) \in SUBSET Things
           /\ l.reverses \in Lines \cup {0} /\ l.corrects \in Lines \cup {0} => SettledOf(l) \in SUBSET Things
    BY ThingsAreNamed DEF JobOf, SettledOf

-----------------------------------------------------------------------------
(* The books only grow: what an act must show is about the new lines.      *)

NewLine(i) ==
    /\ LineFits(book, i)
    /\ book[i].deposit <= Len(pots) /\ book[i].at \in 1 .. Len(queue)
NewExpense(e) == spent[e].reverses < e /\ spent[e].at <= Len(queue)
SameOp(a, b) == a.op = b.op /\ a.line = b.line /\ a.deposit = b.deposit

LEMMA SeqFacts ==
    ASSUME HisaabTypeOK
    PROVE  /\ Len(book) \in Nat /\ DOMAIN book = 1 .. Len(book)
           /\ Len(queue) \in Nat /\ DOMAIN queue = 1 .. Len(queue)
           /\ Len(spent) \in Nat /\ DOMAIN spent = 1 .. Len(spent)
           /\ Len(pots) \in Nat /\ DOMAIN pots = 1 .. Len(pots)
           /\ Len(paidOut) \in Nat /\ DOMAIN paidOut = 1 .. Len(paidOut)
           /\ \A i \in DOMAIN book : book[i] \in LineRec
           /\ \A o \in DOMAIN queue : queue[o] \in OpRec
           /\ \A e \in DOMAIN spent : spent[e] \in Expense
           /\ \A p \in DOMAIN pots : pots[p] \in Deposit
           /\ MaxOps \in Nat
    BY MoneyBookAssumption DEF HisaabTypeOK, MoneyTypeOK

LEMMA OldLinesFit ==
    ASSUME NEW b, NEW c, NEW i \in Nat, LineFits(b, i), b[i] = c[i],
           \A k \in 1 .. i - 1 : b[k] = c[k]
    PROVE  LineFits(c, i)
    BY DEF LineFits

LEMMA GrowthKeeps ==
    ASSUME PhoneInv, HisaabTypeOK', Counts',
           Len(queue) <= Len(queue'), Len(pots) <= Len(pots'),
           Len(book) <= Len(book'), Len(spent) <= Len(spent'),
           \A i \in DOMAIN book' : (i \in DOMAIN book /\ book'[i] = book[i]) \/ NewLine(i)',
           \A i \in DOMAIN book : book'[i] = book[i],
           \A e \in DOMAIN spent' : (e \in DOMAIN spent /\ spent'[e] = spent[e]) \/ NewExpense(e)',
           \A o \in DOMAIN queue' :
              (o \in DOMAIN queue /\ SameOp(queue'[o], queue[o])) \/ OpFits(o)'
    PROVE  PhoneInv'
<1> USE DEF PhoneInv
<1>1. /\ Len(book) \in Nat /\ DOMAIN book = 1 .. Len(book)
      /\ Len(book') \in Nat /\ DOMAIN book' = 1 .. Len(book')
      /\ Len(spent) \in Nat /\ DOMAIN spent = 1 .. Len(spent)
      /\ Len(spent') \in Nat /\ DOMAIN spent' = 1 .. Len(spent')
      /\ Len(queue) \in Nat /\ Len(queue') \in Nat /\ Len(pots) \in Nat /\ Len(pots') \in Nat
  <2>1. HisaabTypeOK => /\ Len(book) \in Nat /\ DOMAIN book = 1 .. Len(book)
                        /\ Len(spent) \in Nat /\ DOMAIN spent = 1 .. Len(spent)
                        /\ Len(queue) \in Nat /\ Len(pots) \in Nat
      BY SeqFacts
  <2>2. HisaabTypeOK' => /\ Len(book') \in Nat /\ DOMAIN book' = 1 .. Len(book')
                         /\ Len(spent') \in Nat /\ DOMAIN spent' = 1 .. Len(spent')
                         /\ Len(queue') \in Nat /\ Len(pots') \in Nat
      BY DEF HisaabTypeOK, MoneyTypeOK
  <2> QED BY <2>1, <2>2
<1>2. ASSUME NEW i \in DOMAIN book', i \in DOMAIN book, book'[i] = book[i] PROVE NewLine(i)'
  <2>1. LineFits(book, i) /\ book[i].deposit <= Len(pots) /\ book[i].at \in 1 .. Len(queue)
      BY <1>2
  <2>2. \A k \in 1 .. i - 1 : book[k] = book'[k]
      BY <1>1, <1>2
  <2>3. LineFits(book', i)
    <3>1. i \in Nat
        BY <1>1
    <3> HIDE DEF PhoneInv
    <3> QED BY <1>2, <2>1, <2>2, <3>1, OldLinesFit
  <2>4. book[i].deposit \in Nat
      BY <1>2, SeqFacts DEF LineRec
  <2> QED BY <1>1, <1>2, <2>1, <2>3, <2>4 DEF NewLine
<1>3. \A i \in DOMAIN book' : NewLine(i)'
    BY <1>2
<1>4. ASSUME NEW e \in DOMAIN spent', e \in DOMAIN spent, spent'[e] = spent[e]
      PROVE  NewExpense(e)'
  <2>1. spent[e].reverses < e /\ spent[e].at <= Len(queue) /\ spent[e].at \in Nat
      BY <1>4, SeqFacts DEF Expense
  <2> QED BY <1>1, <1>4, <2>1 DEF NewExpense
<1>5. ASSUME NEW o \in DOMAIN queue', o \in DOMAIN queue, SameOp(queue'[o], queue[o])
      PROVE  OpFits(o)'
  <2>1. OpFits(o)
      BY <1>5
  <2> QED BY <1>1, <1>5, <2>1 DEF OpFits, SameOp
<1>6. \A e \in DOMAIN spent' : NewExpense(e)'
    BY <1>4
<1>7. \A o \in DOMAIN queue' : OpFits(o)'
    BY <1>5
<1> QED BY <1>3, <1>6, <1>7 DEF NewLine, NewExpense

-----------------------------------------------------------------------------
(* One act, one line or none, one op.                                      *)

LEMMA LineAct ==
    ASSUME PhoneInv, Room(1), NEW l \in LineRec, NEW q \in OpRec,
           l.at = Len(queue) + 1, LineFits(Append(book, l), Len(book) + 1),
           book' = Append(book, l), queue' = Append(queue, q),
           pots' \in Seq(Deposit), \A p \in DOMAIN pots' : pots'[p].applied <= pots'[p].amount,
           Len(pots') \in {Len(pots), Len(pots) + 1},
           l.deposit <= Len(pots'), q.deposit <= Len(pots'),
           q.line = Len(book) + 1, q.op \notin ExpenseOps,
           UNCHANGED <<serverVars, idMap, gearOut, others, houseVars>>
    PROVE  PhoneInv'
<1> USE DEF PhoneInv
<1>1. /\ Len(book) \in Nat /\ DOMAIN book = 1 .. Len(book)
      /\ Len(queue) \in Nat /\ DOMAIN queue = 1 .. Len(queue)
      /\ Len(pots) \in Nat /\ Len(spent) \in Nat /\ MaxOps \in Nat
      /\ book \in Seq(LineRec) /\ queue \in Seq(OpRec)
    BY SeqFacts DEF HisaabTypeOK, MoneyTypeOK
<1>2. /\ book' \in Seq(LineRec) /\ Len(book') = Len(book) + 1
      /\ DOMAIN book' = 1 .. Len(book) + 1
      /\ \A i \in DOMAIN book : book'[i] = book[i]
      /\ book'[Len(book) + 1] = l
    BY <1>1, AppendIsSeq
<1>3. /\ queue' \in Seq(OpRec) /\ Len(queue') = Len(queue) + 1
      /\ DOMAIN queue' = 1 .. Len(queue) + 1
      /\ \A o \in DOMAIN queue : queue'[o] = queue[o]
      /\ queue'[Len(queue) + 1] = q
    BY <1>1, AppendIsSeq
<1>4. HisaabTypeOK'
    BY <1>2, <1>3 DEF HisaabTypeOK, MoneyTypeOK, ServerTypeOK, serverVars, houseVars
<1>5. Counts'
    BY <1>1, <1>2, <1>3 DEF Counts, Room, houseVars
<1>6. ASSUME NEW i \in DOMAIN book', i \notin DOMAIN book PROVE NewLine(i)'
  <2>1. i = Len(book) + 1
      BY <1>1, <1>2, <1>6
  <2> QED BY <1>1, <1>2, <1>3, <2>1 DEF NewLine
<1>7. ASSUME NEW o \in DOMAIN queue', o \notin DOMAIN queue PROVE OpFits(o)'
  <2>1. o = Len(queue) + 1
      BY <1>1, <1>3, <1>7
  <2>2. q.deposit \in Nat
      BY DEF OpRec
  <2> QED BY <1>1, <1>2, <1>3, <2>1, <2>2 DEF OpFits
<1>8. \A i \in DOMAIN book' : (i \in DOMAIN book /\ book'[i] = book[i]) \/ NewLine(i)'
    BY <1>2, <1>6
<1>9. \A o \in DOMAIN queue' : (o \in DOMAIN queue /\ SameOp(queue'[o], queue[o])) \/ OpFits(o)'
    BY <1>3, <1>7 DEF SameOp
<1>10. spent' = spent
    BY DEF houseVars
<1> QED BY <1>1, <1>2, <1>3, <1>4, <1>5, <1>8, <1>9, <1>10, GrowthKeeps

LEMMA OpAct ==
    ASSUME PhoneInv, Room(1), NEW q \in OpRec, queue' = Append(queue, q),
           q.deposit = 0, q.op \notin Verbs \cup {"lend"},
           q.op \in ExpenseOps => q.line \in DOMAIN spent',
           spent' \in Seq(Expense), Len(spent') \in {Len(spent), Len(spent) + 1},
           \A e \in DOMAIN spent' : (e \in DOMAIN spent /\ spent'[e] = spent[e])
              \/ (spent'[e].reverses < e /\ spent'[e].at <= Len(queue) + 1),
           gearOut' \in Jobs \cup {NoJob}, barred' \in BOOLEAN,
           UNCHANGED <<serverVars, book, pots, idMap, others, paidOut, barredThere>>
    PROVE  PhoneInv'
<1> USE DEF PhoneInv
<1>1. /\ Len(book) \in Nat /\ DOMAIN book = 1 .. Len(book)
      /\ Len(queue) \in Nat /\ DOMAIN queue = 1 .. Len(queue)
      /\ Len(pots) \in Nat /\ Len(spent) \in Nat /\ MaxOps \in Nat
      /\ queue \in Seq(OpRec)
    BY SeqFacts DEF HisaabTypeOK, MoneyTypeOK
<1>2. /\ queue' \in Seq(OpRec) /\ Len(queue') = Len(queue) + 1
      /\ DOMAIN queue' = 1 .. Len(queue) + 1
      /\ \A o \in DOMAIN queue : queue'[o] = queue[o]
      /\ queue'[Len(queue) + 1] = q
    BY <1>1, AppendIsSeq
<1>3. HisaabTypeOK'
    BY <1>2 DEF HisaabTypeOK, MoneyTypeOK, ServerTypeOK, serverVars
<1>4. Counts'
    BY <1>1, <1>2 DEF Counts, Room
<1>5. ASSUME NEW o \in DOMAIN queue', o \notin DOMAIN queue PROVE OpFits(o)'
  <2>1. o = Len(queue) + 1
      BY <1>1, <1>2, <1>5
  <2> QED BY <1>1, <1>2, <2>1 DEF OpFits
<1>6. \A o \in DOMAIN queue' : (o \in DOMAIN queue /\ SameOp(queue'[o], queue[o])) \/ OpFits(o)'
    BY <1>2, <1>5 DEF SameOp
<1>7. \A e \in DOMAIN spent' : (e \in DOMAIN spent /\ spent'[e] = spent[e]) \/ NewExpense(e)'
    BY <1>2 DEF NewExpense
<1> QED BY <1>1, <1>2, <1>3, <1>4, <1>6, <1>7, GrowthKeeps

(* A line that settles nothing.                                            *)
LEMMA FreshLineFits ==
    ASSUME PhoneInv, NEW l \in LineRec, l.reverses = 0, l.corrects = 0,
           l.kind \notin {"reversal", "adjustment"},
           l.deposit # 0 <=> l.kind \in DepositKinds,
           l.kind \in ChargeKinds => l.amount > 0,
           l.kind = "payment" => l.amount < 0
    PROVE  LineFits(Append(book, l), Len(book) + 1)
<1>1. Append(book, l)[Len(book) + 1] = l /\ Len(book) \in Nat
    BY SeqFacts DEF PhoneInv, HisaabTypeOK, MoneyTypeOK
<1> QED BY <1>1 DEF LineFits

(* A line that settles one nothing had settled.                            *)
LEMMA SettlingLineFits ==
    ASSUME PhoneInv, NEW i \in DOMAIN book, SettleTarget(i), NEW l \in LineRec,
           l.amount = -book[i].amount, l.deposit = 0,
           \/ l.kind = "reversal" /\ l.reverses = i /\ l.corrects = 0
           \/ l.kind = "write_off" /\ l.corrects = i /\ l.reverses = 0 /\ book[i].amount > 0
    PROVE  LineFits(Append(book, l), Len(book) + 1)
<1>1. /\ Len(book) \in Nat /\ DOMAIN book = 1 .. Len(book)
      /\ Append(book, l)[Len(book) + 1] = l
      /\ \A k \in DOMAIN book : Append(book, l)[k] = book[k]
    BY SeqFacts, AppendIsSeq DEF PhoneInv, HisaabTypeOK, MoneyTypeOK
<1>2. \A k \in DOMAIN book : i \notin {book[k].reverses, book[k].corrects}
    BY DEF SettleTarget, Settled, Settlers
<1>3. Settleable(book[i])
    BY DEF SettleTarget, Settleable
<1>4. LineFits(book, i) /\ book[i] \in LineRec
    BY SeqFacts DEF PhoneInv
<1>5. l.corrects = i => book[i].kind \in ChargeKinds
  <2>1. l.corrects = i => book[i].amount > 0
      BY <1>1
  <2> QED BY <1>3, <1>4, <2>1 DEF LineFits, Settleable, LineRec, EntryKinds, DepositKinds
<1>6. l.kind \notin DepositKinds \cup ChargeKinds \cup {"payment", "adjustment"}
    BY DEF DepositKinds, ChargeKinds
<1> HIDE DEF Settleable
<1> DEFINE b == Append(book, l)
           n == Len(book) + 1
<1>7. n \in Nat /\ b[n] = l /\ b[i] = book[i] /\ i \in 1 .. n - 1 /\ i # 0
      /\ \A k \in 1 .. n - 1 : b[k] = book[k] /\ k \in DOMAIN book
    BY <1>1
<1>8. {l.reverses, l.corrects} \ {0} = {i}
    BY <1>7
<1> HIDE DEF b, n
<1>9. /\ l.reverses \in 0 .. n - 1 /\ l.corrects \in 0 .. n - 1
      /\ l.reverses # 0 <=> l.kind = "reversal"
      /\ l.deposit # 0 <=> l.kind \in DepositKinds
      /\ l.corrects # 0 => l.kind = "write_off" /\ b[l.corrects].kind \in ChargeKinds
      /\ l.kind \in ChargeKinds => l.amount > 0
      /\ l.kind = "payment" => l.amount < 0
      /\ l.kind # "adjustment"
  <2>1. l.reverses \in 0 .. n - 1 /\ l.corrects \in 0 .. n - 1
      BY <1>7
  <2>2. l.reverses # 0 <=> l.kind = "reversal"
      BY <1>7
  <2>3. l.corrects # 0 => l.kind = "write_off" /\ b[l.corrects].kind \in ChargeKinds
      BY <1>5, <1>7
  <2> QED BY <1>6, <2>1, <2>2, <2>3
<1>10. \A t \in {i} : /\ Settleable(b[t]) /\ l.amount = -b[t].amount
                      /\ \A k \in 1 .. n - 1 : t \notin {b[k].reverses, b[k].corrects}
    BY <1>2, <1>3, <1>7
<1>11. LineFits(b, n)
    BY <1>7, <1>8, <1>9, <1>10 DEF LineFits
<1> QED BY <1>11 DEF b, n

-----------------------------------------------------------------------------
(* The acts at the counter.                                                *)

LEMMA CounterFacts ==
    ASSUME PhoneInv
    PROVE  /\ Len(book) \in Nat /\ Len(queue) \in Nat /\ Len(pots) \in Nat /\ Len(spent) \in Nat
           /\ Room(1) => Len(queue) + 1 \in Lines /\ Len(book) + 1 \in Lines
                         /\ Len(pots) + 1 \in Lines /\ Len(spent) + 1 \in Lines
           /\ OpenJobs \in SUBSET Jobs /\ NoJob \in Jobs \cup {NoJob}
           /\ NewCharge \in SUBSET ChargeKinds
           /\ \A n \in Amounts \cup Taken \cup Spends : n \in Int /\ n > 0
    BY SeqFacts, MoneyBookAssumption, HisaabAssumption
       DEF PhoneInv, Counts, Room, Lines, OpenJobs

(* The op of a line that no deposit call writes.                           *)
LEMMA EntryOpIsTyped ==
    ASSUME PhoneInv, Room(1), NEW l \in LineRec, NEW i \in Lines,
           l.reverses \in Lines \cup {0}, l.corrects \in Lines \cup {0}
    PROVE  LET q == EntryOp(l, i)
           IN  q \in OpRec /\ q.op = "entry" /\ q.line = i /\ q.deposit = 0
<1>1. l.job \in Jobs \cup {NoJob}
    BY DEF LineRec
<1> DEFINE payload == {Customer, LineThing(i)} \cup JobOf(l) \cup SettledOf(l)
<1>2. payload \in SUBSET Things
  <2>1. JobOf(l) \in SUBSET Things /\ SettledOf(l) \in SUBSET Things
      BY <1>1, NamedThings
  <2> QED BY <2>1, ThingsAreNamed
<1>3. "entry" \in OpKinds /\ NoJob \in JobOrNone /\ 0 \in Nat /\ i \in Nat
    BY DEF OpKinds, Verbs, Lines, JobOrNone
<1>4. queue \in Seq(OpRec)
    BY DEF PhoneInv, HisaabTypeOK, MoneyTypeOK
<1> HIDE DEF OpKinds, payload
<1> DEFINE named == {Customer} \cup JobOf(l) \cup SettledOf(l)
<1> HIDE DEF named
<1>5. LET q == Op("entry", i, NoJob, 0, payload, named)
      IN  q \in OpRec /\ q.op = "entry" /\ q.line = i /\ q.deposit = 0
    BY <1>2, <1>3, <1>4, OpIsTyped
<1> QED BY <1>5 DEF EntryOp, payload, named

LEMMA RecordEntryKeeps ==
    ASSUME PhoneInv, Room(1), NEW l \in LineRec, l.at = Len(queue) + 1, l.deposit = 0,
           LineFits(Append(book, l), Len(book) + 1),
           l.reverses \in Lines \cup {0}, l.corrects \in Lines \cup {0},
           RecordEntry(l), UNCHANGED pots, Untouched, UNCHANGED houseVars
    PROVE  PhoneInv'
<1> DEFINE q == EntryOp(l, Len(book) + 1)
<1>1. Len(book) + 1 \in Lines /\ Len(pots) \in Nat
    BY CounterFacts
<1>2. q \in OpRec /\ q.op = "entry" /\ q.line = Len(book) + 1 /\ q.deposit = 0
    BY <1>1, EntryOpIsTyped
<1>3. book' = Append(book, l) /\ queue' = Append(queue, q)
    BY DEF RecordEntry
<1> HIDE DEF q
<1>4. pots' \in Seq(Deposit) /\ \A p \in DOMAIN pots' : pots'[p].applied <= pots'[p].amount
    BY DEF PhoneInv, HisaabTypeOK, MoneyTypeOK
<1>5. "entry" \notin ExpenseOps
    BY DEF ExpenseOps
<1> QED BY <1>1, <1>2, <1>3, <1>4, <1>5, LineAct DEF Untouched

(* The line an act writes.                                                 *)
LineKinds == EntryKinds \cup DepositKinds

LEMMA LineIsTyped ==
    ASSUME PhoneInv, NEW kind \in LineKinds, NEW n \in Int,
           NEW j \in JobOrNone, NEW c \in Nat, NEW r \in Nat, NEW dep \in Nat
    PROVE  LET l == Line(kind, n, j, c, r, dep)
           IN  /\ l \in LineRec /\ l.kind = kind /\ l.amount = n /\ l.corrects = c
               /\ l.reverses = r /\ l.deposit = dep /\ l.at = Len(queue) + 1
<1>1. Len(queue) + 1 \in Nat
    BY CounterFacts
<1> QED BY <1>1 DEF Line, LineRec, LineKinds, JobOrNone

LEMMA GearedLine ==
    ASSUME NEW l \in LineRec, NEW g \in BOOLEAN
    PROVE  LET m == [l EXCEPT !.gear = g]
           IN  /\ m \in LineRec /\ m.kind = l.kind /\ m.amount = l.amount
               /\ m.corrects = l.corrects /\ m.reverses = l.reverses
               /\ m.deposit = l.deposit /\ m.at = l.at /\ m.gear = g
    BY DEF LineRec

LEMMA RecordChargeKeeps ==
    ASSUME PhoneInv, RecordCharge, UNCHANGED houseVars PROVE PhoneInv'
<1>1. PICK k \in NewCharge, n \in Amounts, j \in OpenJobs :
        RecordEntry(Line(k, n, j, 0, 0, 0))
    BY DEF RecordCharge
<1> DEFINE l == Line(k, n, j, 0, 0, 0)
<1>2. k \in ChargeKinds /\ n \in Int /\ n > 0 /\ j \in JobOrNone
    BY CounterFacts DEF JobOrNone
<1>3. k \in LineKinds /\ k \notin DepositKinds \cup {"reversal", "adjustment", "payment"}
    BY <1>2 DEF ChargeKinds, EntryKinds, DepositKinds, LineKinds
<1>4. /\ l \in LineRec /\ l.kind = k /\ l.amount = n /\ l.corrects = 0
      /\ l.reverses = 0 /\ l.deposit = 0 /\ l.at = Len(queue) + 1
    BY <1>2, <1>3, LineIsTyped
<1> HIDE DEF l
<1>5. LineFits(Append(book, l), Len(book) + 1)
    BY <1>2, <1>3, <1>4, FreshLineFits
<1>6. Room(1) /\ UNCHANGED pots /\ Untouched /\ RecordEntry(l)
    BY <1>1 DEF RecordCharge, l
<1> QED BY <1>4, <1>5, <1>6, RecordEntryKeeps

LEMMA RecordPaymentKeeps ==
    ASSUME PhoneInv, RecordPayment, UNCHANGED houseVars PROVE PhoneInv'
<1>1. PICK n \in Amounts : RecordEntry(Line("payment", -n, NoJob, 0, 0, 0))
    BY DEF RecordPayment
<1> DEFINE l == Line("payment", -n, NoJob, 0, 0, 0)
<1>2. -n \in Int /\ -n < 0 /\ NoJob \in JobOrNone
    BY CounterFacts DEF JobOrNone
<1>3. "payment" \in LineKinds
      /\ "payment" \notin DepositKinds \cup ChargeKinds \cup {"reversal", "adjustment"}
    BY DEF ChargeKinds, EntryKinds, DepositKinds, LineKinds
<1>4. /\ l \in LineRec /\ l.kind = "payment" /\ l.amount = -n /\ l.corrects = 0
      /\ l.reverses = 0 /\ l.deposit = 0 /\ l.at = Len(queue) + 1
    BY <1>2, <1>3, LineIsTyped
<1> HIDE DEF l
<1>5. LineFits(Append(book, l), Len(book) + 1)
    BY <1>2, <1>3, <1>4, FreshLineFits
<1>6. Room(1) /\ UNCHANGED pots /\ Untouched /\ RecordEntry(l)
    BY <1>1 DEF RecordPayment, l
<1> QED BY <1>4, <1>5, <1>6, RecordEntryKeeps

LEMMA SettlingLineIsTyped ==
    ASSUME PhoneInv, NEW n \in Int, NEW j \in JobOrNone, NEW i \in Nat
    PROVE  /\ \A l : l = Line("reversal", n, j, 0, i, 0) =>
                  /\ l \in LineRec /\ l.kind = "reversal" /\ l.amount = n /\ l.corrects = 0
                  /\ l.reverses = i /\ l.deposit = 0 /\ l.at = Len(queue) + 1
           /\ \A l : l = Line("write_off", n, j, i, 0, 0) =>
                  /\ l \in LineRec /\ l.kind = "write_off" /\ l.amount = n /\ l.corrects = i
                  /\ l.reverses = 0 /\ l.deposit = 0 /\ l.at = Len(queue) + 1
<1>1. PICK kind \in LineKinds : kind = "reversal"
    BY DEF EntryKinds, LineKinds
<1>2. PICK off \in LineKinds : off = "write_off"
    BY DEF EntryKinds, LineKinds
<1>3. PICK z \in Nat : z = 0
    OBVIOUS
<1>4. LET l == Line(kind, n, j, z, i, z)
      IN  /\ l \in LineRec /\ l.kind = kind /\ l.amount = n /\ l.corrects = z
          /\ l.reverses = i /\ l.deposit = z /\ l.at = Len(queue) + 1
    BY LineIsTyped
<1>5. LET l == Line(off, n, j, i, z, z)
      IN  /\ l \in LineRec /\ l.kind = off /\ l.amount = n /\ l.corrects = i
          /\ l.reverses = z /\ l.deposit = z /\ l.at = Len(queue) + 1
    BY LineIsTyped
<1> QED BY <1>1, <1>2, <1>3, <1>4, <1>5

LEMMA SettlingKeeps ==
    ASSUME PhoneInv, NEW i \in DOMAIN book, CorrectEntry(i) \/ WriteOffEntry(i),
           UNCHANGED houseVars
    PROVE  PhoneInv'
<1> DEFINE n == -book[i].amount
           j == book[i].job
           voids == Line("reversal", n, j, 0, i, 0)
           writes == Line("write_off", n, j, i, 0, 0)
           l == [(IF CorrectEntry(i) THEN voids ELSE writes) EXCEPT !.gear = book[i].gear]
<1>1. /\ n \in Int /\ j \in JobOrNone /\ book[i].gear \in BOOLEAN
      /\ i \in Nat /\ i \in Lines /\ 0 \in Nat
    BY SeqFacts DEF PhoneInv, LineRec, Counts, Lines, JobOrNone
<1>2. /\ l \in LineRec /\ l.amount = n /\ l.deposit = 0 /\ l.at = Len(queue) + 1
      /\ \/ l.kind = "reversal" /\ l.reverses = i /\ l.corrects = 0
         \/ l.kind = "write_off" /\ l.corrects = i /\ l.reverses = 0 /\ book[i].amount > 0
  <2>0. CorrectEntry(i) \/ book[i].amount > 0
      BY DEF WriteOffEntry
  <2> HIDE DEF n, l, j
  <2>1. voids = Line("reversal", n, j, 0, i, 0) /\ writes = Line("write_off", n, j, i, 0, 0)
      OBVIOUS
  <2> HIDE DEF voids, writes
  <2>2. /\ voids \in LineRec /\ voids.kind = "reversal" /\ voids.amount = n
        /\ voids.corrects = 0 /\ voids.reverses = i /\ voids.deposit = 0
        /\ voids.at = Len(queue) + 1
        /\ writes \in LineRec /\ writes.kind = "write_off" /\ writes.amount = n
        /\ writes.corrects = i /\ writes.reverses = 0 /\ writes.deposit = 0
        /\ writes.at = Len(queue) + 1
      BY <1>1, <2>1, SettlingLineIsTyped
  <2>3. CASE CorrectEntry(i)
    <3>1. l = [voids EXCEPT !.gear = book[i].gear]
        BY <2>3 DEF l
    <3> QED BY <1>1, <2>2, <3>1, GearedLine
  <2>4. CASE ~ CorrectEntry(i)
    <3>1. l = [writes EXCEPT !.gear = book[i].gear]
        BY <2>4 DEF l
    <3> QED BY <1>1, <2>0, <2>2, <2>4, <3>1, GearedLine
  <2> QED BY <2>3, <2>4
<1>3. Room(1) /\ SettleTarget(i) /\ RecordEntry(l) /\ UNCHANGED pots /\ Untouched
    BY DEF CorrectEntry, WriteOffEntry
<1> HIDE DEF l
<1>4. LineFits(Append(book, l), Len(book) + 1)
    BY <1>2, <1>3, SettlingLineFits
<1>5. l.reverses \in Lines \cup {0} /\ l.corrects \in Lines \cup {0}
    BY <1>1, <1>2
<1> QED BY <1>2, <1>3, <1>4, <1>5, RecordEntryKeeps

-----------------------------------------------------------------------------
(* What is owed is a number.                                               *)

Coming == [i \in DOMAIN book |-> book[i].amount]

LEMMA SumOverAmount ==
    ASSUME PhoneInv, NEW S \in SUBSET (DOMAIN book)
    PROVE  /\ IsFiniteSet(S) /\ \A i \in S : Coming[i] = book[i].amount /\ Coming[i] \in Int
           /\ SumOver(S, Amount) = SumFn(Coming, S)
<1>1. IsFiniteSet(DOMAIN book) /\ \A i \in DOMAIN book : book[i].amount \in Int
  <2>1. Len(book) \in Nat /\ DOMAIN book = 1 .. Len(book) /\ \A i \in DOMAIN book : book[i] \in LineRec
      BY SeqFacts DEF PhoneInv
  <2> QED BY <2>1, FS_Interval DEF LineRec
<1>2. IsFiniteSet(S) /\ \A i \in S : Coming[i] = book[i].amount /\ Coming[i] \in Int
    BY <1>1, FS_Subset DEF Coming
<1> DEFINE Body(h, s) == IF s = {} THEN 0
                         ELSE Amount(CHOOSE x \in s : TRUE) + h[s \ {CHOOSE x \in s : TRUE}]
           it == CHOOSE h : h = [s \in SUBSET S |-> Body(h, s)]
<1>3. SumOver(S, Amount) = it[S]
    BY DEF SumOver, MapThenSumSet, MapThenFoldSet
<1>4. \A h : \A s \in SUBSET S : Body(h, s) = SumStep(h, Coming, s)
    BY <1>2 DEF SumStep, AnyOf, Amount
<1>5. PICK g \in [SUBSET S -> Int] : IsSumTable(g, Coming, S)
    BY <1>2, SumTableExists
<1>6. g = [s \in SUBSET S |-> Body(g, s)]
  <2> HIDE DEF Body
  <2> QED BY <1>4, <1>5 DEF IsSumTable
<1>7. it = [s \in SUBSET S |-> Body(it, s)]
  <2> HIDE DEF Body
  <2> QED BY <1>6
<1> HIDE DEF it
<1>8. IsSumTable(it, Coming, S)
  <2> HIDE DEF Body
  <2> QED BY <1>4, <1>7 DEF IsSumTable
<1> QED BY <1>2, <1>3, <1>8, SumIsTables

LEMMA BalanceIsInt == ASSUME PhoneInv PROVE Balance \in Int
<1> DEFINE S == {i \in DOMAIN book : Owing(i)}
<1>1. S \in SUBSET (DOMAIN book) /\ Balance = SumOver(S, Amount)
    BY DEF Balance, BalanceOf
<1> HIDE DEF S
<1> QED BY <1>1, SumOverAmount, SumType

LEMMA WriteOffBalanceKeeps ==
    ASSUME PhoneInv, WriteOffBalance, UNCHANGED houseVars PROVE PhoneInv'
<1> DEFINE n == -Balance
           l == Line("write_off", n, NoJob, 0, 0, 0)
<1>1. n \in Int /\ NoJob \in JobOrNone
    BY BalanceIsInt DEF JobOrNone
<1>2. "write_off" \in LineKinds
      /\ "write_off" \notin DepositKinds \cup ChargeKinds \cup {"reversal", "adjustment", "payment"}
    BY DEF ChargeKinds, EntryKinds, DepositKinds, LineKinds
<1>3. Room(1) /\ UNCHANGED pots /\ Untouched /\ RecordEntry(l)
    BY DEF WriteOffBalance
<1> HIDE DEF n
<1>4. /\ l \in LineRec /\ l.kind = "write_off" /\ l.corrects = 0
      /\ l.reverses = 0 /\ l.deposit = 0 /\ l.at = Len(queue) + 1
    BY <1>1, <1>2, LineIsTyped
<1> HIDE DEF l
<1>5. LineFits(Append(book, l), Len(book) + 1)
    BY <1>2, <1>4, FreshLineFits
<1> QED BY <1>3, <1>4, <1>5, RecordEntryKeeps

-----------------------------------------------------------------------------
(* Deposits at the counter.                                                *)

LEMMA HoldDepositKeeps ==
    ASSUME PhoneInv, HoldDeposit, UNCHANGED houseVars PROVE PhoneInv'
<1>1. PICK n \in Taken, j \in OpenJobs \cup {NoJob} :
        LET p == Len(pots) + 1
            l == Line("deposit_hold", n, j, 0, 0, p)
            names == {Customer} \cup JobOf(l)
        IN  /\ book' = Append(book, l)
            /\ pots' = Append(pots, [amount |-> n, applied |-> 0, refunded |-> FALSE])
            /\ queue' = Append(queue, Op("hold", Len(book) + 1, NoJob, p,
                                         names \cup {PotThing(p)}, names))
    BY DEF HoldDeposit
<1> DEFINE p == Len(pots) + 1
           l == Line("deposit_hold", n, j, 0, 0, p)
           pot == [amount |-> n, applied |-> 0, refunded |-> FALSE]
           named == {Customer} \cup JobOf(l)
           payload == named \cup {PotThing(p)}
           q == Op("hold", Len(book) + 1, NoJob, p, payload, named)
<1>2. Room(1) /\ Untouched
    BY DEF HoldDeposit
<1>3. /\ p \in Lines /\ p \in Nat /\ Len(book) + 1 \in Nat /\ Len(pots) \in Nat
      /\ n \in Int /\ n > 0 /\ j \in JobOrNone /\ NoJob \in JobOrNone
    BY <1>2, CounterFacts DEF JobOrNone, Lines
<1>4. "deposit_hold" \in LineKinds /\ "deposit_hold" \in DepositKinds
      /\ "deposit_hold" \notin ChargeKinds \cup {"reversal", "adjustment", "payment"}
    BY DEF ChargeKinds, EntryKinds, DepositKinds, LineKinds
<1>5. "hold" \in OpKinds /\ "hold" \notin ExpenseOps
    BY DEF OpKinds, Verbs, ExpenseOps
<1>6. pot \in Deposit /\ pot.applied <= pot.amount
    BY <1>3 DEF Deposit
<1>7. /\ pots' \in Seq(Deposit) /\ Len(pots') = p
      /\ \A k \in DOMAIN pots' : pots'[k].applied <= pots'[k].amount
  <2>1. pots \in Seq(Deposit) /\ \A k \in DOMAIN pots : pots[k].applied <= pots[k].amount
      BY DEF PhoneInv, HisaabTypeOK, MoneyTypeOK
  <2>2. pots' = Append(pots, pot)
      BY <1>1
  <2> HIDE DEF pot
  <2>3. /\ pots' \in Seq(Deposit) /\ DOMAIN pots = 1 .. Len(pots)
        /\ DOMAIN pots' = 1 .. Len(pots) + 1
        /\ \A i \in DOMAIN pots : pots'[i] = pots[i]
        /\ pots'[Len(pots) + 1] = pot
      BY <1>6, <2>1, <2>2, AppendIsSeq
  <2> QED BY <1>3, <1>6, <2>1, <2>3
<1>8. book' = Append(book, l) /\ queue' = Append(queue, q)
    BY <1>1
<1> HIDE DEF pot, p
<1>9. /\ l \in LineRec /\ l.kind = "deposit_hold" /\ l.amount = n /\ l.corrects = 0
      /\ l.reverses = 0 /\ l.deposit = p /\ l.at = Len(queue) + 1
    BY <1>3, <1>4, LineIsTyped
<1> HIDE DEF l
<1>10. LineFits(Append(book, l), Len(book) + 1)
  <2>1. p # 0
      BY <1>3 DEF Lines
  <2> QED BY <1>4, <1>9, <2>1, FreshLineFits
<1>11. payload \in SUBSET Things
  <2>1. l.job \in Jobs \cup {NoJob}
      BY <1>9 DEF LineRec
  <2>2. JobOf(l) \in SUBSET Things
      BY <2>1, NamedThings
  <2> QED BY <1>3, <2>2, ThingsAreNamed
<1> HIDE DEF payload, named
<1>12. q \in OpRec /\ q.op = "hold" /\ q.line = Len(book) + 1 /\ q.deposit = p
  <2>1. queue \in Seq(OpRec)
      BY DEF PhoneInv, HisaabTypeOK, MoneyTypeOK
  <2> QED BY <1>3, <1>5, <1>11, <2>1, OpIsTyped
<1> HIDE DEF q
<1>13. Len(pots') \in {Len(pots), Len(pots) + 1} /\ l.deposit <= Len(pots') /\ q.deposit <= Len(pots')
    BY <1>3, <1>7, <1>9, <1>12 DEF p
<1> QED BY <1>2, <1>5, <1>7, <1>8, <1>9, <1>10, <1>12, <1>13, LineAct DEF Untouched

(* The line of a deposit's move.                                           *)
LEMMA MovingLine ==
    ASSUME PhoneInv, NEW kind \in LineKinds, NEW m \in Int, NEW p \in Nat
    PROVE  LET l == Line(kind, m, NoJob, 0, 0, p)
           IN  /\ l \in LineRec /\ l.kind = kind /\ l.corrects = 0
               /\ l.reverses = 0 /\ l.deposit = p /\ l.at = Len(queue) + 1
<1>1. NoJob \in JobOrNone
    BY DEF JobOrNone
<1> QED BY <1>1, LineIsTyped

LEMMA MoveKeeps ==
    ASSUME PhoneInv, Room(1), NEW p \in DOMAIN pots, NEW op \in {"apply", "refund"},
           NEW kind \in DepositKinds, NEW n \in Int,
           MoveDeposit(p, op, kind, n), NEW pot \in Deposit, pot.applied <= pot.amount,
           pots' = [pots EXCEPT ![p] = pot], UNCHANGED houseVars
    PROVE  PhoneInv'
<1> DEFINE m == -n
           l == Line(kind, m, NoJob, 0, 0, p)
           q == Op(op, Len(book) + 1, NoJob, p, {PotThing(p)}, {PotThing(p)})
<1>1. book' = Append(book, l) /\ queue' = Append(queue, q) /\ Untouched
    BY DEF MoveDeposit
<1>2. /\ p \in Lines /\ p \in Nat /\ p # 0 /\ p <= Len(pots) /\ Len(book) + 1 \in Nat
      /\ Len(pots) \in Nat /\ m \in Int /\ NoJob \in JobOrNone
    BY SeqFacts DEF PhoneInv, Counts, Lines, JobOrNone
<1>3. kind \in LineKinds /\ kind \in DepositKinds
      /\ kind \notin ChargeKinds \cup {"reversal", "adjustment", "payment"}
    BY DEF ChargeKinds, EntryKinds, DepositKinds, LineKinds
<1>4. op \in OpKinds /\ op \notin ExpenseOps
    BY DEF OpKinds, Verbs, ExpenseOps
<1>5. /\ pots' \in Seq(Deposit) /\ Len(pots') = Len(pots)
      /\ \A k \in DOMAIN pots' : pots'[k].applied <= pots'[k].amount
  <2>1. pots \in Seq(Deposit) /\ \A k \in DOMAIN pots : pots[k].applied <= pots[k].amount
      BY DEF PhoneInv, HisaabTypeOK, MoneyTypeOK
  <2>2. /\ pots' \in Seq(Deposit) /\ DOMAIN pots' = DOMAIN pots
        /\ \A k \in DOMAIN pots : pots'[k] = IF k = p THEN pot ELSE pots[k]
      BY <2>1, ExceptIsSeq
  <2>3. Len(pots') = Len(pots)
      BY <2>1, <2>2
  <2> QED BY <2>1, <2>2, <2>3
<1> HIDE DEF m
<1>6. /\ l \in LineRec /\ l.kind = kind /\ l.corrects = 0
      /\ l.reverses = 0 /\ l.deposit = p /\ l.at = Len(queue) + 1
    BY <1>2, <1>3, MovingLine
<1> HIDE DEF l
<1>7. LineFits(Append(book, l), Len(book) + 1)
    BY <1>2, <1>3, <1>6, FreshLineFits
<1>8. q \in OpRec /\ q.op = op /\ q.line = Len(book) + 1 /\ q.deposit = p
  <2>1. queue \in Seq(OpRec) /\ {PotThing(p)} \in SUBSET Things
      BY <1>2, ThingsAreNamed DEF PhoneInv, HisaabTypeOK, MoneyTypeOK
  <2> QED BY <1>2, <1>4, <2>1, OpIsTyped
<1> HIDE DEF q
<1> QED BY <1>1, <1>2, <1>4, <1>5, <1>6, <1>7, <1>8, LineAct DEF Untouched

LEMMA PotOf ==
    ASSUME PhoneInv, NEW p \in DOMAIN pots
    PROVE  /\ pots[p] \in Deposit /\ pots[p].applied <= pots[p].amount
           /\ pots[p].applied \in Nat /\ pots[p].amount \in Nat /\ Remaining(p) \in Nat
           /\ ~ pots[p].refunded => Remaining(p) = pots[p].amount - pots[p].applied
           /\ pots[p].refunded => Remaining(p) = 0
<1>1. pots[p] \in Deposit /\ pots[p].applied <= pots[p].amount
    BY SeqFacts DEF PhoneInv, HisaabTypeOK, MoneyTypeOK
<1>2. pots[p].applied \in Nat /\ pots[p].amount \in Nat
    BY <1>1 DEF Deposit
<1> QED BY <1>1, <1>2 DEF Remaining

LEMMA ApplyDepositKeeps ==
    ASSUME PhoneInv, NEW p \in DOMAIN pots, ApplyDeposit(p), UNCHANGED houseVars
    PROVE  PhoneInv'
<1>1. PICK n \in 1 .. Remaining(p) :
        /\ MoveDeposit(p, "apply", "deposit_apply", n)
        /\ pots' = [pots EXCEPT ![p].applied = @ + n]
    BY DEF ApplyDeposit
<1> DEFINE pot == [pots[p] EXCEPT !.applied = @ + n]
<1>2. n \in Int /\ pot \in Deposit /\ pot.applied <= pot.amount
    BY PotOf DEF ApplyDeposit, Deposit
<1>3. pots' = [pots EXCEPT ![p] = pot]
    BY <1>1
<1> HIDE DEF pot
<1>4. Room(1) /\ "deposit_apply" \in DepositKinds
    BY DEF ApplyDeposit, DepositKinds
<1> QED BY <1>1, <1>2, <1>3, <1>4, MoveKeeps

LEMMA RefundDepositKeeps ==
    ASSUME PhoneInv, NEW p \in DOMAIN pots, RefundDeposit(p), UNCHANGED houseVars
    PROVE  PhoneInv'
<1> DEFINE pot == [pots[p] EXCEPT !.refunded = TRUE]
<1>1. /\ MoveDeposit(p, "refund", "deposit_refund", Remaining(p))
      /\ pots' = [pots EXCEPT ![p] = pot] /\ Room(1)
    BY DEF RefundDeposit
<1>2. Remaining(p) \in Int
    BY PotOf
<1>3. pots[p] \in Deposit /\ pots[p].applied <= pots[p].amount
    BY PotOf
<1>4. pot \in Deposit /\ pot.applied <= pot.amount
    BY <1>3 DEF Deposit
<1>5. "deposit_refund" \in DepositKinds
    BY DEF DepositKinds
<1> HIDE DEF pot
<1> QED BY <1>1, <1>2, <1>4, <1>5, MoveKeeps

-----------------------------------------------------------------------------
(* Jobs, scans and the switch: an op and no line.                          *)

LEMMA PlainOp ==
    ASSUME PhoneInv, Room(1), NEW op \in Elsewhere \cup BarOps, NEW job \in JobOrNone,
           NEW payload \in SUBSET Things, NEW named,
           queue' = Append(queue, Op(op, 0, job, 0, payload, named)),
           gearOut' \in Jobs \cup {NoJob}, barred' \in BOOLEAN,
           UNCHANGED <<serverVars, book, pots, idMap, others, spent, paidOut, barredThere>>
    PROVE  PhoneInv'
<1> DEFINE q == Op(op, 0, job, 0, payload, named)
<1>1. op \in OpKinds /\ op \notin Verbs \cup {"lend"} \cup ExpenseOps
    BY DEF OpKinds, Elsewhere, BarOps, Verbs, ExpenseOps, Scans
<1>2. queue \in Seq(OpRec) /\ spent \in Seq(Expense) /\ 0 \in Nat
    BY DEF PhoneInv, HisaabTypeOK, MoneyTypeOK
<1>3. q \in OpRec /\ q.op = op /\ q.deposit = 0
    BY <1>1, <1>2, OpIsTyped
<1>4. queue' = Append(queue, q)
    OBVIOUS
<1> HIDE DEF q
<1>5. /\ spent' \in Seq(Expense) /\ Len(spent') \in {Len(spent), Len(spent) + 1}
      /\ \A e \in DOMAIN spent' : e \in DOMAIN spent /\ spent'[e] = spent[e]
    BY <1>2
<1> QED BY <1>1, <1>3, <1>4, <1>5, OpAct

LEMMA JobActsKeep ==
    ASSUME PhoneInv, NEW j \in Jobs, CreateJob(j) \/ JobOp(j), UNCHANGED houseVars
    PROVE  PhoneInv'
<1>1. /\ j \in JobOrNone /\ gearOut \in Jobs \cup {NoJob} /\ barred \in BOOLEAN
      /\ {Customer, JobThing(j)} \in SUBSET Things /\ {JobThing(j)} \in SUBSET Things
    BY ThingsAreNamed DEF JobOrNone, PhoneInv, HisaabTypeOK, MoneyTypeOK
<1>2. "create_job" \in Elsewhere \cup BarOps /\ "job" \in Elsewhere \cup BarOps
    BY DEF Elsewhere
<1>3. CASE CreateJob(j)
    BY <1>1, <1>2, <1>3, PlainOp DEF CreateJob, Untouched, houseVars
<1>4. CASE JobOp(j)
    BY <1>1, <1>2, <1>4, PlainOp DEF JobOp, Untouched, houseVars
<1> QED BY <1>3, <1>4

LEMMA ScanUnitKeeps ==
    ASSUME PhoneInv, NEW j \in Jobs, NEW kind \in Scans, ScanUnit(kind, j), UNCHANGED houseVars
    PROVE  PhoneInv'
<1>1. j \in JobOrNone /\ gearOut' \in Jobs \cup {NoJob} /\ barred \in BOOLEAN /\ {} \in SUBSET Things
    BY DEF JobOrNone, PhoneInv, HisaabTypeOK, ScanUnit
<1>2. kind \in Elsewhere \cup BarOps
    BY DEF Elsewhere
<1> QED BY <1>1, <1>2, PlainOp DEF ScanUnit, houseVars

LEMMA SetBlacklistedKeeps ==
    ASSUME PhoneInv, SetBlacklisted PROVE PhoneInv'
<1> DEFINE op == IF barred THEN "unbar" ELSE "bar"
<1>1. /\ NoJob \in JobOrNone /\ gearOut' \in Jobs \cup {NoJob} /\ barred' \in BOOLEAN
      /\ {Customer} \in SUBSET Things
    BY ThingsAreNamed DEF JobOrNone, PhoneInv, HisaabTypeOK, MoneyTypeOK, SetBlacklisted, Untouched
<1>2. op \in Elsewhere \cup BarOps
    BY DEF BarOps
<1>3. /\ queue' = Append(queue, Op(op, 0, NoJob, 0, {Customer}, {Customer})) /\ Room(1)
      /\ UNCHANGED <<serverVars, book, pots, idMap, others, spent, paidOut, barredThere>>
    BY DEF SetBlacklisted, Untouched
<1> HIDE DEF op
<1> QED BY <1>1, <1>2, <1>3, PlainOp

-----------------------------------------------------------------------------
(* A hire's charge, and a fee with its waiver.                             *)

LEMMA LendOutKeeps ==
    ASSUME PhoneInv, NEW j \in Jobs, LendOut(j), UNCHANGED houseVars
    PROVE  PhoneInv'
<1> DEFINE i == Len(book) + 1
<1>1. PICK n \in Amounts :
        /\ book' = Append(book, [Line("charge", n, j, 0, 0, 0) EXCEPT !.gear = TRUE])
        /\ queue' = Append(queue,
             [Op("lend", i, j, 0, {Customer, JobThing(j), LineThing(i)}, {}) EXCEPT !.dep = 0])
    BY DEF LendOut
<1> DEFINE plain == Line("charge", n, j, 0, 0, 0)
           l == [plain EXCEPT !.gear = TRUE]
           payload == {Customer, JobThing(j), LineThing(i)}
           free == Op("lend", i, j, 0, payload, {})
           q == [free EXCEPT !.dep = 0]
<1>2. /\ Room(1) /\ Untouched /\ UNCHANGED pots
      /\ book' = Append(book, l) /\ queue' = Append(queue, q)
    BY <1>1 DEF LendOut
<1>3. i \in Lines /\ i \in Nat /\ n \in Int /\ n > 0 /\ j \in JobOrNone /\ Len(pots) \in Nat
    BY <1>2, CounterFacts DEF JobOrNone, Lines
<1>4. "charge" \in LineKinds
      /\ "charge" \notin DepositKinds \cup {"reversal", "adjustment", "payment"}
    BY DEF ChargeKinds, EntryKinds, DepositKinds, LineKinds
<1>5. "lend" \in OpKinds /\ "lend" \notin ExpenseOps
    BY DEF OpKinds, ExpenseOps
<1> HIDE DEF i
<1>6. /\ plain \in LineRec /\ plain.kind = "charge" /\ plain.amount = n /\ plain.corrects = 0
      /\ plain.reverses = 0 /\ plain.deposit = 0 /\ plain.at = Len(queue) + 1
    BY <1>3, <1>4, LineIsTyped
<1> HIDE DEF plain
<1>7. /\ l \in LineRec /\ l.kind = "charge" /\ l.amount = n /\ l.corrects = 0
      /\ l.reverses = 0 /\ l.deposit = 0 /\ l.at = Len(queue) + 1
    BY <1>6, GearedLine
<1> HIDE DEF l
<1>8. LineFits(Append(book, l), Len(book) + 1)
    BY <1>3, <1>4, <1>7, FreshLineFits
<1>9. payload \in SUBSET Things /\ queue \in Seq(OpRec) /\ 0 \in Nat
    BY <1>3, ThingsAreNamed DEF PhoneInv, HisaabTypeOK, MoneyTypeOK
<1> HIDE DEF payload
<1>10. free \in OpRec /\ free.op = "lend" /\ free.line = i /\ free.deposit = 0
    BY <1>3, <1>5, <1>9, OpIsTyped
<1> HIDE DEF free
<1>11. q \in OpRec /\ q.op = "lend" /\ q.line = i /\ q.deposit = 0
    BY <1>9, <1>10, ChainedOp
<1> HIDE DEF q
<1>12. /\ pots' \in Seq(Deposit) /\ \A p \in DOMAIN pots' : pots'[p].applied <= pots'[p].amount
       /\ Len(pots') = Len(pots)
    BY <1>2 DEF PhoneInv, HisaabTypeOK, MoneyTypeOK
<1> QED BY <1>2, <1>3, <1>5, <1>7, <1>8, <1>11, <1>12, LineAct DEF Untouched, i

LEMMA WaiveLateFeeKeeps ==
    ASSUME PhoneInv, WaiveLateFee, UNCHANGED houseVars PROVE PhoneInv'
<1> DEFINE i == Len(book) + 1
           o == Len(queue) + 1
<1>1. PICK n \in Amounts, j \in OpenJobs :
        LET fee == Line("late_fee", n, j, 0, 0, 0)
            off == Line("write_off", -n, j, i, 0, 0)
        IN  /\ book' = book \o <<fee, off>>
            /\ queue' = queue \o <<EntryOp(fee, i), [EntryOp(off, i + 1) EXCEPT !.dep = Len(queue) + 1]>>
    BY DEF WaiveLateFee
<1> DEFINE m == -n
           fee == Line("late_fee", n, j, 0, 0, 0)
           off == Line("write_off", m, j, i, 0, 0)
           q == EntryOp(fee, i)
           r == EntryOp(off, i + 1)
           s == [r EXCEPT !.dep = Len(queue) + 1]
<1>2. Room(2) /\ Untouched /\ UNCHANGED pots
    BY DEF WaiveLateFee
<1>3. /\ Len(book) \in Nat /\ DOMAIN book = 1 .. Len(book) /\ book \in Seq(LineRec)
      /\ Len(queue) \in Nat /\ DOMAIN queue = 1 .. Len(queue) /\ queue \in Seq(OpRec)
      /\ Len(pots) \in Nat /\ Len(spent) \in Nat /\ MaxOps \in Nat
    BY SeqFacts DEF PhoneInv, HisaabTypeOK, MoneyTypeOK
<1>4. /\ i \in Lines /\ i \in Nat /\ i + 1 \in Lines /\ o \in Nat
      /\ n \in Int /\ n > 0 /\ m \in Int /\ j \in JobOrNone /\ Room(1)
    BY <1>2, <1>3, CounterFacts DEF JobOrNone, Lines, Room, PhoneInv, Counts
<1>5. book' = book \o <<fee, off>> /\ queue' = queue \o <<q, s>>
    BY <1>1
<1>6. /\ "late_fee" \in LineKinds /\ "late_fee" \in ChargeKinds
      /\ "late_fee" \notin DepositKinds \cup {"reversal", "adjustment", "payment"}
    BY DEF ChargeKinds, EntryKinds, DepositKinds, LineKinds
<1>6a. /\ "write_off" \in LineKinds
       /\ "write_off" \notin ChargeKinds \cup DepositKinds \cup {"reversal", "adjustment", "payment"}
    BY DEF ChargeKinds, EntryKinds, DepositKinds, LineKinds
<1> HIDE DEF i, o, m
<1>7. /\ fee \in LineRec /\ fee.kind = "late_fee" /\ fee.amount = n /\ fee.corrects = 0
      /\ fee.reverses = 0 /\ fee.deposit = 0 /\ fee.at = Len(queue) + 1
  <2>1. n \in Int /\ j \in JobOrNone /\ "late_fee" \in LineKinds
      BY <1>4, <1>6
  <2> QED BY <2>1, LineIsTyped
<1>8. /\ off \in LineRec /\ off.kind = "write_off" /\ off.amount = m /\ off.corrects = i
      /\ off.reverses = 0 /\ off.deposit = 0 /\ off.at = Len(queue) + 1
  <2>1. m \in Int /\ j \in JobOrNone /\ i \in Nat /\ "write_off" \in LineKinds
      BY <1>4, <1>6a
  <2> QED BY <2>1, LineIsTyped
<1> HIDE DEF fee, off
<1>9. q \in OpRec /\ q.op = "entry" /\ q.line = i /\ q.deposit = 0
    BY <1>4, <1>7, EntryOpIsTyped
<1>10. r \in OpRec /\ r.op = "entry" /\ r.line = i + 1 /\ r.deposit = 0
    BY <1>4, <1>8, EntryOpIsTyped
<1> HIDE DEF q, r
<1>11. s \in OpRec /\ s.op = "entry" /\ s.line = i + 1 /\ s.deposit = 0
    BY <1>4, <1>10, ChainedOp DEF o
<1> HIDE DEF s
<1>12. /\ book' \in Seq(LineRec) /\ Len(book') = i + 1
       /\ DOMAIN book' = 1 .. i + 1
       /\ \A k \in DOMAIN book : book'[k] = book[k]
       /\ book'[i] = fee /\ book'[i + 1] = off
    BY <1>3, <1>5, <1>7, <1>8 DEF i
<1>13. /\ queue' \in Seq(OpRec) /\ Len(queue') = o + 1
       /\ DOMAIN queue' = 1 .. o + 1
       /\ \A k \in DOMAIN queue : queue'[k] = queue[k]
       /\ queue'[o] = q /\ queue'[o + 1] = s
    BY <1>3, <1>5, <1>9, <1>11 DEF o
<1>14. HisaabTypeOK'
    BY <1>2, <1>12, <1>13 DEF PhoneInv, HisaabTypeOK, MoneyTypeOK, ServerTypeOK, serverVars, houseVars, Untouched
<1>15. Counts'
    BY <1>2, <1>3, <1>12, <1>13 DEF PhoneInv, Counts, Room, houseVars, i, o
<1>16. /\ LineFits(book', i)
       /\ LineFits(book', i + 1)
  <2>1. LineFits(book', i)
    <3>1. {fee.reverses, fee.corrects} \ {0} = {} /\ 0 \in 0 .. i - 1
        BY <1>3, <1>7 DEF i
    <3> QED BY <1>4, <1>6, <1>7, <1>12, <3>1 DEF LineFits
  <2>2. \A k \in 1 .. i : /\ book'[k].reverses # i /\ book'[k].corrects # i
    <3>1. \A k \in DOMAIN book : book[k].reverses \in 0 .. k - 1 /\ book[k].corrects \in 0 .. k - 1
        BY DEF PhoneInv, LineFits
    <3>2. \A k \in DOMAIN book : book'[k].reverses # i /\ book'[k].corrects # i
        BY <1>3, <1>12, <3>1 DEF i
    <3>3. book'[i].reverses # i /\ book'[i].corrects # i
        BY <1>3, <1>7, <1>12 DEF i
    <3> QED BY <1>3, <3>2, <3>3 DEF i
  <2>3. Settleable(fee) /\ off.amount = -fee.amount
      BY <1>4, <1>6, <1>7, <1>8 DEF Settleable, m
  <2>4. i # 0
      BY <1>3 DEF i
  <2>5. {off.reverses, off.corrects} \ {0} = {i} /\ (i + 1) - 1 = i /\ i \in 0 .. i
      BY <1>4, <1>8, <2>4
  <2> HIDE DEF Settleable
  <2>6. \A t \in {i} : /\ Settleable(book'[t]) /\ off.amount = -book'[t].amount
                       /\ \A k \in 1 .. i : t \notin {book'[k].reverses, book'[k].corrects}
      BY <1>12, <2>2, <2>3
  <2>7. LineFits(book', i + 1)
      BY <1>4, <1>6, <1>7, <1>8, <1>12, <1>6a, <2>4, <2>5, <2>6 DEF LineFits
  <2> QED BY <2>1, <2>7
<1>17. ASSUME NEW k \in DOMAIN book', k \notin DOMAIN book PROVE NewLine(k)'
  <2>1. k = i \/ k = i + 1
      BY <1>3, <1>12, <1>17 DEF i
  <2>2. book'[k].deposit = 0 /\ book'[k].at = Len(queue) + 1
      BY <1>7, <1>8, <1>12, <2>1
  <2>3. 0 <= Len(pots') /\ Len(queue) + 1 \in 1 .. Len(queue')
      BY <1>2, <1>3, <1>13 DEF o
  <2> QED BY <1>16, <2>1, <2>2, <2>3 DEF NewLine
<1>18. ASSUME NEW k \in DOMAIN queue', k \notin DOMAIN queue PROVE OpFits(k)'
  <2>1. k = o \/ k = o + 1
      BY <1>3, <1>13, <1>18 DEF o
  <2>2. queue'[k].deposit = 0 /\ queue'[k].op = "entry" /\ queue'[k].line \in DOMAIN book'
      BY <1>3, <1>9, <1>11, <1>12, <1>13, <2>1 DEF i
  <2>3. 0 \in 0 .. Len(pots') /\ "entry" \notin ExpenseOps
      BY <1>2, <1>3 DEF ExpenseOps
  <2> QED BY <2>2, <2>3 DEF OpFits
<1>19. \A k \in DOMAIN book' : (k \in DOMAIN book /\ book'[k] = book[k]) \/ NewLine(k)'
    BY <1>12, <1>17
<1>20. \A k \in DOMAIN queue' : (k \in DOMAIN queue /\ SameOp(queue'[k], queue[k])) \/ OpFits(k)'
    BY <1>13, <1>18 DEF SameOp
<1>21. /\ Len(queue) <= Len(queue') /\ Len(pots) <= Len(pots') /\ Len(book) <= Len(book')
       /\ spent' = spent /\ Len(spent) <= Len(spent')
    BY <1>2, <1>3, <1>12, <1>13 DEF houseVars, i, o
<1> QED BY <1>12, <1>14, <1>15, <1>19, <1>20, <1>21, GrowthKeeps

-----------------------------------------------------------------------------
(* The expense book.                                                       *)

LEMMA ExpenseOpIsTyped ==
    ASSUME PhoneInv, NEW e \in Lines, NEW x \in Expense
    PROVE  LET q == ExpenseOp(e, x)
           IN  q \in OpRec /\ q.op = "expense" /\ q.line = e /\ q.deposit = 0
<1> DEFINE payload == {ExpenseThing(e)} \cup JobOf(x)
           job == x.job
<1>1. job \in JobOrNone /\ payload \in SUBSET Things
  <2>1. x.job \in Jobs \cup {NoJob}
      BY DEF Expense
  <2>2. JobOf(x) \in SUBSET Things
      BY <2>1, NamedThings
  <2> QED BY <2>1, <2>2, ThingsAreNamed DEF JobOrNone
<1>2. "expense" \in OpKinds /\ e \in Nat /\ 0 \in Nat /\ queue \in Seq(OpRec)
    BY DEF OpKinds, ExpenseOps, Lines, PhoneInv, HisaabTypeOK, MoneyTypeOK
<1> HIDE DEF payload, job
<1>3. \A named : LET q == Op("expense", e, job, 0, payload, named)
                 IN  q \in OpRec /\ q.op = "expense" /\ q.line = e /\ q.deposit = 0
    BY <1>1, <1>2, OpIsTyped
<1> QED BY <1>3 DEF ExpenseOp, payload, job

LEMMA RecordExpenseKeeps ==
    ASSUME PhoneInv, RecordExpense PROVE PhoneInv'
<1>1. PICK n \in Spends, at \in {0, Now},
           tie \in {<<"misc", NoJob, NoJob>>} \cup {<<"sub_hire", j, NoJob>> : j \in OpenJobs}
                   \cup {<<"sub_hire", NoJob, j>> : j \in FromBooking} :
        LET x == Tied(tie[1], n, tie[2], tie[3], FALSE, at)
        IN  /\ spent' = Append(spent, x)
            /\ queue' = Append(queue, ExpenseOp(Len(spent) + 1, x))
    BY DEF RecordExpense
<1> DEFINE x == Tied(tie[1], n, tie[2], tie[3], FALSE, at)
           e == Len(spent) + 1
           q == ExpenseOp(e, x)
<1>2. Room(1) /\ UNCHANGED <<serverVars, book, pots, idMap, others, gearOut, paidOut, barred, barredThere>>
    BY DEF RecordExpense, Untouched
<1>3. /\ Len(spent) \in Nat /\ DOMAIN spent = 1 .. Len(spent) /\ spent \in Seq(Expense)
      /\ Len(queue) \in Nat /\ e \in Lines /\ OpenJobs \in SUBSET Jobs /\ n \in Nat
      /\ FromBooking \in SUBSET Jobs /\ at \in Nat /\ at <= Len(queue) + 1
    BY <1>2, SeqFacts, CounterFacts, HisaabAssumption DEF PhoneInv, HisaabTypeOK, Now
<1>4. tie[1] \in {"repair", "sub_hire", "misc"} /\ tie[2] \in Jobs \cup {NoJob}
      /\ tie[3] \in Jobs \cup {NoJob}
    BY <1>3
<1>5. x \in Expense /\ x.reverses = 0 /\ x.at = at
    BY <1>3, <1>4 DEF Tied, Expense
<1>6. spent' = Append(spent, x) /\ queue' = Append(queue, q)
    BY <1>1
<1> HIDE DEF x
<1>7. q \in OpRec /\ q.op = "expense" /\ q.line = e /\ q.deposit = 0
    BY <1>3, <1>5, ExpenseOpIsTyped
<1> HIDE DEF q
<1>8. /\ spent' \in Seq(Expense) /\ Len(spent') = Len(spent) + 1
      /\ DOMAIN spent' = 1 .. Len(spent) + 1
      /\ \A k \in DOMAIN spent : spent'[k] = spent[k]
      /\ spent'[Len(spent) + 1] = x
    BY <1>3, <1>5, <1>6, AppendIsSeq
<1>9. \A k \in DOMAIN spent' : (k \in DOMAIN spent /\ spent'[k] = spent[k])
         \/ (spent'[k].reverses < k /\ spent'[k].at <= Len(queue) + 1)
    BY <1>3, <1>5, <1>8
<1>10. q.op \notin Verbs \cup {"lend"} /\ q.line \in DOMAIN spent'
    BY <1>3, <1>7, <1>8 DEF Verbs
<1>11. gearOut' \in Jobs \cup {NoJob} /\ barred' \in BOOLEAN
    BY <1>2 DEF PhoneInv, HisaabTypeOK, MoneyTypeOK
<1> QED BY <1>2, <1>6, <1>7, <1>8, <1>9, <1>10, <1>11, OpAct

LEMMA ReverseExpenseKeeps ==
    ASSUME PhoneInv, NEW v \in DOMAIN spent, ReverseExpense(v) PROVE PhoneInv'
<1> DEFINE x == [spent[v] EXCEPT !.reverses = v, !.at = Now]
           e == Len(spent) + 1
           payload == {ExpenseThing(e), ExpenseThing(v)}
           q == Op("unspend", e, NoJob, 0, payload, {ExpenseThing(v)})
<1>1. /\ Room(1) /\ UNCHANGED <<serverVars, book, pots, idMap, others, gearOut, paidOut, barred, barredThere>>
      /\ spent' = Append(spent, x) /\ queue' = Append(queue, q)
    BY DEF ReverseExpense, Untouched
<1>2. /\ Len(spent) \in Nat /\ DOMAIN spent = 1 .. Len(spent) /\ spent \in Seq(Expense)
      /\ Len(queue) \in Nat /\ e \in Lines /\ e \in Nat /\ v \in Nat /\ v \in Lines /\ v < e
      /\ Now \in Nat /\ Now <= Len(queue) + 1 /\ NoJob \in JobOrNone /\ 0 \in Nat
    BY <1>1, SeqFacts, CounterFacts DEF PhoneInv, HisaabTypeOK, Now, Lines, Counts, JobOrNone
<1>3. x \in Expense /\ x.reverses = v /\ x.at = Now
  <2>1. spent[v] \in Expense
      BY <1>2, ElementsAreTyped
  <2> QED BY <1>2, <2>1 DEF Expense
<1>4. payload \in SUBSET Things /\ queue \in Seq(OpRec) /\ "unspend" \in OpKinds
    BY <1>2, ThingsAreNamed DEF OpKinds, ExpenseOps, PhoneInv, HisaabTypeOK, MoneyTypeOK
<1> HIDE DEF x, payload
<1>5. q \in OpRec /\ q.op = "unspend" /\ q.line = e /\ q.deposit = 0
    BY <1>2, <1>4, OpIsTyped
<1> HIDE DEF q
<1>6. /\ spent' \in Seq(Expense) /\ Len(spent') = Len(spent) + 1
      /\ DOMAIN spent' = 1 .. Len(spent) + 1
      /\ \A k \in DOMAIN spent : spent'[k] = spent[k]
      /\ spent'[Len(spent) + 1] = x
    BY <1>1, <1>2, <1>3, AppendIsSeq
<1>7. \A k \in DOMAIN spent' : (k \in DOMAIN spent /\ spent'[k] = spent[k])
         \/ (spent'[k].reverses < k /\ spent'[k].at <= Len(queue) + 1)
    BY <1>2, <1>3, <1>6
<1>8. q.op \notin Verbs \cup {"lend"} /\ q.line \in DOMAIN spent'
    BY <1>2, <1>5, <1>6 DEF Verbs
<1>9. gearOut' \in Jobs \cup {NoJob} /\ barred' \in BOOLEAN
    BY <1>1 DEF PhoneInv, HisaabTypeOK, MoneyTypeOK
<1> QED BY <1>1, <1>5, <1>6, <1>7, <1>8, <1>9, OpAct

LEMMA RecordServicedKeeps ==
    ASSUME PhoneInv, RecordServiced PROVE PhoneInv'
<1> DEFINE e == Len(spent) + 1
           o == Len(queue) + 1
<1>1. PICK n \in Spends :
        LET x == Tied("repair", n, NoJob, NoJob, TRUE, Now)
        IN  /\ spent' = Append(spent, x)
            /\ queue' = queue \o <<ExpenseOp(e, x),
                 [Op("serviced", 0, NoJob, 0, {ExpenseThing(e)}, {}) EXCEPT !.dep = Now]>>
    BY DEF RecordServiced
<1> DEFINE x == Tied("repair", n, NoJob, NoJob, TRUE, Now)
           q == ExpenseOp(e, x)
           free == Op("serviced", 0, NoJob, 0, {ExpenseThing(e)}, {})
           s == [free EXCEPT !.dep = Now]
<1>2. Room(2) /\ UNCHANGED <<serverVars, book, pots, idMap, others, gearOut, paidOut, barred, barredThere>>
    BY DEF RecordServiced, Untouched
<1>3. /\ Len(spent) \in Nat /\ DOMAIN spent = 1 .. Len(spent) /\ spent \in Seq(Expense)
      /\ Len(queue) \in Nat /\ DOMAIN queue = 1 .. Len(queue) /\ queue \in Seq(OpRec)
      /\ Len(book) \in Nat /\ Len(pots) \in Nat /\ MaxOps \in Nat
    BY SeqFacts DEF PhoneInv, HisaabTypeOK, MoneyTypeOK
<1>4. /\ Room(1) /\ e \in Lines /\ e \in Nat /\ n \in Nat /\ Now \in Nat /\ Now = Len(queue) + 1
      /\ NoJob \in JobOrNone /\ 0 \in Nat
    BY <1>2, <1>3, CounterFacts DEF Now, Lines, Room, JobOrNone
<1>5. x \in Expense /\ x.reverses = 0 /\ x.at = Now
    BY <1>4 DEF Tied, Expense
<1>6. spent' = Append(spent, x) /\ queue' = queue \o <<q, s>>
    BY <1>1
<1> HIDE DEF x
<1>7. q \in OpRec /\ q.op = "expense" /\ q.line = e /\ q.deposit = 0
    BY <1>4, <1>5, ExpenseOpIsTyped
<1>8. free \in OpRec /\ free.op = "serviced" /\ free.deposit = 0
  <2>1. {ExpenseThing(e)} \in SUBSET Things /\ "serviced" \in OpKinds
      BY <1>4, ThingsAreNamed DEF OpKinds, Elsewhere
  <2> QED BY <1>3, <1>4, <2>1, OpIsTyped
<1> HIDE DEF q, free
<1>9. s \in OpRec /\ s.op = "serviced" /\ s.deposit = 0
    BY <1>4, <1>8, ChainedOp
<1> HIDE DEF s
<1>10. /\ spent' \in Seq(Expense) /\ Len(spent') = Len(spent) + 1
       /\ DOMAIN spent' = 1 .. Len(spent) + 1
       /\ \A k \in DOMAIN spent : spent'[k] = spent[k]
       /\ spent'[Len(spent) + 1] = x
    BY <1>3, <1>5, <1>6, AppendIsSeq
<1>11. /\ queue' \in Seq(OpRec) /\ Len(queue') = o + 1
       /\ DOMAIN queue' = 1 .. o + 1
       /\ \A k \in DOMAIN queue : queue'[k] = queue[k]
       /\ queue'[o] = q /\ queue'[o + 1] = s
    BY <1>3, <1>6, <1>7, <1>9
<1>12. HisaabTypeOK'
    BY <1>2, <1>10, <1>11 DEF PhoneInv, HisaabTypeOK, MoneyTypeOK, ServerTypeOK, serverVars
<1>13. Counts'
    BY <1>2, <1>3, <1>10, <1>11 DEF PhoneInv, Counts, Room
<1>14. \A k \in DOMAIN spent' : (k \in DOMAIN spent /\ spent'[k] = spent[k]) \/ NewExpense(k)'
    BY <1>3, <1>4, <1>5, <1>10, <1>11 DEF NewExpense
<1>15. ASSUME NEW k \in DOMAIN queue', k \notin DOMAIN queue PROVE OpFits(k)'
  <2>1. k = o \/ k = o + 1
      BY <1>3, <1>11, <1>15
  <2>2. /\ queue'[k].deposit = 0 /\ queue'[k].op \in {"expense", "serviced"}
        /\ queue'[k].op = "expense" => queue'[k].line \in DOMAIN spent'
      BY <1>3, <1>7, <1>9, <1>10, <1>11, <2>1
  <2>3. 0 \in 0 .. Len(pots') /\ {"expense", "serviced"} \cap (Verbs \cup {"lend"}) = {}
        /\ "serviced" \notin ExpenseOps
      BY <1>2, <1>3 DEF ExpenseOps, Verbs
  <2> QED BY <2>2, <2>3 DEF OpFits
<1>16. \A k \in DOMAIN queue' : (k \in DOMAIN queue /\ SameOp(queue'[k], queue[k])) \/ OpFits(k)'
    BY <1>11, <1>15 DEF SameOp
<1>17. /\ Len(queue) <= Len(queue') /\ Len(pots) <= Len(pots') /\ Len(book) <= Len(book')
       /\ book' = book /\ Len(spent) <= Len(spent')
    BY <1>2, <1>3, <1>10, <1>11
<1> HIDE DEF e, o
<1> QED BY <1>12, <1>13, <1>14, <1>16, <1>17, GrowthKeeps

-----------------------------------------------------------------------------
(* The pipe and the other desk.                                            *)

States == {"pending", "sent", "failed", "done"}

LEMMA MarkedQueue ==
    ASSUME PhoneInv, NEW S, NEW s \in States
    PROVE  /\ ToState(S, s) \in Seq(OpRec) /\ Len(ToState(S, s)) = Len(queue)
           /\ DOMAIN ToState(S, s) = DOMAIN queue
           /\ \A o \in DOMAIN queue : SameOp(ToState(S, s)[o], queue[o])
<1>1. /\ queue \in Seq(OpRec) /\ Len(queue) \in Nat /\ DOMAIN queue = 1 .. Len(queue)
      /\ \A o \in DOMAIN queue : queue[o] \in OpRec
    BY SeqFacts DEF PhoneInv, HisaabTypeOK, MoneyTypeOK
<1>2. \A q \in OpRec : LET r == [q EXCEPT !.state = s] IN r \in OpRec /\ SameOp(r, q)
    BY DEF OpRec, SameOp, States
<1>3. \A q \in OpRec : SameOp(q, q)
    BY DEF SameOp
<1> DEFINE n == Len(queue)
           mark == [o \in 1 .. n |-> IF o \in S THEN [queue[o] EXCEPT !.state = s] ELSE queue[o]]
<1>4. ToState(S, s) = mark
    BY <1>1 DEF ToState
<1>5. \A o \in 1 .. n : mark[o] \in OpRec /\ SameOp(mark[o], queue[o])
    BY <1>1, <1>2, <1>3
<1>6. mark \in [1 .. n -> OpRec]
    BY <1>5
<1>7. mark \in Seq(OpRec) /\ Len(mark) = n /\ DOMAIN mark = 1 .. n
  <2> HIDE DEF mark
  <2> QED BY <1>1, <1>6
<1> HIDE DEF mark
<1> QED BY <1>1, <1>4, <1>5, <1>7

OnlyStates ==
    /\ queue' \in Seq(OpRec) /\ Len(queue') = Len(queue) /\ DOMAIN queue' = DOMAIN queue
    /\ \A o \in DOMAIN queue : SameOp(queue'[o], queue[o])

LEMMA OnlyStatesMove ==
    ASSUME PhoneInv
    PROVE  /\ queue' = queue => OnlyStates
           /\ \A S : \A s \in States : queue' = ToState(S, s) => OnlyStates
           /\ \A o : queue' = ToState({o}, "sent") => OnlyStates
           /\ \A o : queue' = ToState({o}, "done") => OnlyStates
           /\ \A o : Park(o) => OnlyStates
<1>1. queue' = queue => OnlyStates
    BY DEF OnlyStates, PhoneInv, HisaabTypeOK, MoneyTypeOK, SameOp
<1>2. ASSUME NEW S, NEW s \in States, queue' = ToState(S, s) PROVE OnlyStates
    BY <1>2, MarkedQueue DEF OnlyStates
<1>3. "sent" \in States /\ "failed" \in States /\ "done" \in States
    BY DEF States
<1> QED BY <1>1, <1>2, <1>3 DEF Park

(* A step that leaves the counter's books as they are.                     *)
LEMMA PipeKeeps ==
    ASSUME PhoneInv, OnlyStates, ServerTypeOK', idMap' \in [Things -> Nat], others' \in 0 .. MaxOther,
           paidOut' \in Seq(Paid), barredThere' \in BOOLEAN,
           UNCHANGED <<book, pots, gearOut, spent, barred>>
    PROVE  PhoneInv'
<1>1. /\ queue' \in Seq(OpRec) /\ Len(queue') = Len(queue) /\ DOMAIN queue' = DOMAIN queue
      /\ \A o \in DOMAIN queue : SameOp(queue'[o], queue[o])
    BY DEF OnlyStates
<1>2. HisaabTypeOK'
    BY <1>1 DEF PhoneInv, HisaabTypeOK, MoneyTypeOK
<1>3. Counts'
    BY <1>1 DEF PhoneInv, Counts
<1>4. Len(queue) \in Nat /\ Len(book) \in Nat /\ Len(pots) \in Nat /\ Len(spent) \in Nat
    BY SeqFacts DEF PhoneInv
<1> QED BY <1>1, <1>2, <1>3, <1>4, GrowthKeeps

(* What the ack teaches.                                                   *)
LEMMA LearnIsTyped ==
    ASSUME PhoneInv, NEW o, NEW id \in Nat, Learn(o, id)
    PROVE  idMap' \in [Things -> Nat]
    BY DEF Learn, PhoneInv, HisaabTypeOK, MoneyTypeOK

LEMMA NewIdIsNat == ASSUME PhoneInv, NEW o PROVE NewId(o) \in Nat
<1>1. Len(deposits) \in Nat /\ Len(ledger) \in Nat
    BY DEF PhoneInv, HisaabTypeOK, MoneyTypeOK, ServerTypeOK
<1> QED BY <1>1 DEF NewId

LEMMA PaidRowIsTyped ==
    ASSUME PhoneInv, NEW o \in DOMAIN queue, queue[o].op \in ExpenseOps
    PROVE  PaidRow(o) \in Paid
<1> DEFINE x == spent[queue[o].line]
<1>1. queue[o].line \in DOMAIN spent
    BY DEF PhoneInv, OpFits
<1>2. x \in Expense /\ x.reverses < queue[o].line
    BY <1>1, SeqFacts DEF PhoneInv
<1>3. x.reverses \in Nat /\ x.amount \in Nat
    BY <1>2 DEF Expense
<1>4. x.reverses # 0 => x.reverses \in Lines
    BY <1>1, <1>2, <1>3, SeqFacts DEF PhoneInv, Counts, Lines
<1>5. x.reverses # 0 => Id(ExpenseThing(x.reverses)) \in Nat
    BY <1>4, ThingsAreNamed DEF Id, PhoneInv, HisaabTypeOK, MoneyTypeOK
<1> HIDE DEF x
<1>6. PaidRow(o) = [amount |-> x.amount,
                    reverses |-> IF x.reverses = 0 THEN 0 ELSE Id(ExpenseThing(x.reverses))]
    BY DEF PaidRow, x
<1> QED BY <1>3, <1>5, <1>6 DEF Paid

LEMMA MoneyStepsKeep ==
    ASSUME PhoneInv, ServerTypeOK',
           Send \/ Refused \/ Answered \/ RolledBack \/ AnsweredElsewhere \/ OtherBegins \/ OtherEnds,
           UNCHANGED houseVars
    PROVE  PhoneInv'
<1>1. /\ idMap \in [Things -> Nat] /\ others \in 0 .. MaxOther /\ paidOut' \in Seq(Paid)
      /\ barredThere' \in BOOLEAN /\ UNCHANGED <<spent, barred>> /\ MaxOther \in Nat
    BY MoneyBookAssumption DEF PhoneInv, HisaabTypeOK, MoneyTypeOK, houseVars
<1>3. CASE Send
    BY <1>1, <1>3, OnlyStatesMove, PipeKeeps DEF Send
<1>4. CASE Refused
    BY <1>1, <1>4, OnlyStatesMove, PipeKeeps DEF Refused
<1>5. CASE Answered
  <2>1. PICK o \in Pending : Learn(o, NewId(o)) /\ queue' = ToState({o}, "done")
      BY <1>5 DEF Answered
  <2>2. idMap' \in [Things -> Nat]
      BY <2>1, LearnIsTyped, NewIdIsNat
  <2> QED BY <1>1, <1>5, <2>1, <2>2, OnlyStatesMove, PipeKeeps DEF Answered
<1>6. CASE RolledBack
    BY <1>1, <1>6, OnlyStatesMove, PipeKeeps DEF RolledBack
<1>7. CASE AnsweredElsewhere
  <2>1. idMap' \in [Things -> Nat]
      BY <1>7, LearnIsTyped DEF AnsweredElsewhere
  <2> QED BY <1>1, <1>7, <2>1, OnlyStatesMove, PipeKeeps DEF AnsweredElsewhere
<1>8. CASE OtherBegins
  <2>1. others' \in 0 .. MaxOther
      BY <1>1, <1>8 DEF OtherBegins
  <2> QED BY <1>1, <1>8, <2>1, OnlyStatesMove, PipeKeeps DEF OtherBegins, phoneVars
<1>9. CASE OtherEnds
    BY <1>1, <1>9, OnlyStatesMove, PipeKeeps DEF OtherEnds, phoneVars
<1> QED BY <1>3, <1>4, <1>5, <1>6, <1>7, <1>8, <1>9

LEMMA HouseStepsKeep ==
    ASSUME PhoneInv, ExpenseAnswered \/ BarLands \/ OtherReverses
    PROVE  PhoneInv'
<1>1. /\ idMap \in [Things -> Nat] /\ others \in 0 .. MaxOther /\ paidOut \in Seq(Paid)
      /\ barredThere \in BOOLEAN /\ MaxOther \in Nat /\ queue \in Seq(OpRec) /\ ServerTypeOK
    BY MoneyBookAssumption DEF PhoneInv, HisaabTypeOK, MoneyTypeOK
<1>3. CASE ExpenseAnswered
  <2>1. First \in DOMAIN queue /\ queue[First].op \in ExpenseOps
      BY <1>1, <1>3, PendingIsIn DEF ExpenseAnswered
  <2>2. UNCHANGED <<serverVars, book, pots, gearOut, others, spent, barred, barredThere>>
      BY <1>3 DEF ExpenseAnswered
  <2>3. ServerTypeOK'
      BY <1>1, <2>2 DEF ServerTypeOK, serverVars
  <2>4. CASE ExpenseLands(First)
    <3>1. paidOut' \in Seq(Paid) /\ Len(paidOut) + 1 \in Nat
        BY <1>1, <2>1, <2>4, PaidRowIsTyped, AppendIsSeq DEF ExpenseLands
    <3>2. idMap' \in [Things -> Nat]
        BY <2>4, <3>1, LearnIsTyped DEF ExpenseLands
    <3> QED BY <1>1, <2>2, <2>3, <2>4, <3>1, <3>2, OnlyStatesMove, PipeKeeps DEF ExpenseLands
  <2>5. CASE Park(First) /\ UNCHANGED <<paidOut, idMap>>
      BY <1>1, <2>2, <2>3, <2>5, OnlyStatesMove, PipeKeeps
  <2> QED BY <1>3, <2>4, <2>5 DEF ExpenseAnswered
<1>4. CASE BarLands
  <2>1. ServerTypeOK' /\ barredThere' \in BOOLEAN
      BY <1>1, <1>4 DEF BarLands, ServerTypeOK, serverVars
  <2> QED BY <1>1, <1>4, <2>1, OnlyStatesMove, PipeKeeps DEF BarLands
<1>5. CASE OtherReverses
  <2>1. PICK e \in Live(paidOut) : paidOut' = Append(paidOut, [paidOut[e] EXCEPT !.reverses = e])
      BY <1>5 DEF OtherReverses
  <2>2. e \in DOMAIN paidOut /\ e \in Nat /\ paidOut[e] \in Paid
      BY <1>1, <2>1, SeqFacts, ElementsAreTyped DEF Live, PhoneInv
  <2>3. [paidOut[e] EXCEPT !.reverses = e] \in Paid
      BY <2>2 DEF Paid
  <2>4. paidOut' \in Seq(Paid)
      BY <1>1, <2>1, <2>3, AppendIsSeq
  <2>5. ServerTypeOK' /\ others' \in 0 .. MaxOther
      BY <1>1, <1>5 DEF OtherReverses, ServerTypeOK, serverVars
  <2> QED BY <1>1, <1>5, <2>4, <2>5, OnlyStatesMove, PipeKeeps DEF OtherReverses, phoneVars
<1> QED BY <1>3, <1>4, <1>5

-----------------------------------------------------------------------------
(* The server sees calls and nothing else.                                 *)

LEMMA RpcOfIsRpc ==
    ASSUME PhoneInv, NEW o \in DOMAIN queue, Money(o)
    PROVE  RpcOf(o) \in Rpc
<1> DEFINE q == queue[o]
           l == book[q.line]
           verb == IF q.op = "lend" THEN "entry" ELSE q.op
           amount == IF q.op \in {"apply", "refund"} THEN -l.amount ELSE l.amount
           held == Arg(PotThing, IF q.op = "hold" THEN 0 ELSE q.deposit)
           c == Arg(LineThing, l.corrects)
           r == Arg(LineThing, l.reverses)
<1>1. q \in OpRec /\ q.line \in DOMAIN book /\ q.deposit \in 0 .. Len(pots)
    BY SeqFacts DEF PhoneInv, OpFits, Money
<1>2. l \in LineRec /\ LineFits(book, q.line) /\ q.line \in Lines /\ q.line \in Nat
    BY <1>1, SeqFacts DEF PhoneInv, Counts, Lines
<1>3. \A i \in Lines \cup {0} : Arg(LineThing, i) \in Nat /\ Arg(PotThing, i) \in Nat
  <2>1. \A t \in Things : Id(t) \in Nat
      BY DEF Id, PhoneInv, HisaabTypeOK, MoneyTypeOK
  <2> QED BY <2>1, ThingsAreNamed DEF Arg
<1>4. l.corrects \in Lines \cup {0} /\ l.reverses \in Lines \cup {0}
  <2>1. l.corrects \in 0 .. q.line - 1 /\ l.reverses \in 0 .. q.line - 1 /\ MaxOps \in Nat
      BY <1>2, MoneyBookAssumption DEF LineFits
  <2> QED BY <1>2, <2>1 DEF Lines
<1>5. c \in Nat /\ r \in Nat
    BY <1>3, <1>4
<1>6. held \in Nat
  <2>1. q.deposit \in Lines \cup {0}
      BY <1>1, SeqFacts DEF PhoneInv, Counts, Lines
  <2>2. (IF q.op = "hold" THEN 0 ELSE q.deposit) \in Lines \cup {0}
      BY <2>1
  <2> QED BY <1>3, <2>2
<1>7. amount \in Int /\ l.kind \in EntryKinds \cup DepositKinds
    BY <1>2 DEF LineRec
<1>8. verb \in Verbs
    BY DEF Money, Verbs
<1>9. RpcOf(o) = [verb |-> verb, kind |-> l.kind, amount |-> amount,
                  corrects |-> c, reverses |-> r, deposit |-> held]
    BY DEF RpcOf
<1> HIDE DEF verb, amount, c, r, held, l
<1> QED BY <1>5, <1>6, <1>7, <1>8, <1>9 DEF Rpc

LEMMA OtherRpcsAreRpcs ==
    ASSUME PhoneInv, NEW r \in OtherRpcs PROVE r \in Rpc
<1>1. /\ Len(ledger) \in Nat /\ DOMAIN ledger = 1 .. Len(ledger)
      /\ Len(deposits) \in Nat /\ DOMAIN deposits = 1 .. Len(deposits)
      /\ \A i \in DOMAIN ledger : ledger[i] \in Row
    BY DEF PhoneInv, HisaabTypeOK, MoneyTypeOK, ServerTypeOK
<1>2. \A k \in EntryKinds \cup DepositKinds, n \in Int, c \in Nat, v \in Nat : Entry(k, n, c, v) \in Rpc
    BY DEF Entry, Rpc, Verbs
<1>3. \A verb \in Verbs, k \in DepositKinds, n \in Int, dep \in Nat : Move(verb, k, n, dep) \in Rpc
    BY DEF Move, Rpc
<1>4. /\ \A i \in DOMAIN ledger : /\ ledger[i].kind \in EntryKinds \cup DepositKinds
                                  /\ -ledger[i].amount \in Int /\ i \in Nat
      /\ \A n \in Amounts \cup Taken : n \in Int
      /\ \A p \in DOMAIN deposits : p \in Nat
    BY <1>1, MoneyBookAssumption DEF Row
<1>5. /\ "reversal" \in EntryKinds \cup DepositKinds /\ "apply" \in Verbs /\ "refund" \in Verbs
      /\ "deposit_apply" \in DepositKinds /\ "deposit_refund" \in DepositKinds
    BY DEF EntryKinds, DepositKinds, Verbs
<1>6. CASE r \in {Entry("reversal", -ledger[i].amount, 0, i) : i \in DOMAIN ledger}
    BY <1>2, <1>4, <1>5, <1>6
<1>7. CASE r \in {Entry(ledger[i].kind, n, i, 0) : i \in DOMAIN ledger, n \in Amounts}
    BY <1>2, <1>4, <1>7
<1>8. CASE r \in {Move("apply", "deposit_apply", n, p) : p \in DOMAIN deposits, n \in Taken}
    BY <1>3, <1>4, <1>5, <1>8
<1>9. CASE r \in {Move("refund", "deposit_refund", 0, p) : p \in DOMAIN deposits}
    BY <1>3, <1>4, <1>5, <1>9
<1> QED BY <1>6, <1>7, <1>8, <1>9 DEF OtherRpcs

LEMMA BeginIsServerStep ==
    ASSUME PhoneInv, NEW d \in Desks, NEW r \in Rpc, Begin(d, r)
    PROVE  ServerNext
<1>1. call'[d] = r
    BY DEF Begin, PhoneInv, HisaabTypeOK, MoneyTypeOK, ServerTypeOK
<1> QED BY <1>1 DEF ServerNext

LEMMA CounterLeavesTheServer ==
    ASSUME AtTheCounter PROVE UNCHANGED serverVars
    BY DEF AtTheCounter, RecordCharge, RecordPayment, WriteOffBalance, WaiveLateFee, HoldDeposit,
           CorrectEntry, WriteOffEntry, ApplyDeposit, RefundDeposit, CreateJob, JobOp, LendOut,
           ScanUnit, Untouched, MoveDeposit

(* Every step of the house is a step of the server's book, or none of it.  *)
LEMMA HouseStepIsServerStep ==
    ASSUME PhoneInv, [HisaabNext]_hisaabVars PROVE [ServerNext]_serverVars
<1>1. Phone \in Desks /\ Other \in Desks
    BY MoneyBookAssumption
<1>2. CASE AtTheCounter
    BY <1>2, CounterLeavesTheServer
<1>3. CASE Send
  <2>1. First \in DOMAIN queue
      BY <1>3, PendingIsIn DEF Send, PhoneInv, HisaabTypeOK, MoneyTypeOK
  <2>2. RpcOf(First) \in Rpc
      BY <1>3, <2>1, RpcOfIsRpc DEF Send
  <2> QED BY <1>1, <1>3, <2>2, BeginIsServerStep DEF Send
<1>4. CASE Answered
    BY <1>1, <1>4 DEF Answered, ServerNext
<1>5. CASE RolledBack
    BY <1>1, <1>5 DEF RolledBack, ServerNext
<1>6. CASE OtherBegins
    BY <1>1, <1>6, OtherRpcsAreRpcs, BeginIsServerStep DEF OtherBegins
<1>7. CASE OtherEnds
    BY <1>1, <1>7 DEF OtherEnds, ServerNext
<1>8. CASE Refused \/ AnsweredElsewhere
    BY <1>8 DEF Refused, AnsweredElsewhere
<1>9. CASE RecordExpense \/ RecordServiced \/ (\E e \in DOMAIN spent : ReverseExpense(e)) \/ SetBlacklisted
    BY <1>9 DEF RecordExpense, RecordServiced, ReverseExpense, SetBlacklisted, Untouched
<1>10. CASE ExpenseAnswered \/ BarLands \/ OtherReverses
    BY <1>10 DEF ExpenseAnswered, BarLands, OtherReverses
<1>11. CASE UNCHANGED hisaabVars
    BY <1>11 DEF hisaabVars, vars
<1> QED BY <1>2, <1>3, <1>4, <1>5, <1>6, <1>7, <1>8, <1>9, <1>10, <1>11 DEF HisaabNext, Next

-----------------------------------------------------------------------------
(* The invariant of both sides.                                            *)

HisaabInv == PhoneInv /\ MoneyInv

LEMMA OneOp ==
    ASSUME NEW q \in OpRec, queue = <<q>>
    PROVE  queue \in Seq(OpRec) /\ Len(queue) = 1 /\ DOMAIN queue = {1} /\ queue[1] = q
    OBVIOUS

LEMMA NothingYet ==
    ASSUME NEW S
    PROVE  <<>> \in Seq(S) /\ DOMAIN <<>> = {} /\ Len(<<>>) = 0
    OBVIOUS

LEMMA HisaabStarts == HisaabInit => HisaabInv
<1> SUFFICES ASSUME HisaabInit PROVE HisaabInv
    OBVIOUS
<1>1. MoneyInv
    BY DEF HisaabInit, Init, ServerInit, MoneyInv, ServerTypeOK, CallSound, SettledOncePerVerb,
           NoCall, Moves
<1>2. MaxOps \in Nat /\ MaxOther \in Nat
    BY MoneyBookAssumption
<1>3. PICK landed \in BOOLEAN :
        /\ idMap = [t \in Things |-> IF landed /\ t[1] \in {"customer", "job"} THEN 1 ELSE 0]
        /\ queue = <<[op |-> "create_customer", line |-> 0, job |-> NoJob, deposit |-> 0,
                      names |-> {<<Customer, "phone">>}, dep |-> 0,
                      state |-> IF landed THEN "done" ELSE "pending"]>>
    BY DEF HisaabInit, Init
<1> DEFINE q == [op |-> "create_customer", line |-> 0, job |-> NoJob, deposit |-> 0,
                 names |-> {<<Customer, "phone">>}, dep |-> 0,
                 state |-> IF landed THEN "done" ELSE "pending"]
<1>4. q \in OpRec /\ q.op = "create_customer" /\ q.deposit = 0
    BY ThingsAreNamed DEF OpRec, Elsewhere
<1>5. queue = <<q>>
    BY <1>3
<1> HIDE DEF q
<1>6. queue \in Seq(OpRec) /\ Len(queue) = 1 /\ DOMAIN queue = {1} /\ queue[1] = q
    BY <1>4, <1>5, OneOp
<1>7. /\ book = <<>> /\ pots = <<>> /\ spent = <<>> /\ paidOut = <<>>
      /\ others = 0 /\ gearOut = NoJob /\ barred = FALSE /\ barredThere = FALSE
    BY DEF HisaabInit, Init
<1>8. /\ book \in Seq(LineRec) /\ DOMAIN book = {} /\ Len(book) = 0
      /\ pots \in Seq(Deposit) /\ DOMAIN pots = {} /\ Len(pots) = 0
      /\ spent \in Seq(Expense) /\ DOMAIN spent = {} /\ Len(spent) = 0
      /\ paidOut \in Seq(Paid)
    BY <1>7, NothingYet
<1>9. idMap \in [Things -> Nat]
    BY <1>3
<1>10. others \in 0 .. MaxOther /\ {barred, barredThere} \subseteq BOOLEAN
  <2>1. 0 \in 0 .. MaxOther
      BY <1>2
  <2> QED BY <1>7, <2>1
<1>11. ServerTypeOK
    BY <1>1 DEF MoneyInv
<1>12. HisaabTypeOK
    BY <1>6, <1>7, <1>8, <1>9, <1>10, <1>11 DEF HisaabTypeOK, MoneyTypeOK
<1>13. Counts
    BY <1>2, <1>6, <1>8 DEF Counts
<1>14. \A o \in DOMAIN queue : OpFits(o)
    BY <1>4, <1>6, <1>8 DEF OpFits, Verbs, ExpenseOps
<1> QED BY <1>1, <1>8, <1>12, <1>13, <1>14 DEF HisaabInv, PhoneInv

LEMMA CounterKeeps ==
    ASSUME PhoneInv, AtTheCounter, UNCHANGED houseVars PROVE PhoneInv'
    BY RecordChargeKeeps, RecordPaymentKeeps, WriteOffBalanceKeeps, WaiveLateFeeKeeps,
       HoldDepositKeeps, SettlingKeeps, ApplyDepositKeeps, RefundDepositKeeps, JobActsKeep,
       LendOutKeeps, ScanUnitKeeps
       DEF AtTheCounter

LEMMA HouseRests ==
    ASSUME PhoneInv, ServerTypeOK', UNCHANGED hisaabVars PROVE PhoneInv'
<1>1. /\ UNCHANGED <<book, pots, queue, idMap, gearOut, others>>
      /\ UNCHANGED <<spent, paidOut, barred, barredThere>>
    BY DEF hisaabVars, vars, phoneVars, houseVars
<1>2. /\ idMap \in [Things -> Nat] /\ others \in 0 .. MaxOther /\ paidOut \in Seq(Paid)
      /\ barredThere \in BOOLEAN
    BY DEF PhoneInv, HisaabTypeOK, MoneyTypeOK
<1>3. OnlyStates
    BY <1>1, OnlyStatesMove DEF phoneVars
<1>4. /\ idMap' \in [Things -> Nat] /\ others' \in 0 .. MaxOther /\ paidOut' \in Seq(Paid)
      /\ barredThere' \in BOOLEAN
    BY <1>1, <1>2
<1>5. UNCHANGED <<book, pots, gearOut, spent, barred>>
    BY <1>1
<1> QED BY <1>3, <1>4, <1>5, PipeKeeps

LEMMA HisaabStep == HisaabInv /\ [HisaabNext]_hisaabVars => HisaabInv'
<1> SUFFICES ASSUME HisaabInv, [HisaabNext]_hisaabVars PROVE HisaabInv'
    OBVIOUS
<1>1. PhoneInv /\ MoneyInv
    BY DEF HisaabInv
<1>2. MoneyInv'
    BY <1>1, HouseStepIsServerStep, MoneyStep
<1>3. ServerTypeOK'
    BY <1>2 DEF MoneyInv
<1>4. PhoneInv'
  <2>1. CASE Next /\ UNCHANGED houseVars
    <3>1. CASE AtTheCounter
        BY <1>1, <2>1, <3>1, CounterKeeps
    <3>2. CASE Send \/ Refused \/ Answered \/ RolledBack \/ AnsweredElsewhere \/ OtherBegins \/ OtherEnds
        BY <1>1, <1>3, <2>1, <3>2, MoneyStepsKeep
    <3> QED BY <2>1, <3>1, <3>2 DEF Next
  <2>2. CASE RecordExpense \/ RecordServiced \/ (\E e \in DOMAIN spent : ReverseExpense(e)) \/ SetBlacklisted
    <3>1. CASE RecordExpense \/ RecordServiced
        BY <1>1, <3>1, RecordExpenseKeeps, RecordServicedKeeps
    <3>2. CASE \E e \in DOMAIN spent : ReverseExpense(e)
        BY <1>1, <3>2, ReverseExpenseKeeps
    <3>3. CASE SetBlacklisted
        BY <1>1, <3>3, SetBlacklistedKeeps
    <3> QED BY <2>2, <3>1, <3>2, <3>3
  <2>3. CASE ExpenseAnswered \/ BarLands \/ OtherReverses
      BY <1>1, <2>3, HouseStepsKeep
  <2>4. CASE UNCHANGED hisaabVars
      BY <1>1, <1>3, <2>4, HouseRests
  <2> QED BY <2>1, <2>2, <2>3, <2>4 DEF HisaabNext
<1> QED BY <1>2, <1>4 DEF HisaabInv

(* Types, what a line may settle and what an op points at, on the phone;   *)
(* locks, bounds and unique indexes on the server.                         *)
THEOREM HisaabInvariant == HisaabSpec => []HisaabInv
    BY HisaabStarts, HisaabStep, PTL DEF HisaabSpec

(* The house's account is always of its type.                              *)
THEOREM HisaabTypeCorrect == HisaabSpec => []HisaabTypeOK
<1>1. HisaabInv => HisaabTypeOK
    BY DEF HisaabInv, PhoneInv
<1> QED BY <1>1, HisaabInvariant, PTL

(* Whatever the counter, the pipe and the other desk do, the server's book *)
(* moves only by whole calls, each begun on what was committed and ended   *)
(* once: the phone implements MoneyServer (migrations 0017 and 0018).      *)
THEOREM HouseImplementsServer == HisaabSpec => ImplementsMoneyServer
<1>1. HisaabInit => ServerInit
    BY DEF HisaabInit, Init
<1>2. HisaabInv /\ [HisaabNext]_hisaabVars => [ServerNext]_serverVars
    BY HouseStepIsServerStep DEF HisaabInv
<1> QED BY <1>1, <1>2, HisaabInvariant, PTL DEF HisaabSpec, ImplementsMoneyServer, ServerSpec

(* So no phone, and no two desks, overspend a deposit on the server.       *)
THEOREM HouseNeverOverspends == HisaabSpec => []NeverOverspent
    BY HouseImplementsServer, DepositsNeverOverspent, PTL DEF ImplementsMoneyServer

(* What a button of a money screen offers can be done: a notice's          *)
(* correction, a line that opens, an amount to draw from a deposit         *)
(* (khata.ts:564, KhataScreen.tsx:241, DepositSection.tsx:345).            *)
THEOREM OffersAreGood == HisaabSpec => []OffersCanBeTaken
<1>1. ASSUME HisaabInv PROVE OffersCanBeTaken
  <2>1. \A i \in DOMAIN book : book[i] \in LineRec /\ LineFits(book, i)
      BY <1>1, SeqFacts DEF HisaabInv, PhoneInv
  <2>2. \A i \in DOMAIN book \ Settled :
          book[i].kind \in ChargeKinds \cup {"payment"} => SettleTarget(i)
    <3>1. \A k \in ChargeKinds \cup {"payment"} :
             k \notin DepositKinds \cup {"reversal", "write_off", "adjustment"}
        BY DEF ChargeKinds, DepositKinds
    <3> QED BY <2>1, <3>1 DEF LineFits, SettleTarget
  <2>3. NoticesCanBeActedOn
    <3>1. \A i \in ChargedNotices \cup Duplicates :
            i \in DOMAIN book \ Settled /\ book[i].kind \in ChargeKinds
        BY DEF ChargedNotices, OnGear, Duplicates, ChargeKinds
    <3> QED BY <2>2, <3>1 DEF NoticesCanBeActedOn
  <2>4. \A i \in Openable : SettleTarget(i)
    <3>1. \A i \in Openable : i \in DOMAIN book \ Settled /\ book[i].kind \in ChargeKinds \cup {"payment"}
        BY DEF Openable, Shown
    <3> QED BY <2>2, <3>1
  <2>5. ASSUME NEW p \in DOMAIN pots, Remaining(p) > 0, NEW d \in Draws(p)
        PROVE  d \in 1 .. Remaining(p)
    <3>1. PICK i \in ApplyTargets(p) :
            d = IF book[i].amount < Remaining(p) THEN book[i].amount ELSE Remaining(p)
        BY <2>5 DEF Draws
    <3>2. i \in DOMAIN book /\ book[i].kind \in ChargeKinds
        BY DEF ApplyTargets
    <3>3. book[i].amount \in Int /\ book[i].amount > 0
        BY <2>1, <3>2 DEF LineRec, LineFits
    <3>4. Remaining(p) \in Nat
        BY <1>1, PotOf DEF HisaabInv
    <3> QED BY <2>5, <3>1, <3>3, <3>4
  <2> QED BY <2>3, <2>4, <2>5 DEF OffersCanBeTaken
<1> QED BY <1>1, HisaabInvariant, PTL

-----------------------------------------------------------------------------
(* Every sum of the money screens is a sum of a function.                  *)

Going == [i \in DOMAIN book |-> -book[i].amount]
Spend == [e \in DOMAIN spent |-> spent[e].amount]
Margins == [j \in Jobs |-> JobMargin(j)]

Remains(d) == IF d.refunded THEN 0 ELSE d.amount - d.applied
Purse(ps) == [p \in DOMAIN ps |-> Remains(ps[p])]
Rows(b) == [i \in DOMAIN b |-> b[i].amount]

LEMMA SumOverMinus ==
    ASSUME PhoneInv, NEW S \in SUBSET (DOMAIN book)
    PROVE  /\ IsFiniteSet(S) /\ \A x \in S : Going[x] = (-book[x].amount) /\ Going[x] \in Int
           /\ SumOver(S, Minus) = SumFn(Going, S)
<1>1. IsFiniteSet(S) /\ \A x \in S : Going[x] = (-book[x].amount) /\ Going[x] \in Int
  <2>1. IsFiniteSet(S) /\ \A x \in S : book[x].amount \in Int
      BY SumOverAmount
  <2> QED BY <2>1 DEF Going
<1> DEFINE Body(h, s) == IF s = {} THEN 0
                         ELSE (-book[(CHOOSE x \in s : TRUE)].amount) + h[s \ {CHOOSE x \in s : TRUE}]
           it == CHOOSE h : h = [s \in SUBSET S |-> Body(h, s)]
<1>2. SumOver(S, Minus) = it[S]
    BY DEF SumOver, MapThenSumSet, MapThenFoldSet, Minus
<1>3. \A h : \A s \in SUBSET S : Body(h, s) = SumStep(h, Going, s)
    BY <1>1 DEF SumStep, AnyOf
<1>4. PICK g \in [SUBSET S -> Int] : IsSumTable(g, Going, S)
    BY <1>1, SumTableExists
<1>5. g = [s \in SUBSET S |-> Body(g, s)]
  <2> HIDE DEF Body
  <2> QED BY <1>3, <1>4 DEF IsSumTable
<1>6. it = [s \in SUBSET S |-> Body(it, s)]
  <2> HIDE DEF Body
  <2> QED BY <1>5
<1> HIDE DEF it
<1>7. IsSumTable(it, Going, S)
  <2> HIDE DEF Body
  <2> QED BY <1>3, <1>6 DEF IsSumTable
<1>8. SumFn(Going, S) = it[S]
    BY <1>1, <1>7, SumIsTables
<1> QED BY <1>1, <1>2, <1>8

LEMMA MinusIsNegated ==
    ASSUME PhoneInv, NEW S \in SUBSET (DOMAIN book)
    PROVE  SumOver(S, Minus) = -SumFn(Coming, S) /\ SumFn(Coming, S) \in Int
<1>1. IsFiniteSet(S) /\ \A x \in S : Coming[x] \in Int /\ Going[x] = -Coming[x]
    BY SumOverAmount, SumOverMinus
<1>2. SumFn(Going, S) = -SumFn(Coming, S) /\ SumFn(Coming, S) \in Int
    BY <1>1, SumNegate
<1> QED BY <1>2, SumOverMinus

LEMMA TotalIsSum ==
    ASSUME PhoneInv, NEW S
    PROVE  LET L == Live(spent) \cap S
           IN  /\ IsFiniteSet(L) /\ L \subseteq DOMAIN spent
               /\ \A x \in L : Spend[x] \in Nat
               /\ Total(spent, S) = SumFn(Spend, L)
<1> DEFINE L == Live(spent) \cap S
<1>1. IsFiniteSet(L) /\ \A x \in L : Spend[x] = spent[x].amount /\ Spend[x] \in Nat
  <2>1. Len(spent) \in Nat /\ DOMAIN spent = 1 .. Len(spent) /\ \A e \in DOMAIN spent : spent[e] \in Expense
      BY SeqFacts DEF PhoneInv
  <2>2. IsFiniteSet(DOMAIN spent) /\ L \subseteq DOMAIN spent
      BY <2>1, FS_Interval DEF Live
  <2>3. IsFiniteSet(L) /\ \A x \in L : spent[x].amount \in Nat
      BY <2>1, <2>2, FS_Subset DEF Expense
  <2> QED BY <2>2, <2>3 DEF Spend
<1> DEFINE Body(h, s) == IF s = {} THEN 0
                         ELSE spent[(CHOOSE x \in s : TRUE)].amount + h[s \ {CHOOSE x \in s : TRUE}]
           it == CHOOSE h : h = [s \in SUBSET L |-> Body(h, s)]
<1>2. Total(spent, S) = it[L]
    BY DEF SumOver, MapThenSumSet, MapThenFoldSet, Total
<1>3. \A h : \A s \in SUBSET L : Body(h, s) = SumStep(h, Spend, s)
    BY <1>1 DEF SumStep, AnyOf
<1> HIDE DEF L
<1>4. PICK g \in [SUBSET L -> Int] : IsSumTable(g, Spend, L)
  <2>1. \A x \in L : Spend[x] \in Int
      BY <1>1
  <2> QED BY <1>1, <2>1, SumTableExists
<1>5. g = [s \in SUBSET L |-> Body(g, s)]
  <2> HIDE DEF Body
  <2> QED BY <1>3, <1>4 DEF IsSumTable
<1>6. it = [s \in SUBSET L |-> Body(it, s)]
  <2> HIDE DEF Body
  <2> QED BY <1>5
<1> HIDE DEF it
<1>7. IsSumTable(it, Spend, L)
  <2> HIDE DEF Body
  <2> QED BY <1>3, <1>6 DEF IsSumTable
<1>8. SumFn(Spend, L) = it[L]
  <2>1. \A x \in L : Spend[x] \in Int
      BY <1>1
  <2> QED BY <1>1, <1>7, <2>1, SumIsTables
<1> QED BY <1>1, <1>2, <1>8 DEF L, Live

LEMMA MarginsAreSummed ==
    ASSUME IsFiniteSet(Jobs), \A j \in Jobs : JobMargin(j) \in Int
    PROVE  /\ IsFiniteSet(Jobs) /\ \A x \in Jobs : Margins[x] = JobMargin(x) /\ Margins[x] \in Int
           /\ SumOver(Jobs, JobMargin) = SumFn(Margins, Jobs)
<1>1. IsFiniteSet(Jobs) /\ \A x \in Jobs : Margins[x] = JobMargin(x) /\ Margins[x] \in Int
    BY DEF Margins
<1> DEFINE Body(h, s) == IF s = {} THEN 0
                         ELSE JobMargin((CHOOSE x \in s : TRUE)) + h[s \ {CHOOSE x \in s : TRUE}]
           it == CHOOSE h : h = [s \in SUBSET Jobs |-> Body(h, s)]
<1>2. SumOver(Jobs, JobMargin) = it[Jobs]
    BY DEF SumOver, MapThenSumSet, MapThenFoldSet
<1>3. \A h : \A s \in SUBSET Jobs : Body(h, s) = SumStep(h, Margins, s)
    BY <1>1 DEF SumStep, AnyOf
<1>4. PICK g \in [SUBSET Jobs -> Int] : IsSumTable(g, Margins, Jobs)
    BY <1>1, SumTableExists
<1>5. g = [s \in SUBSET Jobs |-> Body(g, s)]
  <2> HIDE DEF Body
  <2> QED BY <1>3, <1>4 DEF IsSumTable
<1>6. it = [s \in SUBSET Jobs |-> Body(it, s)]
  <2> HIDE DEF Body
  <2> QED BY <1>5
<1> HIDE DEF it
<1>7. IsSumTable(it, Margins, Jobs)
  <2> HIDE DEF Body
  <2> QED BY <1>3, <1>6 DEF IsSumTable
<1>8. SumFn(Margins, Jobs) = it[Jobs]
    BY <1>1, <1>7, SumIsTables
<1> QED BY <1>1, <1>2, <1>8

LEMMA PursesAreSummed ==
    ASSUME PhoneInv
    PROVE  SumOver(DOMAIN pots, Remaining) = SumFn(Purse(pots), DOMAIN pots)
<1> DEFINE P == DOMAIN pots
<1>1. IsFiniteSet(P) /\ \A x \in P : Purse(pots)[x] = Remains(pots[x]) /\ Purse(pots)[x] \in Int
  <2>1. Len(pots) \in Nat /\ P = 1 .. Len(pots) /\ \A p \in P : pots[p] \in Deposit
      BY SeqFacts DEF PhoneInv
  <2>2. IsFiniteSet(P)
      BY <2>1, FS_Interval
  <2> QED BY <2>1, <2>2 DEF Purse, Remains, Deposit
<1> DEFINE Body(h, s) == IF s = {} THEN 0
                         ELSE Remains(pots[(CHOOSE x \in s : TRUE)]) + h[s \ {CHOOSE x \in s : TRUE}]
           it == CHOOSE h : h = [s \in SUBSET P |-> Body(h, s)]
<1>2. SumOver(DOMAIN pots, Remaining) = it[P]
    BY DEF SumOver, MapThenSumSet, MapThenFoldSet, Remaining, Remains
<1>3. \A h : \A s \in SUBSET P : Body(h, s) = SumStep(h, Purse(pots), s)
    BY <1>1 DEF SumStep, AnyOf
<1>4. PICK g \in [SUBSET P -> Int] : IsSumTable(g, Purse(pots), P)
    BY <1>1, SumTableExists
<1>5. g = [s \in SUBSET P |-> Body(g, s)]
  <2> HIDE DEF Body
  <2> QED BY <1>3, <1>4 DEF IsSumTable
<1>6. it = [s \in SUBSET P |-> Body(it, s)]
  <2> HIDE DEF Body
  <2> QED BY <1>5
<1> HIDE DEF it
<1>7. IsSumTable(it, Purse(pots), P)
  <2> HIDE DEF Body
  <2> QED BY <1>3, <1>6 DEF IsSumTable
<1>8. SumFn(Purse(pots), P) = it[P]
    BY <1>1, <1>7, SumIsTables
<1> QED BY <1>1, <1>2, <1>8

-----------------------------------------------------------------------------
(* A settled line and what settles it are paired off.                      *)

Settling == {s \in DOMAIN book : book[s].reverses # 0 \/ book[s].corrects # 0}
Target == [s \in Settling |-> IF book[s].reverses # 0 THEN book[s].reverses
                                                      ELSE book[s].corrects]
Targets(S) == {Target[s] : s \in S}
Owed == {i \in DOMAIN book : Owing(i)}

LEMMA LinesAre ==
    ASSUME PhoneInv
    PROVE  /\ Len(book) \in Nat /\ DOMAIN book = 1 .. Len(book)
           /\ \A i \in DOMAIN book : /\ book[i] \in LineRec /\ LineFits(book, i)
                                     /\ i \in Nat /\ i # 0 /\ book[i].amount \in Int
<1>1. /\ Len(book) \in Nat /\ DOMAIN book = 1 .. Len(book)
      /\ \A i \in DOMAIN book : book[i] \in LineRec /\ LineFits(book, i)
    BY SeqFacts DEF PhoneInv
<1> QED BY <1>1 DEF LineRec

LEMMA OneTarget ==
    ASSUME PhoneInv, NEW s \in Settling
    PROVE  LET t == Target[s]
           IN  /\ s \in DOMAIN book /\ t \in DOMAIN book /\ t < s
               /\ {book[s].reverses, book[s].corrects} = {0, t}
               /\ book[s].amount = -book[t].amount
               /\ book[t].kind \in ChargeKinds \cup {"payment"}
               /\ book[s].kind \in {"reversal", "write_off"}
               /\ book[s].kind = "reversal" <=> book[s].reverses = t
               /\ \A k \in 1 .. s - 1 : t \notin {book[k].reverses, book[k].corrects}
<1> DEFINE t == Target[s]  r == book[s].reverses  c == book[s].corrects
<1>1. s \in DOMAIN book /\ (r # 0 \/ c # 0) /\ t = IF r # 0 THEN r ELSE c
    BY DEF Settling, Target
<1>2. /\ DOMAIN book = 1 .. Len(book) /\ Len(book) \in Nat /\ s \in Nat /\ LineFits(book, s)
    BY <1>1, LinesAre
<1>3. /\ r \in 0 .. s - 1 /\ c \in 0 .. s - 1 /\ (r # 0 <=> book[s].kind = "reversal")
      /\ c # 0 => book[s].kind = "write_off" /\ book[c].kind \in ChargeKinds
      /\ \A u \in {r, c} \ {0} :
           /\ Settleable(book[u]) /\ book[s].amount = -book[u].amount
           /\ \A k \in 1 .. s - 1 : u \notin {book[k].reverses, book[k].corrects}
    BY <1>2 DEF LineFits
<1>4. r = 0 \/ c = 0
    BY <1>3
<1>5. t \in {r, c} \ {0} /\ {r, c} = {0, t}
    BY <1>1, <1>4
<1>6. t \in DOMAIN book /\ t < s
    BY <1>1, <1>2, <1>3, <1>5
<1>7. book[t].kind \in ChargeKinds \cup {"payment"}
  <2>1. /\ book[t] \in LineRec /\ LineFits(book, t) /\ Settleable(book[t])
      BY <1>3, <1>5, <1>6, LinesAre
  <2>2. book[t].kind \in EntryKinds \cup DepositKinds
      BY <2>1 DEF LineRec
  <2>3. /\ book[t].deposit = 0 /\ book[t].kind \notin {"reversal", "write_off", "adjustment"}
        /\ book[t].deposit # 0 <=> book[t].kind \in DepositKinds
      BY <2>1 DEF Settleable, LineFits
  <2> QED BY <2>2, <2>3 DEF EntryKinds
<1>8. book[s].kind \in {"reversal", "write_off"} /\ (book[s].kind = "reversal" <=> r = t)
    BY <1>1, <1>3, <1>4
<1> QED BY <1>1, <1>3, <1>5, <1>6, <1>7, <1>8

LEMMA KindsOwe ==
    ASSUME PhoneInv, NEW i \in DOMAIN book
    PROVE  /\ book[i].kind \in ChargeKinds \cup {"payment", "write_off", "reversal"} => Owing(i)
           /\ Owing(i) => book[i].kind \in ChargeKinds
                             \cup {"payment", "write_off", "reversal", "deposit_apply"}
           /\ book[i].kind = "deposit_apply" => Owing(i)
<1>1. book[i].kind \in EntryKinds \cup DepositKinds /\ book[i].kind # "adjustment"
    BY LinesAre DEF LineRec, LineFits
<1> QED BY <1>1 DEF Owing, InPot, EntryKinds, ChargeKinds, DepositKinds

LEMMA TargetsDiffer ==
    ASSUME PhoneInv, NEW x \in Settling, NEW y \in Settling, Target[x] = Target[y]
    PROVE  x = y
<1>1. /\ x \in DOMAIN book /\ y \in DOMAIN book /\ x \in Nat /\ y \in Nat /\ x # 0 /\ y # 0
    BY LinesAre DEF Settling
<1>2. /\ Target[x] \in {book[x].reverses, book[x].corrects}
      /\ Target[y] \in {book[y].reverses, book[y].corrects}
    BY OneTarget
<1>3. /\ \A k \in 1 .. x - 1 : Target[x] \notin {book[k].reverses, book[k].corrects}
      /\ \A k \in 1 .. y - 1 : Target[y] \notin {book[k].reverses, book[k].corrects}
    BY OneTarget
<1> QED BY <1>1, <1>2, <1>3

LEMMA SettlersAre ==
    ASSUME PhoneInv, NEW i \in DOMAIN book
    PROVE  /\ \A s : s \in Settlers(i) <=> s \in Settling /\ Target[s] = i
           /\ i \in Settled <=> i \in Targets(Settling)
<1>1. i # 0
    BY LinesAre
<1>2. ASSUME NEW s \in Settlers(i) PROVE s \in Settling /\ Target[s] = i
  <2>1. s \in DOMAIN book /\ i \in {book[s].reverses, book[s].corrects}
      BY DEF Settlers
  <2>2. s \in Settling
      BY <1>1, <2>1 DEF Settling
  <2>3. {book[s].reverses, book[s].corrects} = {0, Target[s]}
      BY <2>2, OneTarget
  <2> QED BY <1>1, <2>1, <2>2, <2>3
<1>3. ASSUME NEW s \in Settling, Target[s] = i PROVE s \in Settlers(i)
    BY <1>3, OneTarget DEF Settlers
<1> QED BY <1>2, <1>3 DEF Settled, Targets

LEMMA Apart ==
    ASSUME PhoneInv, NEW A \in SUBSET (DOMAIN book), NEW B \in SUBSET (DOMAIN book), A \cap B = {}
    PROVE  /\ SumFn(Coming, A) \in Int /\ SumFn(Coming, B) \in Int
           /\ SumFn(Coming, A \cup B) = SumFn(Coming, A) + SumFn(Coming, B)
<1>1. IsFiniteSet(A) /\ \A x \in A : Coming[x] \in Int
    BY SumOverAmount
<1>2. IsFiniteSet(B) /\ \A x \in B : Coming[x] \in Int
    BY SumOverAmount
<1>3. SumFn(Coming, A) \in Int /\ SumFn(Coming, B) \in Int
    BY <1>1, <1>2, SumType
<1>4. \A x \in A \cup B : Coming[x] \in Int
    BY <1>1, <1>2
<1>5. SumFn(Coming, A \cup B) = SumFn(Coming, A) + SumFn(Coming, B)
    BY <1>1, <1>2, <1>4, SumSplit
<1> QED BY <1>3, <1>5

LEMMA OwedIsBalance ==
    ASSUME PhoneInv
    PROVE  /\ Balance = SumFn(Coming, Owed) /\ Balance \in Int
           /\ \A S \in SUBSET (DOMAIN book) :
                 BalanceOf(S) = SumFn(Coming, S \cap Owed) /\ BalanceOf(S) \in Int
<1>1. ASSUME NEW S \in SUBSET (DOMAIN book)
      PROVE  BalanceOf(S) = SumFn(Coming, S \cap Owed) /\ BalanceOf(S) \in Int
  <2> DEFINE T == {i \in S : Owing(i)}
  <2>1. T \in SUBSET (DOMAIN book) /\ BalanceOf(S) = SumOver(T, Amount) /\ T = S \cap Owed
      BY DEF BalanceOf, Owed
  <2> HIDE DEF T
  <2>2. /\ SumOver(T, Amount) = SumFn(Coming, T)
        /\ IsFiniteSet(T) /\ \A i \in T : Coming[i] \in Int
      BY <2>1, SumOverAmount
  <2>3. SumFn(Coming, T) \in Int
      BY <2>2, SumType
  <2> QED BY <2>1, <2>2, <2>3
<1>2. DOMAIN book \cap Owed = Owed
    BY DEF Owed
<1> QED BY <1>1, <1>2 DEF Balance

(* Whatever settlements are left out with what they settle, what is owed   *)
(* stays the same.                                                         *)
LEMMA SettlementsCancel ==
    ASSUME PhoneInv, NEW S \in SUBSET Settling
    PROVE  /\ Targets(S) \subseteq Owed /\ S \subseteq Owed /\ Targets(S) \cap Settling = {}
           /\ SumFn(Coming, Targets(S)) = -SumFn(Coming, S)
           /\ SumFn(Coming, S) \in Int
           /\ SumFn(Coming, Owed \ (Targets(S) \cup S)) = Balance
<1>1. \A s \in S : /\ s \in Settling /\ s \in DOMAIN book /\ Target[s] \in DOMAIN book
                   /\ book[s].kind \in {"reversal", "write_off"}
                   /\ book[Target[s]].kind \in ChargeKinds \cup {"payment"}
                   /\ book[s].amount = -book[Target[s]].amount
    BY OneTarget
<1>2. Targets(S) \subseteq Owed /\ S \subseteq Owed
    BY <1>1, KindsOwe DEF Targets, Owed
<1>3. Targets(S) \cap Settling = {}
  <2>1. \A s \in Settling : book[s].kind \in {"reversal", "write_off"}
      BY OneTarget
  <2> QED BY <1>1, <2>1 DEF Targets, ChargeKinds
<1>4. /\ SumFn(Coming, Targets(S)) = -SumFn(Coming, S) /\ SumFn(Coming, S) \in Int
  <2>1. S \in SUBSET (DOMAIN book)
      BY <1>1
  <2>2. IsFiniteSet(S) /\ \A s \in S : Coming[s] = book[s].amount /\ Coming[s] \in Int
      BY <2>1, SumOverAmount
  <2>3. \A s \in S : Coming[Target[s]] = book[Target[s]].amount
      BY <1>1 DEF Coming
  <2>4. \A s \in S : book[Target[s]].amount \in Int
      BY <1>1, LinesAre
  <2>5. \A s \in S : Coming[s] \in Int /\ Coming[Target[s]] = -Coming[s]
      BY <1>1, <2>2, <2>3, <2>4
  <2>6. \A x, y \in S : Target[x] = Target[y] => x = y
      BY TargetsDiffer
  <2>7. IsFiniteSet(S) /\ \A s \in S : Coming[s] \in Int /\ Coming[Target[s]] = -Coming[s]
      BY <2>2, <2>5
  <2> DEFINE R == {Target[s] : s \in S}
  <2>8. SumFn(Coming, S) \in Int /\ SumFn(Coming, R) = -SumFn(Coming, S)
      BY <2>6, <2>7, SumCancels
  <2> HIDE DEF R
  <2>9. Targets(S) = R
      BY DEF Targets, R
  <2> QED BY <2>8, <2>9
<1>5. SumFn(Coming, Owed \ (Targets(S) \cup S)) = Balance
  <2> DEFINE R == Targets(S)  Rest == Owed \ (R \cup S)
  <2>1. R \in SUBSET (DOMAIN book) /\ S \in SUBSET (DOMAIN book) /\ R \cap S = {}
      BY <1>2, <1>3 DEF Owed
  <2>2. Rest \in SUBSET (DOMAIN book) /\ R \cup S \in SUBSET (DOMAIN book)
        /\ Rest \cap (R \cup S) = {} /\ Rest \cup (R \cup S) = Owed
      BY <1>2 DEF Owed
  <2> HIDE DEF R, Rest
  <2>3. SumFn(Coming, R \cup S) = SumFn(Coming, R) + SumFn(Coming, S)
      BY <2>1, Apart
  <2> DEFINE U == R \cup S
  <2>4. U \in SUBSET (DOMAIN book) /\ Rest \cap U = {} /\ Rest \cup U = Owed
      BY <2>2
  <2>5. SumFn(Coming, U) = 0
      BY <1>4, <2>3 DEF R
  <2> HIDE DEF U
  <2>6. SumFn(Coming, Owed) = SumFn(Coming, Rest) + SumFn(Coming, U)
        /\ SumFn(Coming, Rest) \in Int
      BY <2>2, <2>4, Apart
  <2> QED BY <2>5, <2>6, OwedIsBalance DEF Rest, R
<1> QED BY <1>2, <1>3, <1>4, <1>5

LEMMA PageAgrees == ASSUME PhoneInv PROVE PageAddsUp
<1> DEFINE D == DOMAIN book
           Ch0 == {i \in D \ Settled : book[i].kind \in ChargeKinds}
           Py == {i \in D : book[i].kind = "payment"}
           Py1 == {i \in Settled : book[i].kind = "payment"}
           Py0 == Py \ Py1
           Wo0 == {i \in OffOf(D) : book[i].corrects = 0}
           Ap == {i \in D : book[i].kind = "deposit_apply"}
           Open == Owed \ (Settled \cup Settling)
<1>1. Settled = Targets(Settling) /\ Settled \subseteq D
  <2>1. Settled \subseteq D /\ Targets(Settling) \subseteq D
      BY OneTarget DEF Settled, Targets
  <2> QED BY <2>1, SettlersAre
<1>2. SumFn(Coming, Open) = Balance
    BY <1>1, SettlementsCancel
<1>3. Open = ((Ch0 \cup Py0) \cup Wo0) \cup Ap
  <2>1. ASSUME NEW i \in D
        PROVE  i \in Open <=> i \in Ch0 \/ i \in Py0 \/ i \in Wo0 \/ i \in Ap
    <3>1. /\ book[i].kind \in ChargeKinds \cup {"payment", "write_off", "reversal"} => Owing(i)
          /\ Owing(i) => book[i].kind \in ChargeKinds
                             \cup {"payment", "write_off", "reversal", "deposit_apply"}
          /\ book[i].kind = "deposit_apply" => Owing(i)
        BY KindsOwe
    <3>2. i \in Settling <=> book[i].reverses # 0 \/ book[i].corrects # 0
        BY DEF Settling
    <3>3. /\ i \in Settling => book[i].kind \in {"reversal", "write_off"}
          /\ i \in Settled => book[i].kind \in ChargeKinds \cup {"payment"}
        BY <1>1, OneTarget DEF Targets
    <3>4. book[i].reverses # 0 <=> book[i].kind = "reversal"
        BY LinesAre DEF LineFits
    <3>5. i \in Open <=> Owing(i) /\ i \notin Settled /\ i \notin Settling
        BY DEF Owed
    <3> QED BY <3>1, <3>2, <3>3, <3>4, <3>5 DEF OffOf, ChargeKinds
  <2>2. Open \subseteq D /\ Ch0 \subseteq D /\ Py0 \subseteq D /\ Wo0 \subseteq D /\ Ap \subseteq D
      BY DEF Owed, OffOf
  <2> HIDE DEF Open, Ch0, Py0, Wo0, Ap
  <2> QED BY <2>1, <2>2
<1>4. /\ Ch0 \in SUBSET D /\ Py \in SUBSET D /\ Py1 \in SUBSET D /\ Py0 \in SUBSET D
      /\ Wo0 \in SUBSET D /\ Ap \in SUBSET D
    BY <1>1 DEF OffOf
<1>5. /\ Ch0 \cap Py0 = {} /\ (Ch0 \cup Py0) \cap Wo0 = {} /\ ((Ch0 \cup Py0) \cup Wo0) \cap Ap = {}
      /\ Py0 \cap Py1 = {} /\ Py0 \cup Py1 = Py
    BY <1>1 DEF OffOf, ChargeKinds
<1>6. BalanceOf(Shown \ Settled) = Balance
  <2>1. ASSUME NEW i \in D PROVE i \in Shown <=> i \notin Settling
    <3>1. i \in Shown <=> \A k \in D : ~ (i \in Settling /\ Target[i] = k)
        BY SettlersAre DEF Shown
    <3>2. i \in Settling => Target[i] \in D
        BY OneTarget
    <3> QED BY <3>1, <3>2
  <2>2. Shown \ Settled \in SUBSET D /\ (Shown \ Settled) \cap Owed = Open
      BY <2>1 DEF Shown, Owed
  <2> HIDE DEF Open, D
  <2> QED BY <1>2, <2>2, OwedIsBalance DEF D
<1>7. /\ Worth.charged = SumFn(Coming, Ch0)
      /\ Worth.paid = -SumFn(Coming, Py) /\ SumOver(Py1, Minus) = -SumFn(Coming, Py1)
      /\ SumOver(Wo0, Minus) = -SumFn(Coming, Wo0) /\ SumOver(Ap, Minus) = -SumFn(Coming, Ap)
  <2>1. Worth.charged = SumOver(Ch0, Amount) /\ Worth.paid = SumOver(Py, Minus)
      BY DEF Worth, Billed
  <2> HIDE DEF Ch0, Py, Py1, Wo0, Ap
  <2>2. SumOver(Ch0, Amount) = SumFn(Coming, Ch0)
      BY <1>4, SumOverAmount
  <2>3. SumOver(Py, Minus) = -SumFn(Coming, Py)
      BY <1>4, MinusIsNegated
  <2>4. SumOver(Py1, Minus) = -SumFn(Coming, Py1)
      BY <1>4, MinusIsNegated
  <2>5. SumOver(Wo0, Minus) = -SumFn(Coming, Wo0)
      BY <1>4, MinusIsNegated
  <2>6. SumOver(Ap, Minus) = -SumFn(Coming, Ap)
      BY <1>4, MinusIsNegated
  <2> QED BY <2>1, <2>2, <2>3, <2>4, <2>5, <2>6
<1>8. Worth.charged - Worth.paid + SumOver(Py1, Minus) - SumOver(Wo0, Minus) - SumOver(Ap, Minus)
        = Balance
  <2> DEFINE A == Ch0 \cup Py0  B == A \cup Wo0
  <2>1. A \in SUBSET D /\ B \in SUBSET D /\ A \cap Wo0 = {} /\ B \cap Ap = {} /\ Open = B \cup Ap
      BY <1>3, <1>4, <1>5
  <2> HIDE DEF D, Ch0, Py, Py1, Py0, Wo0, Ap, Open
  <2>2. /\ SumFn(Coming, Ch0) \in Int /\ SumFn(Coming, Py0) \in Int
        /\ SumFn(Coming, A) = SumFn(Coming, Ch0) + SumFn(Coming, Py0)
      BY <1>4, <1>5, Apart DEF D
  <2>3. /\ SumFn(Coming, Py1) \in Int
        /\ SumFn(Coming, Py) = SumFn(Coming, Py0) + SumFn(Coming, Py1)
    <3>1. /\ SumFn(Coming, Py1) \in Int
          /\ SumFn(Coming, Py0 \cup Py1) = SumFn(Coming, Py0) + SumFn(Coming, Py1)
        BY <1>4, <1>5, Apart DEF D
    <3> QED BY <1>5, <3>1
  <2> HIDE DEF A
  <2>4. /\ SumFn(Coming, Wo0) \in Int
        /\ SumFn(Coming, B) = SumFn(Coming, A) + SumFn(Coming, Wo0)
      BY <1>4, <2>1, Apart DEF D
  <2> HIDE DEF B
  <2>5. /\ SumFn(Coming, Ap) \in Int
        /\ SumFn(Coming, Open) = SumFn(Coming, B) + SumFn(Coming, Ap)
    <3>1. /\ SumFn(Coming, Ap) \in Int
          /\ SumFn(Coming, B \cup Ap) = SumFn(Coming, B) + SumFn(Coming, Ap)
        BY <1>4, <2>1, Apart DEF D
    <3> QED BY <2>1, <3>1
  <2> QED BY <1>2, <1>7, <2>2, <2>3, <2>4, <2>5
<1>9. Worth.waived = LET Fee(i) == book[i].amount IN SumOver(WaivedFees, Fee)
  <2> DEFINE S == {i \in OffOf(D) : IsWaiver(i)}
  <2>1. S \in SUBSET Settling /\ \A s \in S : Target[s] = book[s].corrects
    <3>1. ASSUME NEW s \in S PROVE s \in Settling /\ Target[s] = book[s].corrects
      <4>1. s \in D /\ book[s].kind = "write_off" /\ book[s].corrects # 0
          BY DEF OffOf, IsWaiver
      <4>2. s \in Settling /\ LineFits(book, s)
          BY <4>1, LinesAre DEF Settling
      <4>3. book[s].reverses = 0
          BY <4>1, <4>2 DEF LineFits
      <4> QED BY <4>1, <4>2, <4>3 DEF Target
    <3> QED BY <3>1
  <2>2. Targets(S) = WaivedFees
    <3>1. ASSUME NEW s \in S PROVE Target[s] \in WaivedFees
      <4>1. s \in Settling /\ Target[s] \in D /\ book[Target[s]].kind = "late_fee"
            /\ book[s].kind = "write_off"
          BY <2>1, OneTarget DEF OffOf, IsWaiver
      <4> QED BY <4>1, SettlersAre DEF WaivedFees
    <3>2. ASSUME NEW i \in WaivedFees PROVE i \in Targets(S)
      <4>1. i \in D /\ book[i].kind = "late_fee" /\ \E s \in Settlers(i) : book[s].kind = "write_off"
          BY DEF WaivedFees
      <4>2. PICK s : s \in Settling /\ Target[s] = i /\ book[s].kind = "write_off"
          BY <4>1, SettlersAre
      <4>3. s \in D /\ book[s].corrects = i /\ i # 0
        <5>1. s \in D /\ {book[s].reverses, book[s].corrects} = {0, i}
              /\ (book[s].kind = "reversal" <=> book[s].reverses = i)
            BY <4>2, OneTarget
        <5> QED BY <4>1, <4>2, <5>1, LinesAre
      <4>4. s \in S
          BY <4>1, <4>2, <4>3 DEF OffOf, IsWaiver
      <4> QED BY <4>2, <4>4 DEF Targets
    <3> QED BY <3>1, <3>2 DEF Targets
  <2>3. Worth.waived = SumOver(S, Minus)
      BY DEF Worth
  <2>4. S \in SUBSET D /\ WaivedFees \in SUBSET D
      BY DEF OffOf, WaivedFees
  <2> HIDE DEF S
  <2>5. SumOver(S, Minus) = -SumFn(Coming, S)
      BY <2>4, MinusIsNegated
  <2>6. SumFn(Coming, WaivedFees) = -SumFn(Coming, S)
      BY <2>1, <2>2, SettlementsCancel
  <2>7. SumOver(WaivedFees, Amount) = SumFn(Coming, WaivedFees)
      BY <2>4, SumOverAmount
  <2>8. (LET Fee(i) == book[i].amount IN SumOver(WaivedFees, Fee)) = SumOver(WaivedFees, Amount)
      BY DEF SumOver, MapThenSumSet, MapThenFoldSet, Amount
  <2> QED BY <2>3, <2>5, <2>6, <2>7, <2>8
<1> QED BY <1>6, <1>8, <1>9 DEF PageAddsUp

-----------------------------------------------------------------------------
(* Months cut the book in two.                                             *)

LEMMA MonthsCut ==
    ASSUME PhoneInv, NEW t \in Cuts
    PROVE  /\ LinesIn(0, t) \in SUBSET (DOMAIN book) /\ LinesIn(t, Now + 1) \in SUBSET (DOMAIN book)
           /\ LinesIn(0, t) \cap LinesIn(t, Now + 1) = {}
           /\ LinesIn(0, t) \cup LinesIn(t, Now + 1) = DOMAIN book
           /\ LinesIn(0, Now + 1) = DOMAIN book
           /\ \A e \in DOMAIN spent : /\ Within(spent[e].at, 0, Now + 1)
                                      /\ Within(spent[e].at, 0, t) <=> ~ Within(spent[e].at, t, Now + 1)
<1>1. Len(queue) \in Nat /\ t \in Nat /\ t <= Len(queue) /\ Now = Len(queue) + 1
    BY SeqFacts DEF PhoneInv, Cuts, Now
<1>2. \A i \in DOMAIN book : book[i].at \in 1 .. Len(queue)
    BY DEF PhoneInv
<1>3. \A e \in DOMAIN spent : spent[e].at \in Nat /\ spent[e].at <= Len(queue)
    BY SeqFacts DEF PhoneInv, Expense
<1>4. \A i \in DOMAIN book : /\ Within(When(i), 0, Now + 1)
                             /\ Within(When(i), 0, t) <=> ~ Within(When(i), t, Now + 1)
    BY <1>1, <1>2 DEF Within, When
<1>5. \A e \in DOMAIN spent : /\ Within(spent[e].at, 0, Now + 1)
                              /\ Within(spent[e].at, 0, t) <=> ~ Within(spent[e].at, t, Now + 1)
    BY <1>1, <1>3 DEF Within
<1> QED BY <1>4, <1>5 DEF LinesIn

LEMMA WholeTime ==
    ASSUME PhoneInv
    PROVE  /\ LinesIn(0, Now + 1) = DOMAIN book
           /\ \A e \in DOMAIN spent : Within(spent[e].at, 0, Now + 1)
<1>1. Len(queue) \in Nat /\ Now = Len(queue) + 1
    BY SeqFacts DEF PhoneInv, Now
<1>2. \A i \in DOMAIN book : book[i].at \in 1 .. Len(queue)
    BY DEF PhoneInv
<1>3. \A e \in DOMAIN spent : spent[e].at \in Nat /\ spent[e].at <= Len(queue)
    BY SeqFacts DEF PhoneInv, Expense
<1>4. \A i \in DOMAIN book : Within(When(i), 0, Now + 1)
    BY <1>1, <1>2 DEF Within, When
<1>5. \A e \in DOMAIN spent : Within(spent[e].at, 0, Now + 1)
    BY <1>1, <1>3 DEF Within
<1> QED BY <1>4, <1>5 DEF LinesIn

LEMMA WalkIsBalance ==
    ASSUME PhoneInv
    PROVE  Walked \in SUBSET (DOMAIN book) /\ BalanceOf(Walked) = Balance
<1> DEFINE S == {s \in Settling : book[s].kind = "reversal"}
<1>1. \A s \in DOMAIN book : s \in S <=> book[s].reverses # 0
    BY LinesAre DEF Settling, LineFits
<1>2. \A s \in S : Target[s] = book[s].reverses /\ s \in DOMAIN book /\ Target[s] \in DOMAIN book
  <2>1. \A s \in S : s \in Settling /\ book[s].kind = "reversal"
      OBVIOUS
  <2> QED BY <2>1, OneTarget
<1>3. Voided = Targets(S)
  <2>1. \A i \in DOMAIN book : i # 0
      BY LinesAre
  <2>2. ASSUME NEW i \in Voided PROVE i \in Targets(S)
    <3>1. PICK s \in DOMAIN book : book[s].reverses = i
        BY DEF Voided
    <3>2. s \in S
        BY <1>1, <2>1, <3>1 DEF Voided
    <3> QED BY <1>2, <3>1, <3>2 DEF Targets
  <2>3. ASSUME NEW i \in Targets(S) PROVE i \in Voided
      BY <1>2 DEF Targets, Voided
  <2> QED BY <2>2, <2>3
<1>4. Walked = Owed \ (Targets(S) \cup S)
  <2>1. ASSUME NEW i \in DOMAIN book PROVE book[i].reverses \in Voided <=> i \in S
    <3>1. 0 \notin Voided
        BY LinesAre DEF Voided
    <3>2. i \in S => book[i].reverses \in Targets(S)
        BY <1>2 DEF Targets
    <3> QED BY <1>1, <1>3, <3>1, <3>2
  <2> HIDE DEF S
  <2> QED BY <1>3, <2>1 DEF Walked, Owed
<1>5. SumFn(Coming, Owed \ (Targets(S) \cup S)) = Balance
  <2>1. S \in SUBSET Settling
      OBVIOUS
  <2> HIDE DEF S
  <2> QED BY <2>1, SettlementsCancel
<1>6. Walked \in SUBSET (DOMAIN book) /\ Walked \cap Owed = Walked
    BY DEF Walked, Owed
<1> QED BY <1>4, <1>5, <1>6, OwedIsBalance

LEMMA DebtIsDated == ASSUME PhoneInv PROVE (OldestUnpaid # 0) <=> Balance > 0
<1> DEFINE RunningAt(i) == BalanceOf({j \in Walked : j <= i})
           debt == {i \in Walked : \A j \in Walked : j >= i => RunningAt(j) > 0}
<1>1. OldestUnpaid = IF debt = {} THEN 0 ELSE Min(debt)
    BY DEF OldestUnpaid
<1>2. /\ Walked \in SUBSET (1 .. Len(book)) /\ Len(book) \in Nat
      /\ BalanceOf(Walked) = Balance /\ Balance \in Int
    BY WalkIsBalance, LinesAre, BalanceIsInt
<1>3. debt \subseteq Walked
    OBVIOUS
<1>4. ASSUME Walked # {}
      PROVE  LET m == Max(Walked) IN m \in Walked /\ RunningAt(m) = Balance /\ \A k \in Walked : k <= m
  <2> DEFINE m == Max(Walked)
  <2>1. m \in Walked /\ \A k \in Walked : k <= m
      BY <1>2, <1>4, MaxIsIn
  <2> HIDE DEF m
  <2>2. {j \in Walked : j <= m} = Walked
      BY <2>1
  <2> QED BY <1>2, <2>1, <2>2 DEF m
<1>5. ASSUME debt # {} PROVE Balance > 0 /\ OldestUnpaid # 0
  <2>1. PICK i \in debt : TRUE
      BY <1>5
  <2>2. Walked # {}
      BY <2>1
  <2> DEFINE m == Max(Walked)
  <2>3. m \in Walked /\ RunningAt(m) = Balance /\ \A k \in Walked : k <= m
      BY <1>4, <2>2
  <2> HIDE DEF m
  <2>4. i \in Walked /\ \A j \in Walked : j >= i => RunningAt(j) > 0
      BY <2>1
  <2>5. i \in Nat /\ m \in Nat /\ m >= i
      BY <1>2, <2>3, <2>4
  <2>6. RunningAt(m) > 0
      BY <2>3, <2>4, <2>5
  <2>7. Min(debt) \in debt
    <3> HIDE DEF debt
    <3>1. debt \in SUBSET Nat
        BY <1>2, <1>3
    <3> QED BY <1>5, <3>1, MinIsIn
  <2> HIDE DEF debt, RunningAt
  <2>8. Min(debt) \in 1 .. Len(book)
      BY <1>2, <1>3, <2>7
  <2> QED BY <1>1, <1>2, <1>5, <2>3, <2>6, <2>8
<1>6. ASSUME Balance > 0 PROVE debt # {}
  <2>1. Walked # {}
    <3>1. ASSUME Walked = {} PROVE FALSE
      <4>1. BalanceOf({}) = SumFn(Coming, {} \cap Owed)
          BY OwedIsBalance
      <4>2. {} \cap Owed = {} /\ SumFn(Coming, {}) = 0
          BY SumEmpty
      <4> QED BY <1>2, <1>6, <3>1, <4>1, <4>2
    <3> QED BY <3>1
  <2> DEFINE m == Max(Walked)
  <2>2. m \in Walked /\ RunningAt(m) = Balance /\ \A k \in Walked : k <= m
      BY <1>4, <2>1
  <2> HIDE DEF m, RunningAt
  <2>3. \A j \in Walked : j >= m => j = m
      BY <1>2, <2>2
  <2>4. m \in debt
      BY <1>6, <2>2, <2>3
  <2> QED BY <2>4
<1> QED BY <1>1, <1>5, <1>6

LEMMA StatementsAgree == ASSUME PhoneInv PROVE StatementsChain
<1>1. ASSUME NEW t \in Cuts PROVE Closing(t) + BalanceOf(Printed(t, Now + 1)) = Balance
  <2> DEFINE A == LinesIn(0, t)  B == LinesIn(t, Now + 1)
  <2>1. /\ A \in SUBSET (DOMAIN book) /\ B \in SUBSET (DOMAIN book)
        /\ A \cap B = {} /\ A \cup B = DOMAIN book
      BY MonthsCut
  <2>2. Closing(t) = BalanceOf(A) /\ BalanceOf(Printed(t, Now + 1)) = BalanceOf(B)
      BY DEF Closing, Printed
  <2> HIDE DEF A, B
  <2>3. BalanceOf(A) = SumFn(Coming, A \cap Owed) /\ BalanceOf(B) = SumFn(Coming, B \cap Owed)
      BY <2>1, OwedIsBalance
  <2> DEFINE X == A \cap Owed  Y == B \cap Owed
  <2>4. X \in SUBSET (DOMAIN book) /\ Y \in SUBSET (DOMAIN book) /\ X \cap Y = {} /\ X \cup Y = Owed
      BY <2>1 DEF Owed
  <2> HIDE DEF X, Y
  <2>5. SumFn(Coming, X \cup Y) = SumFn(Coming, X) + SumFn(Coming, Y)
      BY <2>4, Apart
  <2> QED BY <2>2, <2>3, <2>4, <2>5, OwedIsBalance DEF X, Y
<1>2. (BalanceCard.says = "balance") <=> (BalanceCard.since # 0)
  <2>1. BalanceCard.since = OldestUnpaid
      BY DEF BalanceCard
  <2>2. BalanceCard.says = "balance" <=> Balance > 0
      BY DEF BalanceCard
  <2> QED BY <2>1, <2>2, DebtIsDated
<1>3. (MoneyStrip(0, Now + 1).owed > 0) <=> BalanceDoor
    BY BalanceIsInt DEF MoneyStrip, BalanceDoor
<1>4. \A t \in Cuts : MoneyStrip(t, Now + 1).earned = MonthRow(t, Now + 1).billed
    BY DEF MoneyStrip, MonthRow
<1> QED BY <1>1, <1>2, <1>3, <1>4 DEF StatementsChain

-----------------------------------------------------------------------------
(* The same money by month and by job.                                     *)

LEMMA BilledIsSum ==
    ASSUME PhoneInv, NEW S \in SUBSET (DOMAIN book)
    PROVE  LET L == {i \in S \ Settled : book[i].kind \in ChargeKinds}
           IN  /\ L \in SUBSET (DOMAIN book) /\ IsFiniteSet(L)
               /\ \A i \in L : Coming[i] \in Int
               /\ Billed(S) = SumFn(Coming, L) /\ Billed(S) \in Int
<1> DEFINE L == {i \in S \ Settled : book[i].kind \in ChargeKinds}
<1>1. L \in SUBSET (DOMAIN book) /\ Billed(S) = SumOver(L, Amount)
    BY DEF Billed
<1> HIDE DEF L
<1>2. /\ SumOver(L, Amount) = SumFn(Coming, L) /\ IsFiniteSet(L)
      /\ \A i \in L : Coming[i] \in Int
    BY <1>1, SumOverAmount
<1>3. SumFn(Coming, L) \in Int
    BY <1>2, SumType
<1> QED BY <1>1, <1>2, <1>3 DEF L

LEMMA BilledApart ==
    ASSUME PhoneInv, NEW A \in SUBSET (DOMAIN book), NEW B \in SUBSET (DOMAIN book), A \cap B = {}
    PROVE  Billed(A \cup B) = Billed(A) + Billed(B)
<1> DEFINE L(S) == {i \in S \ Settled : book[i].kind \in ChargeKinds}
           X == L(A)  Y == L(B)
<1>1. X \in SUBSET (DOMAIN book) /\ Billed(A) = SumFn(Coming, X)
    BY BilledIsSum
<1>2. Y \in SUBSET (DOMAIN book) /\ Billed(B) = SumFn(Coming, Y)
    BY BilledIsSum
<1>3. Billed(A \cup B) = SumFn(Coming, X \cup Y)
  <2> DEFINE U == A \cup B
  <2>1. U \in SUBSET (DOMAIN book) /\ L(U) = X \cup Y
      OBVIOUS
  <2> HIDE DEF U
  <2>2. Billed(U) = SumFn(Coming, L(U))
      BY <2>1, BilledIsSum
  <2> QED BY <2>1, <2>2 DEF U
<1>4. X \cap Y = {}
    OBVIOUS
<1> HIDE DEF X, Y
<1> QED BY <1>1, <1>2, <1>3, <1>4, Apart

LEMMA TotalIsNat ==
    ASSUME PhoneInv, NEW S PROVE Total(spent, S) \in Nat
<1> DEFINE L == Live(spent) \cap S
<1>1. IsFiniteSet(L) /\ (\A x \in L : Spend[x] \in Nat) /\ Total(spent, S) = SumFn(Spend, L)
    BY TotalIsSum
<1> HIDE DEF L
<1>2. SumFn(Spend, L) \in Nat
    BY <1>1, SumNatural
<1> QED BY <1>1, <1>2

LEMMA TotalApart ==
    ASSUME PhoneInv, NEW A, NEW B, A \cap B = {}
    PROVE  Total(spent, A \cup B) = Total(spent, A) + Total(spent, B)
<1> DEFINE L(S) == Live(spent) \cap S
           X == L(A)  Y == L(B)
<1>1. IsFiniteSet(X) /\ (\A x \in X : Spend[x] \in Nat) /\ Total(spent, A) = SumFn(Spend, X)
    BY TotalIsSum
<1>2. IsFiniteSet(Y) /\ (\A x \in Y : Spend[x] \in Nat) /\ Total(spent, B) = SumFn(Spend, Y)
    BY TotalIsSum
<1>3. Total(spent, A \cup B) = SumFn(Spend, X \cup Y)
  <2> DEFINE U == A \cup B
  <2>1. L(U) = X \cup Y
      OBVIOUS
  <2> HIDE DEF U
  <2>2. Total(spent, U) = SumFn(Spend, L(U))
      BY TotalIsSum
  <2> QED BY <2>1, <2>2 DEF U
<1>4. X \cap Y = {}
    OBVIOUS
<1> HIDE DEF X, Y
<1>5. \A x \in X \cup Y : Spend[x] \in Int
    BY <1>1, <1>2
<1>6. SumFn(Spend, X \cup Y) = SumFn(Spend, X) + SumFn(Spend, Y)
    BY <1>1, <1>2, <1>4, <1>5, SumSplit
<1> QED BY <1>1, <1>2, <1>3, <1>6

LEMMA MonthsAddUp ==
    ASSUME PhoneInv, NEW t \in Cuts
    PROVE  MonthProfit(0, t) + MonthProfit(t, Now + 1) = MonthProfit(0, Now + 1)
<1> DEFINE A == LinesIn(0, t)  B == LinesIn(t, Now + 1)
           E == {e \in DOMAIN spent : Within(spent[e].at, 0, t)}
           F == {e \in DOMAIN spent : Within(spent[e].at, t, Now + 1)}
           G == {e \in DOMAIN spent : Within(spent[e].at, 0, Now + 1)}
<1>1. /\ A \in SUBSET (DOMAIN book) /\ B \in SUBSET (DOMAIN book) /\ A \cap B = {}
      /\ LinesIn(0, Now + 1) = A \cup B
      /\ E \cap F = {} /\ G = E \cup F
    BY MonthsCut
<1>2. /\ MonthProfit(0, t) = Billed(A) - Total(spent, E)
      /\ MonthProfit(t, Now + 1) = Billed(B) - Total(spent, F)
      /\ MonthProfit(0, Now + 1) = Billed(A \cup B) - Total(spent, E \cup F)
    BY <1>1 DEF MonthProfit, KharchaBetween
<1> HIDE DEF A, B, E, F, G
<1>3. Billed(A \cup B) = Billed(A) + Billed(B) /\ Total(spent, E \cup F) = Total(spent, E) + Total(spent, F)
    BY <1>1, BilledApart, TotalApart
<1>4. Billed(A) \in Int /\ Billed(B) \in Int /\ Total(spent, E) \in Nat /\ Total(spent, F) \in Nat
    BY <1>1, BilledIsSum, TotalIsNat
<1> QED BY <1>2, <1>3, <1>4

(* Which job an expense counts against, if any.                            *)
SpentFor == [e \in DOMAIN spent |->
               IF spent[e].job # NoJob THEN spent[e].job
               ELSE IF spent[e].booking \in FromBooking THEN spent[e].booking ELSE NoJob]

LEMMA MarginsAddUp ==
    ASSUME PhoneInv, IsFiniteSet(Jobs), NoJob \notin Jobs
    PROVE  SumOver(Jobs, JobMargin)
             + (Billed({i \in DOMAIN book : book[i].job = NoJob})
                  - Total(spent, DOMAIN spent \ UNION {SpentOn(j) : j \in Jobs}))
             = MonthProfit(0, Now + 1)
<1> DEFINE D == DOMAIN book
           On(j) == {i \in D : book[i].job = j}
           X == {i \in D \ Settled : book[i].kind \in ChargeKinds}
           Y == Live(spent) \cap DOMAIN spent
           job == [i \in D |-> book[i].job]
           FB == [j \in Jobs |-> Billed(On(j))]
           FS == [j \in Jobs |-> Total(spent, SpentOn(j))]
<1>1. \A i \in D : book[i].job \in Jobs \cup {NoJob}
    BY LinesAre DEF LineRec
<1>2. FromBooking \subseteq Jobs
    BY HisaabAssumption
<1>3. \A j \in Jobs : SpentOn(j) = {e \in DOMAIN spent : SpentFor[e] = j}
  <2> TAKE j \in Jobs
  <2>1. j # NoJob
      OBVIOUS
  <2> QED BY <1>2, <2>1 DEF SpentOn, SpentFor
<1>4. \A j \in Jobs : /\ Billed(On(j)) \in Int /\ Total(spent, SpentOn(j)) \in Nat
                      /\ Billed(On(j)) = SumFn(Coming, {i \in X : job[i] = j})
                      /\ Total(spent, SpentOn(j)) = SumFn(Spend, {e \in Y : SpentFor[e] = j})
  <2> TAKE j \in Jobs
  <2> DEFINE O == On(j)  L == {i \in O \ Settled : book[i].kind \in ChargeKinds}
             P == SpentOn(j)  M == Live(spent) \cap P
  <2>1. O \in SUBSET D /\ L = {i \in X : job[i] = j}
      OBVIOUS
  <2>2. M = {e \in Y : SpentFor[e] = j}
      BY <1>3
  <2>3. Billed(O) \in Int /\ Billed(O) = SumFn(Coming, L)
    <3> HIDE DEF O
    <3> QED BY <2>1, BilledIsSum
  <2>4. Total(spent, P) \in Nat /\ Total(spent, P) = SumFn(Spend, M)
    <3> HIDE DEF P
    <3> QED BY TotalIsNat, TotalIsSum
  <2> QED BY <2>1, <2>2, <2>3, <2>4
<1>5. /\ IsFiniteSet(X) /\ X \in SUBSET D /\ (\A i \in X : Coming[i] \in Int)
      /\ IsFiniteSet(Y) /\ \A e \in Y : Spend[e] \in Int
  <2>1. IsFiniteSet(X) /\ \A i \in X : Coming[i] \in Int
    <3>1. X \in SUBSET (DOMAIN book)
        OBVIOUS
    <3> HIDE DEF X
    <3> QED BY <3>1, SumOverAmount
  <2>2. IsFiniteSet(Y) /\ \A e \in Y : Spend[e] \in Nat
      BY TotalIsSum
  <2> QED BY <2>1, <2>2
<1>6. SumOver(Jobs, JobMargin) = SumFn(FB, Jobs) - SumFn(FS, Jobs)
  <2>1. \A j \in Jobs : /\ JobMargin(j) = FB[j] - FS[j] /\ FB[j] \in Int /\ FS[j] \in Int
                        /\ JobMargin(j) \in Int
    <3> TAKE j \in Jobs
    <3>1. /\ FB[j] = Billed(On(j)) /\ FS[j] = Total(spent, SpentOn(j))
          /\ JobMargin(j) = Billed(On(j)) - Total(spent, SpentOn(j))
        BY DEF JobMargin
    <3>2. Billed(On(j)) \in Int /\ Total(spent, SpentOn(j)) \in Nat
        BY <1>4
    <3> HIDE DEF FB, FS, On
    <3> QED BY <3>1, <3>2
  <2>2. SumOver(Jobs, JobMargin) = SumFn(Margins, Jobs) /\ \A j \in Jobs : Margins[j] = JobMargin(j)
      BY <2>1, MarginsAreSummed
  <2> HIDE DEF FB, FS
  <2>3. \A j \in Jobs : FB[j] \in Int /\ FS[j] \in Int /\ Margins[j] = FB[j] - FS[j]
      BY <2>1, <2>2
  <2>4. SumFn(Margins, Jobs) = SumFn(FB, Jobs) - SumFn(FS, Jobs)
      BY <2>3, SumMinus
  <2> QED BY <2>2, <2>4
<1>7. SumFn(FB, Jobs) = SumFn(Coming, {i \in X : job[i] \in Jobs})
  <2> DEFINE P == [j \in Jobs |-> {i \in X : job[i] = j}]
             U == {i \in X : job[i] \in Jobs}
  <2>1. \A j \in Jobs : /\ FB[j] = SumFn(Coming, P[j])
                        /\ \A x : x \in P[j] <=> x \in X /\ job[x] = j
      BY <1>4
  <2>2. IsFiniteSet(X) /\ \A i \in X : Coming[i] \in Int
      BY <1>5
  <2>3. \A x : x \in U <=> x \in X /\ job[x] \in Jobs
      OBVIOUS
  <2> HIDE DEF FB, X, job, P, U
  <2>4. SumFn(FB, Jobs) = SumFn(Coming, U)
      BY <2>1, <2>2, <2>3, SumByKey, SMTT(30)
  <2> QED BY <2>4 DEF U
<1>8. SumFn(FS, Jobs) = SumFn(Spend, {e \in Y : SpentFor[e] \in Jobs})
  <2> DEFINE P == [j \in Jobs |-> {e \in Y : SpentFor[e] = j}]
             U == {e \in Y : SpentFor[e] \in Jobs}
  <2>1. \A j \in Jobs : /\ FS[j] = SumFn(Spend, P[j])
                        /\ \A x : x \in P[j] <=> x \in Y /\ SpentFor[x] = j
      BY <1>4
  <2>2. IsFiniteSet(Y) /\ \A e \in Y : Spend[e] \in Int
      BY <1>5
  <2>3. \A x : x \in U <=> x \in Y /\ SpentFor[x] \in Jobs
      OBVIOUS
  <2> HIDE DEF FS, Y, P, U
  <2>4. SumFn(FS, Jobs) = SumFn(Spend, U)
      BY <2>1, <2>2, <2>3, SumByKey, SMTT(30)
  <2> QED BY <2>4 DEF U
<1> DEFINE Busy == {i \in D : book[i].job \in Jobs}
           Idle == {i \in D : book[i].job = NoJob}
           Told == UNION {SpentOn(j) : j \in Jobs}
           Rest == DOMAIN spent \ Told
<1>9. /\ Busy \in SUBSET D /\ Idle \in SUBSET D /\ Busy \cap Idle = {} /\ Busy \cup Idle = D
    BY <1>1
<1>10. Billed(Busy) = SumFn(FB, Jobs)
  <2> DEFINE L == {i \in Busy \ Settled : book[i].kind \in ChargeKinds}
  <2>1. L = {i \in X : job[i] \in Jobs}
      OBVIOUS
  <2>2. Billed(Busy) = SumFn(Coming, L)
    <3> HIDE DEF Busy
    <3> QED BY <1>9, BilledIsSum
  <2> QED BY <1>7, <2>1, <2>2
<1>11. Total(spent, Told) = SumFn(FS, Jobs)
  <2>1. Live(spent) \cap Told = {e \in Y : SpentFor[e] \in Jobs}
      BY <1>3 DEF Live
  <2>2. Total(spent, Told) = SumFn(Spend, Live(spent) \cap Told)
    <3> HIDE DEF Told
    <3> QED BY TotalIsSum
  <2> QED BY <1>8, <2>1, <2>2
<1>12. Told \subseteq DOMAIN spent /\ Told \cap Rest = {} /\ Told \cup Rest = DOMAIN spent
    BY <1>3
<1>13. MonthProfit(0, Now + 1) = Billed(D) - Total(spent, DOMAIN spent)
  <2>1. {e \in DOMAIN spent : Within(spent[e].at, 0, Now + 1)} = DOMAIN spent
      BY WholeTime
  <2> QED BY <2>1, WholeTime DEF MonthProfit, KharchaBetween
<1>14. Billed(D) = Billed(Busy) + Billed(Idle) /\ Billed(Busy) \in Int /\ Billed(Idle) \in Int
  <2> HIDE DEF Busy, Idle
  <2>1. Billed(Busy \cup Idle) = Billed(Busy) + Billed(Idle)
      BY <1>9, BilledApart
  <2> QED BY <1>9, <2>1, BilledIsSum
<1>15. /\ Total(spent, DOMAIN spent) = Total(spent, Told) + Total(spent, Rest)
       /\ Total(spent, Told) \in Nat /\ Total(spent, Rest) \in Nat
  <2> HIDE DEF Told, Rest
  <2>1. Total(spent, Told \cup Rest) = Total(spent, Told) + Total(spent, Rest)
      BY <1>12, TotalApart
  <2> QED BY <1>12, <2>1, TotalIsNat
<1> HIDE DEF FB, FS
<1> DEFINE a == Billed(Busy)  b == Billed(Idle)  c == Total(spent, Told)  d == Total(spent, Rest)
<1>16. /\ a \in Int /\ b \in Int /\ c \in Int /\ d \in Int
       /\ SumOver(Jobs, JobMargin) = a - c
       /\ MonthProfit(0, Now + 1) = (a + b) - (c + d)
    BY <1>6, <1>10, <1>11, <1>13, <1>14, <1>15
<1>17. /\ Billed({i \in DOMAIN book : book[i].job = NoJob}) = b
       /\ Total(spent, DOMAIN spent \ UNION {SpentOn(j) : j \in Jobs}) = d
    OBVIOUS
<1> HIDE DEF a, b, c, d
<1> QED BY <1>16, <1>17

LEMMA ProfitsAgree ==
    ASSUME PhoneInv, IsFiniteSet(Jobs), NoJob \notin Jobs PROVE ProfitAddsUp
<1>1. \A t \in Cuts : MonthProfit(0, t) + MonthProfit(t, Now + 1) = MonthProfit(0, Now + 1)
    BY MonthsAddUp
<1>2. ASSUME NEW o \in ScansHeld("check_out"), gearOut = queue[o].job
      PROVE  \E t \in Cuts : gearOut \in DayAccount(t, t + 1).out
  <2>1. o \in Cuts /\ o \in Nat
      BY SeqFacts DEF ScansHeld, Cuts, PhoneInv
  <2>2. Within(o, o, o + 1)
      BY <2>1 DEF Within
  <2>3. gearOut \in JobsMoved("check_out", o, o + 1)
      BY <1>2, <2>2 DEF JobsMoved
  <2> QED BY <2>1, <2>3 DEF DayAccount
<1>3. GearCost <= KharchaBetween(0, Now + 1)
  <2> DEFINE A == {e \in DOMAIN spent : spent[e].gear /\ spent[e].kind = "repair"}
             B == {e \in DOMAIN spent : Within(spent[e].at, 0, Now + 1)}
             L == Live(spent) \cap A  M == Live(spent) \cap B
  <2>1. L \subseteq M
      BY WholeTime
  <2>2. /\ IsFiniteSet(M) /\ (\A x \in M : Spend[x] \in Nat)
        /\ Total(spent, A) = SumFn(Spend, L) /\ Total(spent, B) = SumFn(Spend, M)
    <3> HIDE DEF A, B
    <3> QED BY TotalIsSum
  <2>3. GearCost = Total(spent, A) /\ KharchaBetween(0, Now + 1) = Total(spent, B)
      BY DEF GearCost, KharchaBetween
  <2> HIDE DEF L, M
  <2>4. SumFn(Spend, L) <= SumFn(Spend, M)
      BY <2>1, <2>2, SumWithin
  <2> QED BY <2>2, <2>3, <2>4
<1> QED BY <1>1, <1>2, <1>3, MarginsAddUp DEF ProfitAddsUp

-----------------------------------------------------------------------------
(* The deposits' lines and the deposits.                                   *)

Potted(b) == {i \in DOMAIN b : b[i].kind \in DepositKinds}
Held(b) == SumFn(Rows(b), Potted(b))
InPurses(ps) == SumFn(Purse(ps), DOMAIN ps)

LEMMA HeldRests ==
    ASSUME NEW b, NEW c, NEW m \in Nat, NEW n \in Nat, m <= n, DOMAIN b = 1 .. m, DOMAIN c = 1 .. n,
           \A i \in 1 .. m : c[i] = b[i] /\ b[i].amount \in Int,
           \A i \in (1 .. n) \ (1 .. m) : c[i].kind \notin DepositKinds
    PROVE  Held(c) = Held(b)
<1>1. Potted(c) = Potted(b) /\ Potted(b) \subseteq 1 .. m
    BY DEF Potted
<1>2. IsFiniteSet(1 .. m)
    BY FS_Interval
<1>3. IsFiniteSet(Potted(b))
    BY <1>1, <1>2, FS_Subset
<1>4. \A i \in Potted(b) : Rows(b)[i] = Rows(c)[i] /\ Rows(b)[i] \in Int
    BY <1>1 DEF Rows
<1> QED BY <1>1, <1>3, <1>4, SumCong DEF Held

LEMMA HeldGrows ==
    ASSUME NEW b, NEW c, NEW m \in Nat, DOMAIN b = 1 .. m, DOMAIN c = 1 .. m + 1,
           \A i \in 1 .. m : c[i] = b[i] /\ b[i].amount \in Int,
           c[m + 1].kind \in DepositKinds, c[m + 1].amount \in Int
    PROVE  Held(c) = Held(b) + c[m + 1].amount /\ Held(b) \in Int
<1> DEFINE P == Potted(b)  z == m + 1
<1>1. Potted(c) = P \cup {z} /\ P \subseteq 1 .. m /\ z \notin P
    BY DEF Potted
<1>2. IsFiniteSet(P)
  <2>1. IsFiniteSet(1 .. m)
      BY FS_Interval
  <2> QED BY <1>1, <2>1, FS_Subset
<1>3. /\ \A i \in P : Rows(b)[i] = Rows(c)[i] /\ Rows(b)[i] \in Int /\ Rows(c)[i] \in Int
      /\ Rows(c)[z] = c[m + 1].amount /\ Rows(c)[z] \in Int
    BY <1>1 DEF Rows
<1>4. Held(b) = SumFn(Rows(b), P) /\ Held(c) = SumFn(Rows(c), P \cup {z})
    BY <1>1 DEF Held
<1> HIDE DEF P, z
<1>5. SumFn(Rows(b), P) = SumFn(Rows(c), P)
    BY <1>2, <1>3, SumCong
<1>6. SumFn(Rows(c), P \cup {z}) = Rows(c)[z] + SumFn(Rows(c), P)
    BY <1>1, <1>2, <1>3, SumAdd
<1>7. SumFn(Rows(c), P) \in Int
    BY <1>2, <1>3, SumType
<1> QED BY <1>3, <1>4, <1>5, <1>6, <1>7

LEMMA PurseFacts ==
    ASSUME NEW ps \in Seq(Deposit)
    PROVE  /\ IsFiniteSet(DOMAIN ps) /\ Len(ps) \in Nat /\ DOMAIN ps = 1 .. Len(ps)
           /\ \A p \in DOMAIN ps : Purse(ps)[p] = Remains(ps[p]) /\ Purse(ps)[p] \in Int
           /\ InPurses(ps) \in Int
<1>1. /\ Len(ps) \in Nat /\ DOMAIN ps = 1 .. Len(ps) /\ \A p \in DOMAIN ps : ps[p] \in Deposit
    OBVIOUS
<1>2. IsFiniteSet(DOMAIN ps)
    BY <1>1, FS_Interval
<1>3. \A p \in DOMAIN ps : Purse(ps)[p] = Remains(ps[p]) /\ Purse(ps)[p] \in Int
    BY <1>1 DEF Purse, Remains, Deposit
<1>4. InPurses(ps) \in Int
    BY <1>2, <1>3, SumType DEF InPurses
<1> QED BY <1>1, <1>2, <1>3, <1>4

LEMMA PursesGrow ==
    ASSUME NEW ps \in Seq(Deposit), NEW d \in Deposit
    PROVE  InPurses(Append(ps, d)) = InPurses(ps) + Remains(d)
<1> DEFINE qs == Append(ps, d)  z == Len(ps) + 1
<1>1. /\ qs \in Seq(Deposit) /\ DOMAIN qs = 1 .. Len(ps) + 1 /\ Len(ps) \in Nat
      /\ DOMAIN ps = 1 .. Len(ps) /\ \A p \in DOMAIN ps : qs[p] = ps[p]
      /\ qs[z] = d
    BY AppendIsSeq
<1> HIDE DEF qs
<1> DEFINE D == DOMAIN ps
<1>2. DOMAIN qs = D \cup {z} /\ z \notin D
    BY <1>1
<1>3. /\ IsFiniteSet(D) /\ \A p \in D : Purse(ps)[p] = Remains(ps[p]) /\ Purse(ps)[p] \in Int
    BY PurseFacts
<1>4. \A p \in D \cup {z} : Purse(qs)[p] = Remains(qs[p]) /\ Purse(qs)[p] \in Int
    BY <1>1, <1>2, PurseFacts
<1>5. \A p \in D : Purse(ps)[p] = Purse(qs)[p] /\ Purse(ps)[p] \in Int
    BY <1>1, <1>3, <1>4
<1>6. InPurses(ps) = SumFn(Purse(ps), D) /\ InPurses(qs) = SumFn(Purse(qs), D \cup {z})
    BY <1>2 DEF InPurses
<1>7. Purse(qs)[z] = Remains(d) /\ Purse(qs)[z] \in Int
    BY <1>1, <1>4
<1> HIDE DEF D, z
<1>8. SumFn(Purse(ps), D) = SumFn(Purse(qs), D)
    BY <1>3, <1>5, SumCong
<1>9. SumFn(Purse(qs), D \cup {z}) = Purse(qs)[z] + SumFn(Purse(qs), D)
  <2>1. \A p \in D \cup {z} : Purse(qs)[p] \in Int
      BY <1>4
  <2> QED BY <1>2, <1>3, <2>1, SumAdd
<1>10. InPurses(ps) \in Int
    BY PurseFacts
<1>11. InPurses(qs) = InPurses(ps) + Remains(d)
    BY <1>6, <1>7, <1>8, <1>9, <1>10
<1> QED BY <1>11 DEF qs

LEMMA PursesMove ==
    ASSUME NEW ps \in Seq(Deposit), NEW q \in DOMAIN ps, NEW d \in Deposit
    PROVE  InPurses([ps EXCEPT ![q] = d]) = InPurses(ps) - Remains(ps[q]) + Remains(d)
<1> DEFINE qs == [ps EXCEPT ![q] = d]
<1>1. /\ qs \in Seq(Deposit) /\ DOMAIN qs = DOMAIN ps
      /\ \A p \in DOMAIN ps : qs[p] = IF p = q THEN d ELSE ps[p]
    BY ExceptIsSeq
<1> HIDE DEF qs
<1> DEFINE D == DOMAIN ps  R == D \ {q}
<1>2. /\ IsFiniteSet(D) /\ \A p \in D : Purse(ps)[p] = Remains(ps[p]) /\ Purse(ps)[p] \in Int
    BY PurseFacts
<1>3. \A p \in D : Purse(qs)[p] = Remains(qs[p]) /\ Purse(qs)[p] \in Int
    BY <1>1, PurseFacts
<1>4. \A p \in R : Purse(ps)[p] = Purse(qs)[p] /\ Purse(ps)[p] \in Int /\ Purse(qs)[p] \in Int
    BY <1>1, <1>2, <1>3
<1>5. InPurses(ps) = SumFn(Purse(ps), D) /\ InPurses(qs) = SumFn(Purse(qs), D)
    BY <1>1 DEF InPurses
<1>6. IsFiniteSet(R) /\ q \in D
    BY <1>2, SmallerSet
<1>7. SumFn(Purse(ps), D) = Purse(ps)[q] + SumFn(Purse(ps), D \ {q})
  <2> HIDE DEF D
  <2> QED BY <1>2, <1>6, SumRemove
<1>8. SumFn(Purse(qs), D) = Purse(qs)[q] + SumFn(Purse(qs), D \ {q})
  <2> HIDE DEF D
  <2> QED BY <1>2, <1>3, <1>6, SumRemove
<1>9. /\ Purse(ps)[q] = Remains(ps[q]) /\ Purse(qs)[q] = Remains(d)
      /\ Purse(ps)[q] \in Int /\ Purse(qs)[q] \in Int
    BY <1>1, <1>2, <1>3
<1> HIDE DEF R
<1>10. SumFn(Purse(ps), R) = SumFn(Purse(qs), R) /\ SumFn(Purse(ps), R) \in Int
  <2>1. SumFn(Purse(ps), R) \in Int
      BY <1>4, <1>6, SumType
  <2> QED BY <1>4, <1>6, <2>1, SumCong
<1>11. InPurses(qs) = InPurses(ps) - Remains(ps[q]) + Remains(d)
    BY <1>5, <1>7, <1>8, <1>9, <1>10 DEF R
<1> QED BY <1>11 DEF qs

-----------------------------------------------------------------------------
(* On the server.                                                          *)

ServerPots ==
    /\ Held(ledger) = InPurses(deposits)
    /\ \A d \in Desks : call[d].verb = "entry" => call[d].kind \in EntryKinds

LEMMA LedgerIs ==
    ASSUME ServerTypeOK
    PROVE  /\ Len(ledger) \in Nat /\ DOMAIN ledger = 1 .. Len(ledger)
           /\ \A i \in DOMAIN ledger : ledger[i] \in Row /\ ledger[i].amount \in Int
<1>1. Len(ledger) \in Nat /\ DOMAIN ledger = 1 .. Len(ledger) /\ \A i \in DOMAIN ledger : ledger[i] \in Row
    BY DEF ServerTypeOK
<1> QED BY <1>1 DEF Row

LEMMA LedgerGrows ==
    ASSUME ServerTypeOK, NEW r \in Row, ledger' = Append(ledger, r)
    PROVE  /\ r.kind \notin DepositKinds => Held(ledger)' = Held(ledger)
           /\ r.kind \in DepositKinds => Held(ledger)' = Held(ledger) + r.amount
           /\ r.kind \in DepositKinds => Held(ledger) \in Int
<1> DEFINE n == Len(ledger)
<1>1. /\ n \in Nat /\ n + 1 \in Nat /\ n <= n + 1 /\ DOMAIN ledger = 1 .. n
      /\ \A i \in 1 .. n : ledger[i].amount \in Int
    BY LedgerIs
<1>2. /\ DOMAIN ledger' = 1 .. n + 1
      /\ \A i \in 1 .. n : ledger'[i] = ledger[i] /\ ledger[i].amount \in Int
      /\ ledger'[n + 1] = r
    BY <1>1, AppendIsSeq DEF ServerTypeOK
<1>3. r.amount \in Int
    BY DEF Row
<1>4. \A i \in (1 .. n + 1) \ (1 .. n) : i = n + 1
    BY <1>1
<1> HIDE DEF n
<1>5. ASSUME r.kind \notin DepositKinds PROVE Held(ledger') = Held(ledger)
  <2>1. \A i \in (1 .. n + 1) \ (1 .. n) : ledger'[i].kind \notin DepositKinds
      BY <1>2, <1>4, <1>5
  <2> QED BY <1>1, <1>2, <2>1, HeldRests
<1>6. ASSUME r.kind \in DepositKinds PROVE Held(ledger') = Held(ledger) + r.amount /\ Held(ledger) \in Int
    BY <1>1, <1>2, <1>3, <1>6, HeldGrows, ZenonT(40)
<1>7. Held(ledger)' = Held(ledger')
    BY DEF Held, Rows, Potted
<1> QED BY <1>5, <1>6, <1>7

LEMMA ServerPotsKeep ==
    ASSUME MoneyInv, ServerPots, [ServerNext]_serverVars PROVE ServerPots'
<1>1. /\ ServerTypeOK /\ CallSound /\ deposits \in Seq(Deposit)
      /\ \A dep \in DOMAIN deposits : /\ deposits[dep] \in Deposit
                                      /\ deposits[dep].applied <= deposits[dep].amount
    BY ElementsAreTyped DEF MoneyInv, ServerTypeOK
<1>2. \A d \in Desks : call[d].verb = "entry" => call[d].kind \in EntryKinds
    BY DEF ServerPots
<1>3. CASE UNCHANGED serverVars
    BY <1>3 DEF serverVars, ServerPots, Held, Rows, Potted, InPurses, Purse
<1>4. ASSUME NEW d \in Desks, call'[d] \in Rpc, Begin(d, call'[d]) PROVE ServerPots'
  <2>1. /\ \A e \in Desks : e # d => call'[e] = call[e]
        /\ Fits(call'[d]) /\ UNCHANGED <<ledger, deposits>>
      BY <1>1, <1>4 DEF Begin, MayStart, ServerTypeOK
  <2>2. call'[d].verb = "entry" => call'[d].kind \in EntryKinds
      BY <2>1 DEF Fits, EntryFits
  <2>3. \A e \in Desks : call'[e].verb = "entry" => call'[e].kind \in EntryKinds
      BY <1>2, <2>1, <2>2
  <2> QED BY <2>1, <2>3 DEF ServerPots, Held, Rows, Potted, InPurses, Purse
<1>5. ASSUME NEW d \in Desks, call[d] # NoCall, call' = [call EXCEPT ![d] = NoCall]
      PROVE  \A e \in Desks : call'[e].verb = "entry" => call'[e].kind \in EntryKinds
    BY <1>1, <1>2, <1>5 DEF ServerTypeOK, NoCall
<1>6. ASSUME NEW d \in Desks, RollBack(d) PROVE ServerPots'
    BY <1>5, <1>6 DEF RollBack, ServerPots, Held, Rows, Potted, InPurses, Purse
<1>7. ASSUME NEW d \in Desks, Commit(d) PROVE ServerPots'
  <2> DEFINE r == call[d]  q == r.deposit  old == deposits[q]
  <2>1. r # NoCall /\ call' = [call EXCEPT ![d] = NoCall]
      BY <1>7 DEF Commit
  <2>2. r \in Rpc /\ r.kind \in EntryKinds \cup DepositKinds /\ r.amount \in Int /\ r.deposit \in Nat
    <3>1. r \in Rpc
        BY <1>1, <2>1 DEF ServerTypeOK
    <3> QED BY <3>1 DEF Rpc
  <2>3. Held(ledger) = InPurses(deposits)
      BY DEF ServerPots
  <2>4. SUFFICES Held(ledger)' = InPurses(deposits')
    <3>1. InPurses(deposits)' = InPurses(deposits')
        BY DEF InPurses, Purse
    <3> QED BY <1>5, <2>1, <3>1 DEF ServerPots
  <2>5. CASE CommitEntry(r)
    <3>1. /\ EntryRow(r) \in Row /\ EntryRow(r).kind = r.kind /\ r.kind \in EntryKinds
        BY <1>2, <2>2, <2>5, RowsAreTyped DEF CommitEntry, EntryRow
    <3>2. EntryRow(r).kind \notin DepositKinds
        BY <3>1 DEF EntryKinds, ChargeKinds, DepositKinds
    <3>3. ledger' = Append(ledger, EntryRow(r)) /\ deposits' = deposits
        BY <2>5 DEF CommitEntry
    <3>4. Held(ledger)' = Held(ledger)
        BY <1>1, <3>1, <3>2, <3>3, LedgerGrows
    <3> QED BY <2>3, <3>3, <3>4
  <2>6. CASE CommitHold(r)
    <3> DEFINE new == [amount |-> r.amount, applied |-> 0, refunded |-> FALSE]
               row == DepositRow("deposit_hold", r.amount, Len(deposits) + 1)
    <3>1. r.amount > 0
        BY <1>1, <2>6 DEF CallSound, CommitHold
    <3>2. new \in Deposit /\ Remains(new) = r.amount
        BY <2>2, <3>1 DEF Deposit, Remains
    <3>3. Len(deposits) + 1 \in Nat /\ "deposit_hold" \in DepositKinds
        BY <1>1, PurseFacts DEF DepositKinds
    <3>4. row \in Row /\ row.kind \in DepositKinds /\ row.amount = r.amount
        BY <2>2, <3>3, RowsAreTyped DEF DepositRow
    <3>5. ledger' = Append(ledger, row) /\ deposits' = Append(deposits, new)
        BY <2>6 DEF CommitHold
    <3> HIDE DEF new, row
    <3>6. Held(ledger)' = Held(ledger) + r.amount /\ Held(ledger) \in Int
        BY <1>1, <3>4, <3>5, LedgerGrows
    <3>7. InPurses(deposits') = InPurses(deposits) + r.amount
        BY <1>1, <3>2, <3>5, PursesGrow
    <3> QED BY <2>3, <3>6, <3>7
  <2>7. ASSUME Moves(r) PROVE q \in DOMAIN deposits /\ old \in Deposit /\ ~ old.refunded
                             /\ old.applied <= old.amount /\ old.applied \in Nat /\ old.amount \in Nat
    <3>1. q \in DOMAIN deposits /\ ~ old.refunded
        BY <1>1, <2>7 DEF CallSound
    <3> QED BY <1>1, <3>1 DEF Deposit
  <2>8. CASE CommitApply(r)
    <3> DEFINE new == [old EXCEPT !.applied = @ + r.amount]
               m == -r.amount
               row == DepositRow("deposit_apply", m, q)
    <3>1. Moves(r) /\ r.amount \in 1 .. Left(q)
        BY <1>1, <2>8 DEF CallSound, CommitApply, Moves
    <3>2. q \in DOMAIN deposits /\ old \in Deposit /\ ~ old.refunded
          /\ old.applied <= old.amount /\ old.applied \in Nat /\ old.amount \in Nat
        BY <2>7, <3>1
    <3>3. new \in Deposit /\ Remains(new) = Remains(old) - r.amount /\ Remains(old) \in Int
        BY <2>2, <3>1, <3>2 DEF Deposit, Remains, Left
    <3>4. m \in Int /\ "deposit_apply" \in DepositKinds
        BY <2>2 DEF DepositKinds
    <3>5. ledger' = Append(ledger, row) /\ deposits' = [deposits EXCEPT ![q] = new]
        BY <2>8 DEF CommitApply
    <3> HIDE DEF new, m
    <3>6. row \in Row /\ row.kind \in DepositKinds /\ row.amount = m
        BY <2>2, <3>4, RowsAreTyped DEF DepositRow
    <3> HIDE DEF row
    <3>7. Held(ledger)' = Held(ledger) + m /\ Held(ledger) \in Int
        BY <1>1, <3>5, <3>6, LedgerGrows
    <3>8. InPurses(deposits') = InPurses(deposits) - Remains(old) + Remains(new)
        BY <1>1, <3>2, <3>3, <3>5, PursesMove
    <3>9. m = -r.amount
        BY DEF m
    <3> QED BY <2>2, <2>3, <3>3, <3>7, <3>8, <3>9
  <2>9. CASE CommitRefund(r)
    <3> DEFINE new == [old EXCEPT !.refunded = TRUE]
               m == -Left(q)
               row == DepositRow("deposit_refund", m, q)
    <3>1. Moves(r)
        BY <2>9 DEF CommitRefund, Moves
    <3>2. q \in DOMAIN deposits /\ old \in Deposit /\ ~ old.refunded
          /\ old.applied <= old.amount /\ old.applied \in Nat /\ old.amount \in Nat
        BY <2>7, <3>1
    <3>3. new \in Deposit /\ Remains(new) = 0 /\ Remains(old) = Left(q) /\ Left(q) \in Int
      <4>1. new \in Deposit /\ new.refunded = TRUE
          BY <3>2 DEF Deposit
      <4>2. Remains(old) = Left(q) /\ Left(q) \in Int
          BY <3>2 DEF Remains, Left
      <4> HIDE DEF new
      <4>3. Remains(new) = 0
          BY <4>1 DEF Remains
      <4> QED BY <4>1, <4>2, <4>3
    <3>4. m \in Int /\ "deposit_refund" \in DepositKinds
        BY <3>3 DEF DepositKinds
    <3>5. ledger' = Append(ledger, row) /\ deposits' = [deposits EXCEPT ![q] = new]
        BY <2>9 DEF CommitRefund
    <3> HIDE DEF new, m
    <3>6. row \in Row /\ row.kind \in DepositKinds /\ row.amount = m
        BY <2>2, <3>4, RowsAreTyped DEF DepositRow
    <3> HIDE DEF row
    <3>7. Held(ledger)' = Held(ledger) + m /\ Held(ledger) \in Int
        BY <1>1, <3>5, <3>6, LedgerGrows
    <3>8. InPurses(deposits') = InPurses(deposits) - Remains(old) + Remains(new)
        BY <1>1, <3>2, <3>3, <3>5, PursesMove
    <3>9. m = -Left(q)
        BY DEF m
    <3> QED BY <2>3, <3>3, <3>7, <3>8, <3>9
  <2> QED BY <1>7, <2>5, <2>6, <2>8, <2>9 DEF Commit
<1> QED BY <1>3, <1>4, <1>6, <1>7 DEF ServerNext

-----------------------------------------------------------------------------
(* On the phone.                                                           *)

PhonePots == Held(book) = InPurses(pots)

LEMMA PlainLinesKeep ==
    ASSUME PhoneInv, PhoneInv', PhonePots, pots' = pots, Len(book) <= Len(book'),
           \A i \in DOMAIN book : book'[i] = book[i],
           \A i \in DOMAIN book' \ DOMAIN book : book'[i].deposit = 0
    PROVE  PhonePots'
<1>1. /\ Len(book) \in Nat /\ DOMAIN book = 1 .. Len(book)
      /\ \A i \in DOMAIN book : book[i].amount \in Int
    BY LinesAre
<1>2. Len(book') \in Nat /\ DOMAIN book' = 1 .. Len(book')
    BY DEF PhoneInv, HisaabTypeOK, MoneyTypeOK
<1>3. \A i \in DOMAIN book' : book'[i].deposit # 0 <=> book'[i].kind \in DepositKinds
    BY DEF PhoneInv, LineFits
<1>4. Held(book') = Held(book)
    BY <1>1, <1>2, <1>3, HeldRests
<1>5. Held(book)' = Held(book') /\ InPurses(pots)' = InPurses(pots)
    BY DEF Held, Rows, Potted, InPurses, Purse
<1> QED BY <1>4, <1>5 DEF PhonePots

LEMMA OnePlainLine ==
    ASSUME PhoneInv, PhoneInv', PhonePots, pots' = pots, NEW l, l.deposit = 0,
           book' = Append(book, l)
    PROVE  PhonePots'
<1>1. book \in Seq(LineRec)
    BY DEF PhoneInv, HisaabTypeOK, MoneyTypeOK
<1> DEFINE S == LineRec \cup {l}
<1>2. book \in Seq(S) /\ l \in S
    BY <1>1
<1> HIDE DEF S
<1>3. /\ Append(book, l) \in Seq(S) /\ DOMAIN book = 1 .. Len(book)
      /\ DOMAIN Append(book, l) = 1 .. Len(book) + 1 /\ Len(book) \in Nat
      /\ \A i \in DOMAIN book : Append(book, l)[i] = book[i]
      /\ Append(book, l)[Len(book) + 1] = l
    BY <1>2, AppendIsSeq
<1>4. Len(book') = Len(book) + 1
    BY <1>2, <1>3
<1>5. \A i \in DOMAIN book' \ DOMAIN book : book'[i].deposit = 0
    BY <1>3
<1> QED BY <1>3, <1>4, <1>5, PlainLinesKeep

LEMMA LateFeePots ==
    ASSUME PhoneInv, PhoneInv', PhonePots, WaiveLateFee PROVE PhonePots'
<1>1. PICK fee, off : fee.deposit = 0 /\ off.deposit = 0 /\ book' = book \o <<fee, off>>
    BY DEF WaiveLateFee, Line
<1>2. book \in Seq(LineRec) /\ pots' = pots
    BY DEF WaiveLateFee, PhoneInv, HisaabTypeOK, MoneyTypeOK
<1> DEFINE S == LineRec \cup {fee, off}
<1>3. book \in Seq(S) /\ <<fee, off>> \in Seq(S) /\ Len(<<fee, off>>) = 2
    BY <1>2
<1> HIDE DEF S
<1>4. /\ DOMAIN book = 1 .. Len(book) /\ Len(book) \in Nat
      /\ Len(book') = Len(book) + 2 /\ DOMAIN book' = 1 .. Len(book) + 2
      /\ \A i \in DOMAIN book : book'[i] = book[i]
      /\ book'[Len(book) + 1] = fee /\ book'[Len(book) + 2] = off
    BY <1>1, <1>3
<1>5. \A i \in DOMAIN book' \ DOMAIN book : i = Len(book) + 1 \/ i = Len(book) + 2
    BY <1>4
<1>6. \A i \in DOMAIN book' \ DOMAIN book : book'[i].deposit = 0
    BY <1>1, <1>4, <1>5
<1> QED BY <1>2, <1>4, <1>6, PlainLinesKeep

LEMMA HoldPots ==
    ASSUME PhoneInv, PhonePots, HoldDeposit PROVE PhonePots'
<1>1. PICK n \in Taken, j \in OpenJobs \cup {NoJob} :
        /\ book' = Append(book, Line("deposit_hold", n, j, 0, 0, Len(pots) + 1))
        /\ pots' = Append(pots, [amount |-> n, applied |-> 0, refunded |-> FALSE])
    BY DEF HoldDeposit
<1> DEFINE l == Line("deposit_hold", n, j, 0, 0, Len(pots) + 1)
           new == [amount |-> n, applied |-> 0, refunded |-> FALSE]
<1>2. n \in Int /\ n > 0 /\ j \in JobOrNone /\ Len(pots) + 1 \in Nat
    BY CounterFacts DEF JobOrNone
<1>3. "deposit_hold" \in LineKinds /\ "deposit_hold" \in DepositKinds
    BY DEF LineKinds, DepositKinds
<1>4. l \in LineRec /\ l.kind \in DepositKinds /\ l.amount = n
  <2> DEFINE p == Len(pots) + 1
  <2>1. p \in Nat /\ 0 \in Nat /\ n \in Int
      BY <1>2
  <2> HIDE DEF p
  <2>2. LET m == Line("deposit_hold", n, j, 0, 0, p)
        IN  /\ m \in LineRec /\ m.kind = "deposit_hold" /\ m.amount = n /\ m.corrects = 0
            /\ m.reverses = 0 /\ m.deposit = p /\ m.at = Len(queue) + 1
      BY <1>2, <1>3, <2>1, LineIsTyped
  <2> QED BY <1>3, <2>2 DEF p
<1>5. new \in Deposit /\ Remains(new) = n
    BY <1>2 DEF Deposit, Remains
<1>6. book \in Seq(LineRec) /\ pots \in Seq(Deposit)
    BY DEF PhoneInv, HisaabTypeOK, MoneyTypeOK
<1>7. book' = Append(book, l) /\ pots' = Append(pots, new)
    BY <1>1
<1> HIDE DEF l, new
<1>8. Held(book') = Held(book) + n /\ Held(book) \in Int
  <2>1. /\ Len(book) \in Nat /\ DOMAIN book = 1 .. Len(book)
        /\ \A i \in DOMAIN book : book[i].amount \in Int
      BY LinesAre
  <2>2. /\ DOMAIN book' = 1 .. Len(book) + 1
        /\ \A i \in DOMAIN book : book'[i] = book[i]
        /\ book'[Len(book) + 1] = l
      BY <1>4, <1>6, <1>7, AppendIsSeq
  <2> QED BY <1>2, <1>4, <2>1, <2>2, HeldGrows
<1>9. InPurses(pots') = InPurses(pots) + n
    BY <1>5, <1>6, <1>7, PursesGrow
<1>10. Held(book)' = Held(book') /\ InPurses(pots)' = InPurses(pots')
    BY DEF Held, Rows, Potted, InPurses, Purse
<1> QED BY <1>8, <1>9, <1>10 DEF PhonePots

LEMMA MovePots ==
    ASSUME PhoneInv, PhonePots, NEW p \in DOMAIN pots, NEW op, NEW kind \in DepositKinds,
           NEW n \in Int, MoveDeposit(p, op, kind, n),
           NEW new \in Deposit, Remains(new) = Remaining(p) - n,
           pots' = [pots EXCEPT ![p] = new]
    PROVE  PhonePots'
<1> DEFINE m == -n
           l == Line(kind, m, NoJob, 0, 0, p)
<1>1. book' = Append(book, l)
    BY DEF MoveDeposit
<1>2. /\ book \in Seq(LineRec) /\ pots \in Seq(Deposit) /\ p \in Nat
      /\ m \in Int /\ kind \in LineKinds /\ NoJob \in JobOrNone
    BY DEF PhoneInv, HisaabTypeOK, MoneyTypeOK, LineKinds, JobOrNone
<1> HIDE DEF m
<1>3. l \in LineRec /\ l.kind \in DepositKinds /\ l.amount = m
  <2>1. /\ l \in LineRec /\ l.kind = kind /\ l.amount = m /\ l.corrects = 0
        /\ l.reverses = 0 /\ l.deposit = p /\ l.at = Len(queue) + 1
    <3>1. PICK z : z = 0
        OBVIOUS
    <3>2. z \in Nat
        BY <3>1
    <3>3. LET k == Line(kind, m, NoJob, z, z, p)
          IN  /\ k \in LineRec /\ k.kind = kind /\ k.amount = m /\ k.corrects = z
              /\ k.reverses = z /\ k.deposit = p /\ k.at = Len(queue) + 1
        BY <1>2, <3>2, LineIsTyped
    <3> QED BY <3>1, <3>3
  <2> QED BY <2>1
<1> HIDE DEF l
<1>4. Held(book') = Held(book) + m /\ Held(book) \in Int
  <2>1. /\ Len(book) \in Nat /\ DOMAIN book = 1 .. Len(book)
        /\ \A i \in DOMAIN book : book[i].amount \in Int
      BY LinesAre
  <2>2. /\ DOMAIN book' = 1 .. Len(book) + 1
        /\ \A i \in DOMAIN book : book'[i] = book[i]
        /\ book'[Len(book) + 1] = l
      BY <1>1, <1>2, <1>3, AppendIsSeq
  <2> QED BY <1>2, <1>3, <2>1, <2>2, HeldGrows
<1>5. InPurses(pots') = InPurses(pots) - Remains(pots[p]) + Remains(new)
    BY <1>2, PursesMove
<1>6. Remains(pots[p]) = Remaining(p) /\ Remaining(p) \in Nat
    BY PotOf DEF Remains, Remaining
<1>7. Held(book)' = Held(book') /\ InPurses(pots)' = InPurses(pots')
    BY DEF Held, Rows, Potted, InPurses, Purse
<1>8. m = -n
    BY DEF m
<1>9. InPurses(pots) \in Int
    BY <1>2, PurseFacts
<1> QED BY <1>4, <1>5, <1>6, <1>7, <1>8, <1>9 DEF PhonePots

LEMMA ApplyPots ==
    ASSUME PhoneInv, PhonePots, NEW p \in DOMAIN pots, ApplyDeposit(p) PROVE PhonePots'
<1>1. PICK n \in 1 .. Remaining(p) :
        /\ MoveDeposit(p, "apply", "deposit_apply", n)
        /\ pots' = [pots EXCEPT ![p].applied = @ + n]
    BY DEF ApplyDeposit
<1> DEFINE new == [pots[p] EXCEPT !.applied = @ + n]
<1>2. /\ pots[p] \in Deposit /\ pots[p].applied <= pots[p].amount /\ ~ pots[p].refunded
      /\ pots[p].applied \in Nat /\ pots[p].amount \in Nat
      /\ Remaining(p) = pots[p].amount - pots[p].applied
    BY PotOf DEF ApplyDeposit
<1>3. n \in Int /\ new \in Deposit /\ Remains(new) = Remaining(p) - n
    BY <1>2 DEF Deposit, Remains
<1>4. pots' = [pots EXCEPT ![p] = new]
    BY <1>1
<1>5. "deposit_apply" \in DepositKinds
    BY DEF DepositKinds
<1>6. MoveDeposit(p, "apply", "deposit_apply", n)
    BY <1>1
<1> HIDE DEF new
<1> QED BY <1>3, <1>4, <1>5, <1>6, MovePots

LEMMA RefundPots ==
    ASSUME PhoneInv, PhonePots, NEW p \in DOMAIN pots, RefundDeposit(p) PROVE PhonePots'
<1> DEFINE new == [pots[p] EXCEPT !.refunded = TRUE]
<1>1. /\ MoveDeposit(p, "refund", "deposit_refund", Remaining(p))
      /\ pots' = [pots EXCEPT ![p] = new]
    BY DEF RefundDeposit
<1>2. pots[p] \in Deposit /\ Remaining(p) \in Nat
    BY PotOf
<1>3. new \in Deposit /\ new.refunded = TRUE
    BY <1>2 DEF Deposit
<1> HIDE DEF new
<1>4. Remains(new) = Remaining(p) - Remaining(p) /\ Remaining(p) \in Int
  <2>1. Remains(new) = 0
      BY <1>3 DEF Remains
  <2> QED BY <1>2, <2>1
<1>5. "deposit_refund" \in DepositKinds
    BY DEF DepositKinds
<1> QED BY <1>1, <1>3, <1>4, <1>5, MovePots

LEMMA CounterPots ==
    ASSUME PhoneInv, PhoneInv', PhonePots, AtTheCounter PROVE PhonePots'
<1>1. ASSUME RecordCharge \/ RecordPayment \/ WriteOffBalance
             \/ (\E i \in DOMAIN book : CorrectEntry(i) \/ WriteOffEntry(i))
             \/ (\E j \in Jobs : LendOut(j))
      PROVE  PhonePots'
  <2>1. PICK l : l.deposit = 0 /\ book' = Append(book, l)
    <3>1. CASE RecordCharge
        BY <3>1 DEF RecordCharge, RecordEntry, Line
    <3>2. CASE RecordPayment
        BY <3>2 DEF RecordPayment, RecordEntry, Line
    <3>3. CASE WriteOffBalance
        BY <3>3 DEF WriteOffBalance, RecordEntry, Line
    <3>4. CASE \E i \in DOMAIN book : CorrectEntry(i) \/ WriteOffEntry(i)
        BY <3>4 DEF CorrectEntry, WriteOffEntry, RecordEntry, Line
    <3>5. CASE \E j \in Jobs : LendOut(j)
        BY <3>5 DEF LendOut, Line
    <3> QED BY <1>1, <3>1, <3>2, <3>3, <3>4, <3>5
  <2>2. pots' = pots
      BY <1>1 DEF RecordCharge, RecordPayment, WriteOffBalance, CorrectEntry, WriteOffEntry, LendOut
  <2> QED BY <2>1, <2>2, OnePlainLine
<1>2. ASSUME (\E j \in Jobs : CreateJob(j) \/ JobOp(j))
             \/ (\E j \in Jobs, kind \in Scans : ScanUnit(kind, j))
      PROVE  PhonePots'
  <2>1. UNCHANGED <<book, pots>>
      BY <1>2 DEF CreateJob, JobOp, ScanUnit
  <2> QED BY <2>1 DEF PhonePots, Held, Rows, Potted, InPurses, Purse
<1> QED BY <1>1, <1>2, LateFeePots, HoldPots, ApplyPots, RefundPots DEF AtTheCounter

LEMMA PhonePotsKeep ==
    ASSUME PhoneInv, PhoneInv', PhonePots, [HisaabNext]_hisaabVars PROVE PhonePots'
<1>1. CASE AtTheCounter
    BY <1>1, CounterPots
<1>2. ASSUME UNCHANGED <<book, pots>> PROVE PhonePots'
    BY <1>2 DEF PhonePots, Held, Rows, Potted, InPurses, Purse
<1>3. CASE Send \/ Refused \/ Answered \/ RolledBack \/ AnsweredElsewhere \/ OtherBegins \/ OtherEnds
    BY <1>2, <1>3 DEF Send, Refused, Answered, RolledBack, AnsweredElsewhere, OtherBegins,
                      OtherEnds, phoneVars
<1>4. CASE RecordExpense \/ RecordServiced \/ (\E e \in DOMAIN spent : ReverseExpense(e)) \/ SetBlacklisted
    BY <1>2, <1>4 DEF RecordExpense, RecordServiced, ReverseExpense, SetBlacklisted
<1>5. CASE ExpenseAnswered \/ BarLands \/ OtherReverses
    BY <1>2, <1>5 DEF ExpenseAnswered, BarLands, OtherReverses, phoneVars
<1>6. CASE UNCHANGED hisaabVars
    BY <1>2, <1>6 DEF hisaabVars, vars, phoneVars
<1> QED BY <1>1, <1>3, <1>4, <1>5, <1>6 DEF HisaabNext, Next

-----------------------------------------------------------------------------
(* The figures.                                                            *)

LEMMA RowsMovedAreSummed ==
    ASSUME ServerTypeOK, NEW S \in SUBSET (DOMAIN ledger)
    PROVE  LET Moved(i) == ledger[i].amount IN SumOver(S, Moved) = SumFn(Rows(ledger), S)
<1>1. IsFiniteSet(S) /\ \A x \in S : Rows(ledger)[x] = ledger[x].amount /\ Rows(ledger)[x] \in Int
  <2>1. Len(ledger) \in Nat /\ DOMAIN ledger = 1 .. Len(ledger)
        /\ \A i \in DOMAIN ledger : ledger[i].amount \in Int
      BY LedgerIs
  <2>2. IsFiniteSet(DOMAIN ledger)
      BY <2>1, FS_Interval
  <2> QED BY <2>1, <2>2, FS_Subset DEF Rows
<1> DEFINE Body(h, s) == IF s = {} THEN 0
                         ELSE ledger[(CHOOSE x \in s : TRUE)].amount + h[s \ {CHOOSE x \in s : TRUE}]
           it == CHOOSE h : h = [s \in SUBSET S |-> Body(h, s)]
<1>2. (LET Moved(i) == ledger[i].amount IN SumOver(S, Moved)) = it[S]
    BY DEF SumOver, MapThenSumSet, MapThenFoldSet
<1>3. \A h : \A s \in SUBSET S : Body(h, s) = SumStep(h, Rows(ledger), s)
    BY <1>1 DEF SumStep, AnyOf
<1>4. PICK g \in [SUBSET S -> Int] : IsSumTable(g, Rows(ledger), S)
    BY <1>1, SumTableExists
<1>5. g = [s \in SUBSET S |-> Body(g, s)]
  <2> HIDE DEF Body
  <2> QED BY <1>3, <1>4 DEF IsSumTable
<1>6. it = [s \in SUBSET S |-> Body(it, s)]
  <2> HIDE DEF Body
  <2> QED BY <1>5
<1> HIDE DEF it
<1>7. IsSumTable(it, Rows(ledger), S)
  <2> HIDE DEF Body
  <2> QED BY <1>3, <1>6 DEF IsSumTable
<1>8. SumFn(Rows(ledger), S) = it[S]
    BY <1>1, <1>7, SumIsTables
<1> QED BY <1>1, <1>2, <1>8

LEMMA LeftIsSummed ==
    ASSUME ServerTypeOK
    PROVE  LET LeftOf(p) == IF deposits[p].refunded THEN 0 ELSE Left(p)
           IN  SumOver(DOMAIN deposits, LeftOf) = InPurses(deposits)
<1> DEFINE P == DOMAIN deposits
<1>1. IsFiniteSet(P) /\ \A x \in P : Purse(deposits)[x] = Remains(deposits[x]) /\ Purse(deposits)[x] \in Int
  <2>1. deposits \in Seq(Deposit)
      BY DEF ServerTypeOK
  <2> QED BY <2>1, PurseFacts
<1> DEFINE Body(h, s) == IF s = {} THEN 0
                         ELSE Remains(deposits[(CHOOSE x \in s : TRUE)]) + h[s \ {CHOOSE x \in s : TRUE}]
           it == CHOOSE h : h = [s \in SUBSET P |-> Body(h, s)]
<1>2. (LET LeftOf(p) == IF deposits[p].refunded THEN 0 ELSE Left(p)
       IN  SumOver(P, LeftOf)) = it[P]
    BY DEF SumOver, MapThenSumSet, MapThenFoldSet, Remains, Left
<1>3. \A h : \A s \in SUBSET P : Body(h, s) = SumStep(h, Purse(deposits), s)
    BY <1>1 DEF SumStep, AnyOf
<1>4. PICK g \in [SUBSET P -> Int] : IsSumTable(g, Purse(deposits), P)
    BY <1>1, SumTableExists
<1>5. g = [s \in SUBSET P |-> Body(g, s)]
  <2> HIDE DEF Body
  <2> QED BY <1>3, <1>4 DEF IsSumTable
<1>6. it = [s \in SUBSET P |-> Body(it, s)]
  <2> HIDE DEF Body
  <2> QED BY <1>5
<1> HIDE DEF it
<1>7. IsSumTable(it, Purse(deposits), P)
  <2> HIDE DEF Body
  <2> QED BY <1>3, <1>6 DEF IsSumTable
<1>8. SumFn(Purse(deposits), P) = it[P]
    BY <1>1, <1>7, SumIsTables
<1> QED BY <1>1, <1>2, <1>8 DEF InPurses

LEMMA PotsAgree ==
    ASSUME HisaabInv, PhonePots, ServerPots PROVE PotMatchesRows
<1>1. PhoneInv /\ ServerTypeOK
    BY DEF HisaabInv, MoneyInv
<1>2. DepositHeldOf(DOMAIN book) = SumOver(DOMAIN pots, Remaining)
  <2> DEFINE S == {i \in DOMAIN book : InPot(i)}
  <2>1. S \in SUBSET (DOMAIN book) /\ S = Potted(book) /\ Coming = Rows(book)
      BY DEF InPot, Potted, Coming, Rows
  <2>2. DepositHeldOf(DOMAIN book) = SumOver(S, Amount)
      BY DEF DepositHeldOf
  <2> HIDE DEF S
  <2>3. SumOver(S, Amount) = Held(book)
      BY <1>1, <2>1, SumOverAmount DEF Held
  <2>4. SumOver(DOMAIN pots, Remaining) = InPurses(pots)
      BY <1>1, PursesAreSummed DEF InPurses
  <2> QED BY <2>2, <2>3, <2>4 DEF PhonePots
<1>3. LET Moved(i) == ledger[i].amount
          LeftOf(p) == IF deposits[p].refunded THEN 0 ELSE Left(p)
      IN  SumOver({i \in DOMAIN ledger : ledger[i].kind \in DepositKinds}, Moved)
            = SumOver(DOMAIN deposits, LeftOf)
  <2> DEFINE S == {i \in DOMAIN ledger : ledger[i].kind \in DepositKinds}
  <2>1. S \in SUBSET (DOMAIN ledger) /\ S = Potted(ledger)
      BY DEF Potted
  <2> HIDE DEF S
  <2>2. (LET Moved(i) == ledger[i].amount IN SumOver(S, Moved)) = SumFn(Rows(ledger), S)
      BY <1>1, <2>1, RowsMovedAreSummed
  <2>3. (LET LeftOf(p) == IF deposits[p].refunded THEN 0 ELSE Left(p)
         IN  SumOver(DOMAIN deposits, LeftOf)) = InPurses(deposits)
      BY <1>1, LeftIsSummed
  <2>4. SumFn(Rows(ledger), S) = InPurses(deposits)
      BY <2>1 DEF ServerPots, Held
  <2> QED BY <2>2, <2>3, <2>4 DEF S
<1> QED BY <1>2, <1>3 DEF PotMatchesRows

FiguresInv == HisaabInv /\ PhonePots /\ ServerPots

(* Every figure of the money screens agrees with every other: the pot with *)
(* the deposits' rows on both sides, the page's columns and the lines it   *)
(* shows as open with what is owed, each statement with the last, the      *)
(* card's date with the debt, the months' profits and the jobs' margins    *)
(* with the whole (deposits.ts:19, khata.ts lifetimeValue, ledger.ts:108,  *)
(* ledger.ts:361, kharcha.ts:267, expenses.ts).                            *)
THEOREM FiguresAddUp ==
    ASSUME IsFiniteSet(Jobs), NoJob \notin Jobs
    PROVE  HisaabSpec => []FiguresAgree
<1>1. HisaabInit => FiguresInv
  <2> SUFFICES ASSUME HisaabInit PROVE FiguresInv
      OBVIOUS
  <2>1. HisaabInv
      BY HisaabStarts
  <2>2. book = <<>> /\ pots = <<>> /\ ledger = <<>> /\ deposits = <<>> /\ call = [d \in Desks |-> NoCall]
      BY DEF HisaabInit, Init, ServerInit
  <2>3. Held(<<>>) = 0 /\ InPurses(<<>>) = 0
    <3>1. DOMAIN <<>> = {} /\ Potted(<<>>) = {}
        BY NothingYet DEF Potted
    <3> QED BY <3>1, SumEmpty DEF Held, InPurses
  <2> QED BY <2>1, <2>2, <2>3 DEF FiguresInv, PhonePots, ServerPots, NoCall
<1>2. FiguresInv /\ [HisaabNext]_hisaabVars => FiguresInv'
  <2> SUFFICES ASSUME FiguresInv, [HisaabNext]_hisaabVars PROVE FiguresInv'
      OBVIOUS
  <2>1. HisaabInv /\ HisaabInv'
      BY HisaabStep DEF FiguresInv
  <2>2. [ServerNext]_serverVars
      BY <2>1, HouseStepIsServerStep DEF HisaabInv
  <2>3. PhonePots'
      BY <2>1, PhonePotsKeep DEF FiguresInv, HisaabInv
  <2>4. ServerPots'
      BY <2>1, <2>2, ServerPotsKeep DEF FiguresInv, HisaabInv
  <2> QED BY <2>1, <2>3, <2>4 DEF FiguresInv
<1>3. FiguresInv => FiguresAgree
    BY PotsAgree, PageAgrees, StatementsAgree, ProfitsAgree DEF FiguresInv, HisaabInv, FiguresAgree
<1> QED BY <1>1, <1>2, <1>3, PTL DEF HisaabSpec

-----------------------------------------------------------------------------
(* The two books.  What lands, lands in queue order, so while nothing was  *)
(* refused and nobody else is at the books the server's rows are the first *)
(* lines of the phone's, under the same numbers.  First, what keeps the    *)
(* phone's queue, lines and deposits in one order.                         *)

MoneyOps == Verbs \cup {"lend"}
Where(qs, K) == [o \in {k \in DOMAIN qs : qs[k].op \in K} |-> qs[o].line]
PotAt(b) == [i \in {k \in DOMAIN b : b[k].kind = "deposit_hold"} |-> b[i].deposit]

InOrder(f, n) ==
    /\ DOMAIN f \subseteq Nat
    /\ \A o \in DOMAIN f : f[o] \in 1 .. n
    /\ \A o, k \in DOMAIN f : o < k => f[o] < f[k]
    /\ \A i \in 1 .. n : \E o \in DOMAIN f : f[o] = i

(* The first that has not landed is the next number.                       *)
LEMMA NextInLine ==
    ASSUME NEW f, NEW n \in Nat, InOrder(f, n), NEW m \in Nat, NEW o \in DOMAIN f,
           f[o] > m, \A k \in DOMAIN f : k < o => f[k] <= m
    PROVE  f[o] = m + 1
<1> SUFFICES ASSUME f[o] # m + 1 PROVE FALSE
    OBVIOUS
<1>1. f[o] \in 1 .. n /\ m + 1 < f[o] /\ m + 1 \in 1 .. n
    BY DEF InOrder
<1>2. PICK k \in DOMAIN f : f[k] = m + 1
    BY <1>1 DEF InOrder
<1>3. k \in Nat /\ o \in Nat
    BY DEF InOrder
<1>4. k # o /\ ~ (k < o)
    BY <1>2
<1>5. o < k
    BY <1>3, <1>4
<1>6. f[o] < f[k]
    BY <1>5 DEF InOrder
<1> QED BY <1>1, <1>2, <1>6

LEMMA OrderGrows ==
    ASSUME NEW f, NEW g, NEW n \in Nat, NEW x \in Nat, InOrder(f, n),
           DOMAIN g = DOMAIN f \cup {x}, \A o \in DOMAIN f : o < x /\ g[o] = f[o], g[x] = n + 1
    PROVE  InOrder(g, n + 1)
<1>1. DOMAIN g \subseteq Nat
    BY DEF InOrder
<1>2. \A o \in DOMAIN f : g[o] \in 1 .. n
    BY DEF InOrder
<1>3. \A o \in DOMAIN g : g[o] \in 1 .. n + 1
    BY <1>2
<1>4. ASSUME NEW o \in DOMAIN g, NEW k \in DOMAIN g, o < k PROVE g[o] < g[k]
  <2>1. o \in DOMAIN f
      BY <1>1, <1>4
  <2>2. CASE k \in DOMAIN f
      BY <1>4, <2>1, <2>2 DEF InOrder
  <2>3. CASE k = x
      BY <1>2, <2>1, <2>3
  <2> QED BY <2>2, <2>3
<1>5. ASSUME NEW i \in 1 .. n + 1 PROVE \E o \in DOMAIN g : g[o] = i
  <2>1. CASE i = n + 1
      BY <2>1
  <2>2. CASE i \in 1 .. n
    <3>1. PICK o \in DOMAIN f : f[o] = i
        BY <2>2 DEF InOrder
    <3> QED BY <3>1
  <2> QED BY <2>1, <2>2
<1> QED BY <1>1, <1>3, <1>4, <1>5 DEF InOrder

LEMMA OrderRests ==
    ASSUME NEW f, NEW g, NEW n \in Nat, InOrder(f, n),
           DOMAIN g = DOMAIN f, \A o \in DOMAIN f : g[o] = f[o]
    PROVE  InOrder(g, n)
    BY DEF InOrder

LEMMA WhereIs ==
    ASSUME NEW qs, NEW K
    PROVE  /\ DOMAIN Where(qs, K) = {k \in DOMAIN qs : qs[k].op \in K}
           /\ \A o \in DOMAIN Where(qs, K) : Where(qs, K)[o] = qs[o].line
    BY DEF Where

LEMMA PotAtIs ==
    ASSUME NEW b
    PROVE  /\ DOMAIN PotAt(b) = {k \in DOMAIN b : b[k].kind = "deposit_hold"}
           /\ \A i \in DOMAIN PotAt(b) : PotAt(b)[i] = b[i].deposit
    BY DEF PotAt

LEMMA WhereGrows ==
    ASSUME NEW qs, NEW rs, NEW m \in Nat, DOMAIN qs = 1 .. m, DOMAIN rs = 1 .. m + 1,
           \A o \in 1 .. m : rs[o] = qs[o],
           NEW K, NEW n \in Nat, InOrder(Where(qs, K), n)
    PROVE  /\ rs[m + 1].op \notin K => InOrder(Where(rs, K), n)
           /\ rs[m + 1].op \in K /\ rs[m + 1].line = n + 1 => InOrder(Where(rs, K), n + 1)
<1> DEFINE f == Where(qs, K)  g == Where(rs, K)
<1>1. /\ DOMAIN f = {k \in 1 .. m : qs[k].op \in K} /\ \A o \in DOMAIN f : f[o] = qs[o].line
      /\ DOMAIN g = {k \in 1 .. m + 1 : rs[k].op \in K} /\ \A o \in DOMAIN g : g[o] = rs[o].line
  <2>1. DOMAIN f = {k \in DOMAIN qs : qs[k].op \in K} /\ \A o \in DOMAIN f : f[o] = qs[o].line
      BY WhereIs
  <2>2. DOMAIN g = {k \in DOMAIN rs : rs[k].op \in K} /\ \A o \in DOMAIN g : g[o] = rs[o].line
      BY WhereIs
  <2> HIDE DEF f, g
  <2> QED BY <2>1, <2>2
<1>2. InOrder(f, n)
    OBVIOUS
<1> HIDE DEF f, g
<1>3. ASSUME rs[m + 1].op \notin K PROVE InOrder(g, n)
  <2>1. DOMAIN g = DOMAIN f /\ \A o \in DOMAIN f : g[o] = f[o]
      BY <1>1, <1>3
  <2> QED BY <1>2, <2>1, OrderRests
<1>4. ASSUME rs[m + 1].op \in K, rs[m + 1].line = n + 1 PROVE InOrder(g, n + 1)
  <2> DEFINE x == m + 1
  <2>1. /\ x \in Nat /\ DOMAIN g = DOMAIN f \cup {x} /\ g[x] = n + 1
        /\ \A o \in DOMAIN f : o < x /\ g[o] = f[o]
      BY <1>1, <1>4
  <2> HIDE DEF x
  <2> QED BY <1>2, <2>1, OrderGrows
<1> QED BY <1>3, <1>4 DEF g

LEMMA PotAtGrows ==
    ASSUME NEW b, NEW c, NEW m \in Nat, DOMAIN b = 1 .. m, DOMAIN c = 1 .. m + 1,
           \A i \in 1 .. m : c[i] = b[i], NEW n \in Nat, InOrder(PotAt(b), n)
    PROVE  /\ c[m + 1].kind # "deposit_hold" => InOrder(PotAt(c), n)
           /\ c[m + 1].kind = "deposit_hold" /\ c[m + 1].deposit = n + 1 => InOrder(PotAt(c), n + 1)
<1> DEFINE f == PotAt(b)  g == PotAt(c)
<1>1. /\ DOMAIN f = {k \in 1 .. m : b[k].kind = "deposit_hold"}
      /\ \A o \in DOMAIN f : f[o] = b[o].deposit
      /\ DOMAIN g = {k \in 1 .. m + 1 : c[k].kind = "deposit_hold"}
      /\ \A o \in DOMAIN g : g[o] = c[o].deposit
    BY PotAtIs
<1>2. InOrder(f, n)
    OBVIOUS
<1> HIDE DEF f, g
<1>3. ASSUME c[m + 1].kind # "deposit_hold" PROVE InOrder(g, n)
  <2>1. DOMAIN g = DOMAIN f /\ \A o \in DOMAIN f : g[o] = f[o]
      BY <1>1, <1>3
  <2> QED BY <1>2, <2>1, OrderRests
<1>4. ASSUME c[m + 1].kind = "deposit_hold", c[m + 1].deposit = n + 1 PROVE InOrder(g, n + 1)
  <2> DEFINE x == m + 1
  <2>1. /\ x \in Nat /\ DOMAIN g = DOMAIN f \cup {x} /\ g[x] = n + 1
        /\ \A o \in DOMAIN f : o < x /\ g[o] = f[o]
      BY <1>1, <1>4
  <2> HIDE DEF x
  <2> QED BY <1>2, <2>1, OrderGrows
<1> QED BY <1>3, <1>4 DEF g

(* What the first n lines leave in one deposit.                            *)
PotLines(b, n, p) == {i \in 1 .. n : b[i].kind \in DepositKinds /\ b[i].deposit = p}
HeldTo(b, n, p) == SumFn(Rows(b), PotLines(b, n, p))

LEMMA InPotIsFinite ==
    ASSUME NEW b, NEW n \in Nat, n <= Len(b), DOMAIN b = 1 .. Len(b), Len(b) \in Nat,
           \A i \in DOMAIN b : b[i].amount \in Int, NEW p
    PROVE  /\ IsFiniteSet(PotLines(b, n, p)) /\ PotLines(b, n, p) \subseteq 1 .. n
           /\ \A i \in PotLines(b, n, p) : Rows(b)[i] = b[i].amount /\ Rows(b)[i] \in Int
           /\ HeldTo(b, n, p) \in Int
<1>1. PotLines(b, n, p) \subseteq 1 .. n /\ IsFiniteSet(1 .. n)
    BY FS_Interval DEF PotLines
<1>2. IsFiniteSet(PotLines(b, n, p))
    BY <1>1, FS_Subset
<1>3. \A i \in PotLines(b, n, p) : Rows(b)[i] = b[i].amount /\ Rows(b)[i] \in Int
    BY <1>1 DEF Rows
<1>4. HeldTo(b, n, p) \in Int
    BY <1>2, <1>3, SumType DEF HeldTo
<1> QED BY <1>1, <1>2, <1>3, <1>4

LEMMA HeldToRests ==
    ASSUME NEW b, NEW c, NEW n \in Nat, n <= Len(b), n <= Len(c),
           DOMAIN b = 1 .. Len(b), DOMAIN c = 1 .. Len(c), Len(b) \in Nat, Len(c) \in Nat,
           \A i \in DOMAIN b : b[i].amount \in Int, NEW p,
           \A i \in 1 .. n : /\ c[i].kind = b[i].kind /\ c[i].amount = b[i].amount
                             /\ c[i].deposit = b[i].deposit
    PROVE  HeldTo(c, n, p) = HeldTo(b, n, p)
<1>1. PotLines(c, n, p) = PotLines(b, n, p)
    BY DEF PotLines
<1>2. /\ IsFiniteSet(PotLines(b, n, p)) /\ PotLines(b, n, p) \subseteq 1 .. n
      /\ \A i \in PotLines(b, n, p) : Rows(b)[i] = b[i].amount /\ Rows(b)[i] \in Int
    BY InPotIsFinite
<1>3. \A i \in PotLines(b, n, p) : Rows(b)[i] = Rows(c)[i] /\ Rows(b)[i] \in Int
    BY <1>2 DEF Rows
<1> QED BY <1>1, <1>2, <1>3, SumCong DEF HeldTo

LEMMA HeldToNext ==
    ASSUME NEW b, NEW n \in Nat, n < Len(b), DOMAIN b = 1 .. Len(b), Len(b) \in Nat,
           \A i \in DOMAIN b : b[i].amount \in Int, NEW p
    PROVE  /\ HeldTo(b, n, p) \in Int
           /\ b[n + 1].kind \in DepositKinds /\ b[n + 1].deposit = p =>
                HeldTo(b, n + 1, p) = HeldTo(b, n, p) + b[n + 1].amount
           /\ ~ (b[n + 1].kind \in DepositKinds /\ b[n + 1].deposit = p) =>
                HeldTo(b, n + 1, p) = HeldTo(b, n, p)
<1> DEFINE S == PotLines(b, n, p)  T == PotLines(b, n + 1, p)  z == n + 1
<1>1. /\ n <= Len(b) /\ z <= Len(b) /\ z \in Nat /\ z \in DOMAIN b /\ z \notin S
      /\ 1 .. z = (1 .. n) \cup {z}
    BY DEF PotLines
<1>2. IsFiniteSet(S) /\ HeldTo(b, n, p) \in Int
    BY <1>1, InPotIsFinite
<1>3. \A i \in T : Rows(b)[i] = b[i].amount /\ Rows(b)[i] \in Int
    BY <1>1, InPotIsFinite
<1>4. ASSUME b[z].kind \in DepositKinds, b[z].deposit = p PROVE T = S \cup {z}
    BY <1>1, <1>4 DEF PotLines
<1>5. ASSUME ~ (b[z].kind \in DepositKinds /\ b[z].deposit = p) PROVE T = S
    BY <1>1, <1>5 DEF PotLines
<1>6. HeldTo(b, n, p) = SumFn(Rows(b), S) /\ HeldTo(b, z, p) = SumFn(Rows(b), T)
    BY DEF HeldTo
<1> HIDE DEF S, T, z
<1>7. ASSUME b[z].kind \in DepositKinds, b[z].deposit = p
      PROVE  SumFn(Rows(b), T) = SumFn(Rows(b), S) + b[z].amount
  <2>1. \A i \in S \cup {z} : Rows(b)[i] \in Int
      BY <1>3, <1>4, <1>7
  <2>2. SumFn(Rows(b), S \cup {z}) = Rows(b)[z] + SumFn(Rows(b), S)
      BY <1>1, <1>2, <2>1, SumAdd
  <2>3. Rows(b)[z] = b[z].amount /\ b[z].amount \in Int
      BY <1>1, <1>3, <1>4, <1>7
  <2>4. SumFn(Rows(b), S) \in Int
      BY <1>2, <1>6
  <2>5. SumFn(Rows(b), T) = Rows(b)[z] + SumFn(Rows(b), S)
      BY <1>4, <1>7, <2>2
  <2> QED BY <2>3, <2>4, <2>5
<1> QED BY <1>2, <1>5, <1>6, <1>7 DEF z

-----------------------------------------------------------------------------
(* Lines: deposits are numbered as they are taken, a deposit's moves come  *)
(* after it, its lines leave what its row says, and a refund gives back    *)
(* all that the lines before it left.                                      *)

BookInOrder(b, ps) ==
    /\ InOrder(PotAt(b), Len(ps))
    /\ \A i \in DOMAIN b : b[i].kind \in {"deposit_apply", "deposit_refund"} =>
         \E k \in DOMAIN b : /\ k < i /\ b[k].kind = "deposit_hold"
                             /\ b[k].deposit = b[i].deposit
    /\ \A p \in DOMAIN ps : HeldTo(b, Len(b), p) = Remains(ps[p])
    /\ \A i \in DOMAIN b : b[i].kind = "deposit_refund" =>
         b[i].amount = -HeldTo(b, i - 1, b[i].deposit)

LEMMA LinesOf ==
    ASSUME NEW b \in Seq(LineRec)
    PROVE  /\ Len(b) \in Nat /\ DOMAIN b = 1 .. Len(b)
           /\ \A i \in DOMAIN b : /\ b[i] \in LineRec /\ b[i].amount \in Int
                                  /\ b[i].deposit \in Nat
<1>1. Len(b) \in Nat /\ DOMAIN b = 1 .. Len(b) /\ \A i \in DOMAIN b : b[i] \in LineRec
    OBVIOUS
<1> QED BY <1>1 DEF LineRec

(* One line more: the old ones and what they left stay.                    *)
LEMMA OneLineMore ==
    ASSUME NEW b \in Seq(LineRec), NEW l \in LineRec
    PROVE  LET c == Append(b, l)
           IN  /\ c \in Seq(LineRec) /\ Len(c) = Len(b) + 1 /\ c[Len(b) + 1] = l
               /\ \A i \in DOMAIN b : c[i] = b[i]
               /\ \A i \in DOMAIN c : i \in DOMAIN b \/ i = Len(b) + 1
               /\ \A n \in 0 .. Len(b) : \A p : HeldTo(c, n, p) = HeldTo(b, n, p)
               /\ \A p : HeldTo(b, Len(b), p) \in Int
               /\ \A p : l.kind \in DepositKinds /\ l.deposit = p =>
                    HeldTo(c, Len(c), p) = HeldTo(b, Len(b), p) + l.amount
               /\ \A p : ~ (l.kind \in DepositKinds /\ l.deposit = p) =>
                    HeldTo(c, Len(c), p) = HeldTo(b, Len(b), p)
<1> DEFINE c == Append(b, l)  m == Len(b)
<1>1. /\ m \in Nat /\ DOMAIN b = 1 .. Len(b) /\ \A i \in DOMAIN b : b[i].amount \in Int
    BY LinesOf
<1>2. /\ c \in Seq(LineRec) /\ Len(c) = m + 1 /\ DOMAIN c = 1 .. m + 1 /\ c[m + 1] = l
      /\ \A i \in DOMAIN b : c[i] = b[i]
    BY AppendIsSeq
<1> HIDE DEF c
<1>3. DOMAIN c = 1 .. Len(c) /\ Len(c) \in Nat /\ \A i \in DOMAIN c : c[i].amount \in Int
    BY <1>2, LinesOf
<1>4. ASSUME NEW n \in 0 .. m, NEW p PROVE HeldTo(c, n, p) = HeldTo(b, n, p)
  <2>1. n \in Nat /\ n <= Len(b) /\ n <= Len(c)
      BY <1>1, <1>2
  <2>2. \A i \in 1 .. n : /\ c[i].kind = b[i].kind /\ c[i].amount = b[i].amount
                          /\ c[i].deposit = b[i].deposit
      BY <1>1, <1>2, <2>1
  <2> QED BY <1>1, <1>3, <2>1, <2>2, HeldToRests
<1>5. ASSUME NEW p
      PROVE  /\ HeldTo(b, m, p) \in Int
             /\ l.kind \in DepositKinds /\ l.deposit = p =>
                  HeldTo(c, m + 1, p) = HeldTo(b, m, p) + l.amount
             /\ ~ (l.kind \in DepositKinds /\ l.deposit = p) =>
                  HeldTo(c, m + 1, p) = HeldTo(b, m, p)
  <2>1. m \in 0 .. m /\ m < Len(c)
      BY <1>1, <1>2
  <2>2. HeldTo(c, m, p) = HeldTo(b, m, p)
      BY <1>4, <2>1
  <2> QED BY <1>1, <1>2, <1>3, <2>1, <2>2, HeldToNext
<1>6. \A i \in DOMAIN c : i \in DOMAIN b \/ i = m + 1
    BY <1>1, <1>2
<1> QED BY <1>2, <1>4, <1>5, <1>6 DEF c

LEMMA OldLinesInOrder ==
    ASSUME NEW b \in Seq(LineRec), NEW ps, BookInOrder(b, ps), NEW l \in LineRec
    PROVE  LET c == Append(b, l)
           IN  /\ \A i \in DOMAIN b : c[i].kind \in {"deposit_apply", "deposit_refund"} =>
                    \E k \in DOMAIN c : /\ k < i /\ c[k].kind = "deposit_hold"
                                        /\ c[k].deposit = c[i].deposit
               /\ \A i \in DOMAIN b : c[i].kind = "deposit_refund" =>
                    c[i].amount = -HeldTo(c, i - 1, c[i].deposit)
<1> DEFINE c == Append(b, l)
<1>1. /\ Len(b) \in Nat /\ DOMAIN b = 1 .. Len(b) /\ DOMAIN b \subseteq DOMAIN c
      /\ \A i \in DOMAIN b : c[i] = b[i]
      /\ \A n \in 0 .. Len(b) : \A p : HeldTo(c, n, p) = HeldTo(b, n, p)
  <2>1. c \in Seq(LineRec) /\ Len(c) = Len(b) + 1
      BY OneLineMore
  <2> QED BY <2>1, LinesOf, OneLineMore
<1> HIDE DEF c
<1>2. ASSUME NEW i \in DOMAIN b, c[i].kind \in {"deposit_apply", "deposit_refund"}
      PROVE  \E k \in DOMAIN c : /\ k < i /\ c[k].kind = "deposit_hold"
                                 /\ c[k].deposit = c[i].deposit
  <2>1. PICK k \in DOMAIN b : k < i /\ b[k].kind = "deposit_hold" /\ b[k].deposit = b[i].deposit
      BY <1>1, <1>2 DEF BookInOrder
  <2> QED BY <1>1, <2>1
<1>3. ASSUME NEW i \in DOMAIN b, c[i].kind = "deposit_refund"
      PROVE  c[i].amount = -HeldTo(c, i - 1, c[i].deposit)
  <2>1. b[i].amount = -HeldTo(b, i - 1, b[i].deposit)
      BY <1>1, <1>3 DEF BookInOrder
  <2>2. i - 1 \in 0 .. Len(b)
      BY <1>1
  <2>3. HeldTo(c, i - 1, b[i].deposit) = HeldTo(b, i - 1, b[i].deposit)
      BY <1>1, <2>2
  <2> QED BY <1>1, <2>1, <2>3
<1> QED BY <1>2, <1>3 DEF c

LEMMA PotAtAppends ==
    ASSUME NEW b \in Seq(LineRec), NEW l \in LineRec, NEW n \in Nat, InOrder(PotAt(b), n)
    PROVE  /\ l.kind # "deposit_hold" => InOrder(PotAt(Append(b, l)), n)
           /\ l.kind = "deposit_hold" /\ l.deposit = n + 1 => InOrder(PotAt(Append(b, l)), n + 1)
<1> DEFINE c == Append(b, l)  m == Len(b)
<1>1. /\ m \in Nat /\ DOMAIN b = 1 .. m /\ DOMAIN c = 1 .. m + 1 /\ c[m + 1] = l
      /\ \A i \in 1 .. m : c[i] = b[i]
    BY AppendIsSeq
<1> HIDE DEF c, m
<1>2. /\ c[m + 1].kind # "deposit_hold" => InOrder(PotAt(c), n)
      /\ c[m + 1].kind = "deposit_hold" /\ c[m + 1].deposit = n + 1 => InOrder(PotAt(c), n + 1)
    BY <1>1, PotAtGrows
<1> QED BY <1>1, <1>2 DEF c

LEMMA PlainLineInOrder ==
    ASSUME NEW b \in Seq(LineRec), NEW ps, Len(ps) \in Nat, BookInOrder(b, ps),
           NEW l \in LineRec, l.kind \notin DepositKinds
    PROVE  BookInOrder(Append(b, l), ps)
<1> DEFINE c == Append(b, l)
<1>1. /\ \A i \in DOMAIN c : i \in DOMAIN b \/ i = Len(b) + 1
      /\ c[Len(b) + 1] = l
      /\ \A p : HeldTo(c, Len(c), p) = HeldTo(b, Len(b), p)
    BY OneLineMore
<1>2. l.kind \notin {"deposit_hold", "deposit_apply", "deposit_refund"}
    BY DEF DepositKinds
<1>3. InOrder(PotAt(c), Len(ps))
    BY <1>2, PotAtAppends DEF BookInOrder
<1>4. /\ \A i \in DOMAIN b : c[i].kind \in {"deposit_apply", "deposit_refund"} =>
           \E k \in DOMAIN c : /\ k < i /\ c[k].kind = "deposit_hold"
                               /\ c[k].deposit = c[i].deposit
      /\ \A i \in DOMAIN b : c[i].kind = "deposit_refund" =>
           c[i].amount = -HeldTo(c, i - 1, c[i].deposit)
    BY OldLinesInOrder
<1> HIDE DEF c
<1>5. \A p \in DOMAIN ps : HeldTo(c, Len(c), p) = Remains(ps[p])
    BY <1>1 DEF BookInOrder
<1>6. \A i \in DOMAIN c : c[i].kind \in {"deposit_apply", "deposit_refund"} => i \in DOMAIN b
    BY <1>1, <1>2
<1>7. BookInOrder(c, ps)
    BY <1>3, <1>4, <1>5, <1>6 DEF BookInOrder
<1> QED BY <1>7 DEF c

LEMMA HoldLineInOrder ==
    ASSUME NEW b \in Seq(LineRec), NEW ps \in Seq(Deposit), BookInOrder(b, ps),
           \A i \in DOMAIN b : b[i].deposit <= Len(ps),
           NEW l \in LineRec, l.kind = "deposit_hold", l.deposit = Len(ps) + 1,
           NEW d \in Deposit, Remains(d) = l.amount
    PROVE  BookInOrder(Append(b, l), Append(ps, d))
<1> DEFINE c == Append(b, l)  qs == Append(ps, d)  z == Len(ps) + 1
<1>1. /\ \A i \in DOMAIN c : i \in DOMAIN b \/ i = Len(b) + 1
      /\ c[Len(b) + 1] = l
      /\ HeldTo(b, Len(b), z) \in Int
      /\ \A p : p # z => HeldTo(c, Len(c), p) = HeldTo(b, Len(b), p)
      /\ HeldTo(c, Len(c), z) = HeldTo(b, Len(b), z) + l.amount
  <2>1. l.kind \in DepositKinds
      BY DEF DepositKinds
  <2> QED BY <2>1, OneLineMore
<1>2. /\ Len(ps) \in Nat /\ Len(qs) = z /\ DOMAIN ps = 1 .. Len(ps) /\ DOMAIN qs = 1 .. z
      /\ qs[z] = d /\ \A p \in DOMAIN ps : qs[p] = ps[p]
    BY AppendIsSeq
<1>3. InOrder(PotAt(c), z)
    BY <1>2, PotAtAppends DEF BookInOrder
<1>4. /\ \A i \in DOMAIN b : c[i].kind \in {"deposit_apply", "deposit_refund"} =>
           \E k \in DOMAIN c : /\ k < i /\ c[k].kind = "deposit_hold"
                               /\ c[k].deposit = c[i].deposit
      /\ \A i \in DOMAIN b : c[i].kind = "deposit_refund" =>
           c[i].amount = -HeldTo(c, i - 1, c[i].deposit)
    BY OldLinesInOrder
<1>5. HeldTo(b, Len(b), z) = 0
  <2>1. PotLines(b, Len(b), z) = {}
    <3>1. Len(b) \in Nat /\ DOMAIN b = 1 .. Len(b) /\ \A i \in DOMAIN b : b[i].deposit \in Nat
        BY LinesOf
    <3>2. \A i \in 1 .. Len(b) : b[i].deposit <= Len(ps) /\ b[i].deposit \in Nat
        BY <3>1
    <3>3. \A i \in 1 .. Len(b) : b[i].deposit # z
        BY <1>2, <3>2
    <3> QED BY <3>3 DEF PotLines
  <2> QED BY <2>1, SumEmpty DEF HeldTo
<1>6. l.amount \in Int
    BY DEF LineRec
<1> HIDE DEF c, qs
<1>7. \A p \in DOMAIN qs : HeldTo(c, Len(c), p) = Remains(qs[p])
  <2>1. \A p \in DOMAIN ps : HeldTo(c, Len(c), p) = Remains(qs[p])
      BY <1>1, <1>2 DEF BookInOrder
  <2>2. HeldTo(c, Len(c), z) = Remains(qs[z])
      BY <1>1, <1>2, <1>5, <1>6
  <2>3. DOMAIN qs = DOMAIN ps \cup {z}
      BY <1>2
  <2> QED BY <2>1, <2>2, <2>3
<1>8. \A i \in DOMAIN c : c[i].kind \in {"deposit_apply", "deposit_refund"} => i \in DOMAIN b
    BY <1>1
<1>9. BookInOrder(c, qs)
    BY <1>2, <1>3, <1>4, <1>7, <1>8 DEF BookInOrder
<1> QED BY <1>9 DEF c, qs

LEMMA MovingLineInOrder ==
    ASSUME NEW b \in Seq(LineRec), NEW ps \in Seq(Deposit), BookInOrder(b, ps),
           NEW q \in DOMAIN ps, NEW l \in LineRec, l.deposit = q,
           l.kind \in {"deposit_apply", "deposit_refund"},
           l.kind = "deposit_refund" => l.amount = -Remains(ps[q]),
           NEW d \in Deposit, Remains(d) = Remains(ps[q]) + l.amount
    PROVE  BookInOrder(Append(b, l), [ps EXCEPT ![q] = d])
<1> DEFINE c == Append(b, l)  qs == [ps EXCEPT ![q] = d]  z == Len(b) + 1
<1>1. /\ \A i \in DOMAIN c : i \in DOMAIN b \/ i = z
      /\ c[z] = l /\ DOMAIN b \subseteq DOMAIN c /\ \A i \in DOMAIN b : c[i] = b[i] /\ i < z
      /\ \A p : p # q => HeldTo(c, Len(c), p) = HeldTo(b, Len(b), p)
      /\ HeldTo(c, Len(c), q) = HeldTo(b, Len(b), q) + l.amount
      /\ HeldTo(c, z - 1, q) = HeldTo(b, Len(b), q)
  <2>1. l.kind \in DepositKinds
      BY DEF DepositKinds
  <2>2. Len(b) \in Nat /\ DOMAIN b = 1 .. Len(b) /\ z - 1 = Len(b) /\ Len(b) \in 0 .. Len(b)
      BY LinesOf
  <2>3. c \in Seq(LineRec) /\ Len(c) = z
      BY OneLineMore
  <2>4. DOMAIN b \subseteq DOMAIN c /\ \A i \in DOMAIN b : i < z
      BY <2>2, <2>3, LinesOf
  <2> QED BY <2>1, <2>2, <2>4, OneLineMore
<1>2. /\ Len(ps) \in Nat /\ DOMAIN ps = 1 .. Len(ps) /\ Len(qs) = Len(ps)
      /\ DOMAIN qs = DOMAIN ps /\ \A p \in DOMAIN ps : qs[p] = IF p = q THEN d ELSE ps[p]
    BY ExceptIsSeq
<1>3. InOrder(PotAt(c), Len(qs))
  <2>1. l.kind # "deposit_hold"
      OBVIOUS
  <2> QED BY <1>2, <2>1, PotAtAppends DEF BookInOrder
<1>4. /\ \A i \in DOMAIN b : c[i].kind \in {"deposit_apply", "deposit_refund"} =>
           \E k \in DOMAIN c : /\ k < i /\ c[k].kind = "deposit_hold"
                               /\ c[k].deposit = c[i].deposit
      /\ \A i \in DOMAIN b : c[i].kind = "deposit_refund" =>
           c[i].amount = -HeldTo(c, i - 1, c[i].deposit)
    BY OldLinesInOrder
<1> HIDE DEF c, qs
<1>5. HeldTo(b, Len(b), q) = Remains(ps[q])
    BY DEF BookInOrder
<1>6. \A p \in DOMAIN qs : HeldTo(c, Len(c), p) = Remains(qs[p])
    BY <1>1, <1>2, <1>5 DEF BookInOrder
<1>7. \E k \in DOMAIN c : k < z /\ c[k].kind = "deposit_hold" /\ c[k].deposit = c[z].deposit
  <2>1. PICK k \in DOMAIN PotAt(b) : PotAt(b)[k] = q
      BY <1>2 DEF BookInOrder, InOrder
  <2>2. k \in DOMAIN b /\ b[k].kind = "deposit_hold" /\ b[k].deposit = q
      BY <2>1, PotAtIs
  <2> QED BY <1>1, <2>2
<1>8. c[z].kind = "deposit_refund" => c[z].amount = -HeldTo(c, z - 1, c[z].deposit)
    BY <1>1, <1>5
<1>9. BookInOrder(c, qs)
  <2>1. \A i \in DOMAIN c : c[i].kind \in {"deposit_apply", "deposit_refund"} =>
          \E k \in DOMAIN c : /\ k < i /\ c[k].kind = "deposit_hold"
                              /\ c[k].deposit = c[i].deposit
      BY <1>1, <1>4, <1>7
  <2>2. \A i \in DOMAIN c : c[i].kind = "deposit_refund" =>
          c[i].amount = -HeldTo(c, i - 1, c[i].deposit)
      BY <1>1, <1>4, <1>8
  <2> QED BY <1>3, <1>6, <2>1, <2>2 DEF BookInOrder
<1> QED BY <1>9 DEF c, qs

-----------------------------------------------------------------------------
(* Ops: each line and each expense has the op that carries it, in the same *)
(* order; an op waits only behind an earlier one; and the last word on the *)
(* do-not-rent switch is the last op about it.                             *)

Matches(q, l) ==
    /\ q.op = "hold" <=> l.kind = "deposit_hold"
    /\ q.op = "apply" <=> l.kind = "deposit_apply"
    /\ q.op = "refund" <=> l.kind = "deposit_refund"
    /\ q.deposit = l.deposit

QueueInOrder(qs, b, sp) ==
    /\ InOrder(Where(qs, MoneyOps), Len(b))
    /\ InOrder(Where(qs, ExpenseOps), Len(sp))
    /\ \A o \in DOMAIN qs : qs[o].op \in MoneyOps => Matches(qs[o], b[qs[o].line])
    /\ \A o \in DOMAIN qs : qs[o].dep \in 0 .. o - 1

Bars(qs) == {o \in DOMAIN qs : qs[o].op \in BarOps}
LastSays(qs, S, v) ==
    /\ S = {} => v = FALSE
    /\ \A o \in S : (\A k \in S : k <= o) => v = (qs[o].op = "bar")

PhoneInOrder ==
    /\ BookInOrder(book, pots)
    /\ QueueInOrder(queue, book, spent)
    /\ LastSays(queue, Bars(queue), barred)

LEMMA OneOpMore ==
    ASSUME NEW qs \in Seq(OpRec), NEW q \in OpRec
    PROVE  LET rs == Append(qs, q)
           IN  /\ Len(qs) \in Nat /\ DOMAIN qs = 1 .. Len(qs)
               /\ rs \in Seq(OpRec) /\ Len(rs) = Len(qs) + 1 /\ DOMAIN rs = 1 .. Len(qs) + 1
               /\ rs[Len(qs) + 1] = q
               /\ \A o \in DOMAIN qs : rs[o] = qs[o]
               /\ \A o \in DOMAIN rs : o \in DOMAIN qs \/ o = Len(qs) + 1
               /\ \A o \in DOMAIN rs \ DOMAIN qs : o = Len(qs) + 1
<1> DEFINE rs == Append(qs, q)
<1>1. /\ Len(qs) \in Nat /\ DOMAIN qs = 1 .. Len(qs)
      /\ rs \in Seq(OpRec) /\ Len(rs) = Len(qs) + 1 /\ DOMAIN rs = 1 .. Len(qs) + 1
      /\ rs[Len(qs) + 1] = q
      /\ \A o \in DOMAIN qs : rs[o] = qs[o]
    BY AppendIsSeq
<1> HIDE DEF rs
<1> QED BY <1>1 DEF rs

LEMMA KindsOfOps ==
    /\ MoneyOps \cap ExpenseOps = {} /\ MoneyOps \cap BarOps = {} /\ ExpenseOps \cap BarOps = {}
    /\ MoneyOps \cap Elsewhere = {} /\ ExpenseOps \cap Elsewhere = {} /\ BarOps \cap Elsewhere = {}
    /\ {"entry", "hold", "apply", "refund", "lend"} = MoneyOps
    BY DEF MoneyOps, Verbs, ExpenseOps, BarOps, Elsewhere, Scans

LEMMA WhereAppends ==
    ASSUME NEW qs \in Seq(OpRec), NEW q \in OpRec, NEW K, NEW n \in Nat, InOrder(Where(qs, K), n)
    PROVE  /\ q.op \notin K => InOrder(Where(Append(qs, q), K), n)
           /\ q.op \in K /\ q.line = n + 1 => InOrder(Where(Append(qs, q), K), n + 1)
<1> DEFINE rs == Append(qs, q)  m == Len(qs)
<1>1. /\ m \in Nat /\ DOMAIN qs = 1 .. m /\ DOMAIN rs = 1 .. m + 1 /\ rs[m + 1] = q
      /\ \A o \in 1 .. m : rs[o] = qs[o]
    BY OneOpMore
<1> HIDE DEF rs, m
<1>2. /\ rs[m + 1].op \notin K => InOrder(Where(rs, K), n)
      /\ rs[m + 1].op \in K /\ rs[m + 1].line = n + 1 => InOrder(Where(rs, K), n + 1)
    BY <1>1, WhereGrows
<1> QED BY <1>1, <1>2 DEF rs

LEMMA DepsAppend ==
    ASSUME NEW qs \in Seq(OpRec), NEW q \in OpRec, q.dep \in 0 .. Len(qs),
           \A o \in DOMAIN qs : qs[o].dep \in 0 .. o - 1
    PROVE  \A o \in DOMAIN Append(qs, q) : Append(qs, q)[o].dep \in 0 .. o - 1
<1> DEFINE rs == Append(qs, q)
<1>1. /\ Len(qs) \in Nat /\ rs[Len(qs) + 1] = q
      /\ \A o \in DOMAIN qs : rs[o] = qs[o]
      /\ \A o \in DOMAIN rs : o \in DOMAIN qs \/ o = Len(qs) + 1
    BY OneOpMore
<1> HIDE DEF rs
<1>2. \A o \in DOMAIN rs : rs[o].dep \in 0 .. o - 1
    BY <1>1
<1> QED BY <1>2 DEF rs

LEMMA LineOpInOrder ==
    ASSUME NEW qs \in Seq(OpRec), NEW b \in Seq(LineRec), NEW sp, Len(sp) \in Nat,
           QueueInOrder(qs, b, sp), NEW l \in LineRec, NEW q \in OpRec,
           q.op \in MoneyOps, q.line = Len(b) + 1, Matches(q, l), q.dep \in 0 .. Len(qs)
    PROVE  QueueInOrder(Append(qs, q), Append(b, l), sp)
<1> DEFINE rs == Append(qs, q)  c == Append(b, l)
<1>1. Len(b) \in Nat /\ DOMAIN b = 1 .. Len(b)
    BY LinesOf
<1>2. Len(c) = Len(b) + 1 /\ c[Len(b) + 1] = l /\ \A i \in DOMAIN b : c[i] = b[i]
    BY OneLineMore
<1>3. /\ rs[Len(qs) + 1] = q /\ \A o \in DOMAIN qs : rs[o] = qs[o]
      /\ \A o \in DOMAIN rs : o \in DOMAIN qs \/ o = Len(qs) + 1
    BY OneOpMore
<1>4. InOrder(Where(rs, MoneyOps), Len(c))
    BY <1>1, <1>2, WhereAppends DEF QueueInOrder
<1>5. InOrder(Where(rs, ExpenseOps), Len(sp))
  <2>1. q.op \notin ExpenseOps
      BY KindsOfOps
  <2> QED BY <2>1, WhereAppends DEF QueueInOrder
<1>6. \A o \in DOMAIN rs : rs[o].dep \in 0 .. o - 1
    BY DepsAppend DEF QueueInOrder
<1> HIDE DEF rs, c
<1>7. ASSUME NEW o \in DOMAIN rs, rs[o].op \in MoneyOps PROVE Matches(rs[o], c[rs[o].line])
  <2>1. CASE o \in DOMAIN qs
    <3>1. o \in DOMAIN Where(qs, MoneyOps) /\ Where(qs, MoneyOps)[o] = qs[o].line
        BY <1>3, <1>7, <2>1, WhereIs
    <3>2. qs[o].line \in DOMAIN b
        BY <1>1, <3>1 DEF QueueInOrder, InOrder
    <3> QED BY <1>2, <1>3, <1>7, <2>1, <3>2 DEF QueueInOrder
  <2>2. CASE o = Len(qs) + 1
      BY <1>2, <1>3, <2>2
  <2> QED BY <1>3, <2>1, <2>2
<1>8. QueueInOrder(rs, c, sp)
    BY <1>4, <1>5, <1>6, <1>7 DEF QueueInOrder
<1> QED BY <1>8 DEF rs, c

LEMMA OtherOpInOrder ==
    ASSUME NEW qs \in Seq(OpRec), NEW b \in Seq(LineRec), NEW sp, Len(sp) \in Nat, NEW sq,
           QueueInOrder(qs, b, sp), NEW q \in OpRec, q.op \notin MoneyOps, q.dep \in 0 .. Len(qs),
           q.op \in ExpenseOps => q.line = Len(sp) + 1 /\ Len(sq) = Len(sp) + 1,
           q.op \notin ExpenseOps => Len(sq) = Len(sp)
    PROVE  QueueInOrder(Append(qs, q), b, sq)
<1> DEFINE rs == Append(qs, q)
<1>1. /\ rs[Len(qs) + 1] = q /\ \A o \in DOMAIN qs : rs[o] = qs[o]
      /\ \A o \in DOMAIN rs : o \in DOMAIN qs \/ o = Len(qs) + 1
    BY OneOpMore
<1>2. InOrder(Where(rs, MoneyOps), Len(b))
  <2>1. Len(b) \in Nat
      BY LinesOf
  <2> QED BY <2>1, WhereAppends DEF QueueInOrder
<1>3. InOrder(Where(rs, ExpenseOps), Len(sq))
    BY WhereAppends DEF QueueInOrder
<1>4. \A o \in DOMAIN rs : rs[o].dep \in 0 .. o - 1
    BY DepsAppend DEF QueueInOrder
<1> HIDE DEF rs
<1>5. \A o \in DOMAIN rs : rs[o].op \in MoneyOps => Matches(rs[o], b[rs[o].line])
    BY <1>1 DEF QueueInOrder
<1>6. QueueInOrder(rs, b, sq)
    BY <1>2, <1>3, <1>4, <1>5 DEF QueueInOrder
<1> QED BY <1>6 DEF rs

LEMMA SwitchRests ==
    ASSUME NEW qs \in Seq(OpRec), NEW q \in OpRec, q.op \notin BarOps, NEW v,
           LastSays(qs, Bars(qs), v)
    PROVE  LastSays(Append(qs, q), Bars(Append(qs, q)), v)
<1> DEFINE rs == Append(qs, q)
<1>1. /\ DOMAIN qs = 1 .. Len(qs) /\ Len(qs) \in Nat /\ DOMAIN rs = 1 .. Len(qs) + 1
      /\ rs[Len(qs) + 1] = q /\ \A o \in DOMAIN qs : rs[o] = qs[o]
    BY OneOpMore
<1> HIDE DEF rs
<1>2. Bars(rs) = Bars(qs)
    BY <1>1 DEF Bars
<1>3. \A o \in Bars(qs) : rs[o] = qs[o]
    BY <1>1 DEF Bars
<1>4. LastSays(rs, Bars(rs), v)
    BY <1>2, <1>3 DEF LastSays
<1> QED BY <1>4 DEF rs

LEMMA SwitchTurns ==
    ASSUME NEW qs \in Seq(OpRec), NEW q \in OpRec, q.op \in BarOps, NEW v, v = (q.op = "bar")
    PROVE  LastSays(Append(qs, q), Bars(Append(qs, q)), v)
<1> DEFINE rs == Append(qs, q)
<1>1. Len(qs) \in Nat /\ DOMAIN rs = 1 .. Len(qs) + 1 /\ rs[Len(qs) + 1] = q
    BY OneOpMore
<1> HIDE DEF rs
<1>2. PICK z \in Nat : DOMAIN rs = 1 .. z /\ z \in 1 .. z /\ rs[z] = q
    BY <1>1
<1>3. z \in Bars(rs) /\ \A o \in Bars(rs) : o \in 1 .. z
    BY <1>2 DEF Bars
<1>4. \A o \in Bars(rs) : z <= o => o = z
    BY <1>2, <1>3
<1>5. LastSays(rs, Bars(rs), v)
    BY <1>2, <1>3, <1>4 DEF LastSays
<1> QED BY <1>5 DEF rs

-----------------------------------------------------------------------------
(* What an act at the counter leaves: the books and the queue longer, what *)
(* was in them untouched, the new ops waiting, everything in order.        *)

Grown ==
    /\ Len(queue) <= Len(queue') /\ Len(book) <= Len(book')
    /\ Len(spent) <= Len(spent') /\ Len(pots) <= Len(pots')
    /\ \A o \in DOMAIN queue : queue'[o] = queue[o]
    /\ \A o \in DOMAIN queue' \ DOMAIN queue : queue'[o].state = "pending"
    /\ \A i \in DOMAIN book : book'[i] = book[i]
    /\ \A e \in DOMAIN spent : spent'[e] = spent[e]

LEMMA AppendedIsTyped ==
    ASSUME NEW S, NEW s \in Seq(S), NEW x, Append(s, x) \in Seq(S)
    PROVE  x \in S
<1>1. Len(s) \in Nat
    OBVIOUS
<1> DEFINE T == S \cup {x}
<1>2. s \in Seq(T) /\ x \in T
    OBVIOUS
<1> HIDE DEF T
<1>3. DOMAIN Append(s, x) = 1 .. Len(s) + 1 /\ Append(s, x)[Len(s) + 1] = x
    BY <1>2, AppendIsSeq
<1> QED BY <1>1, <1>3

LEMMA TwoAppended ==
    ASSUME NEW S, NEW s \in Seq(S), NEW x, NEW y, s \o <<x, y>> \in Seq(S)
    PROVE  x \in S /\ y \in S /\ s \o <<x, y>> = Append(Append(s, x), y)
<1> DEFINE T == S \cup {x, y}
<1>1. s \in Seq(T) /\ x \in T /\ y \in T
    OBVIOUS
<1> HIDE DEF T
<1>2. s \o <<x, y>> = Append(Append(s, x), y)
    BY <1>1
<1>3. Len(s) \in Nat /\ Len(s \o <<x, y>>) = Len(s) + 2
      /\ (s \o <<x, y>>)[Len(s) + 1] = x /\ (s \o <<x, y>>)[Len(s) + 2] = y
    BY <1>1
<1> QED BY <1>2, <1>3

LEMMA LastOpIsEarlier ==
    ASSUME PhoneInv, NEW ts PROVE LastOpNaming(ts) \in 0 .. Len(queue)
<1> DEFINE naming == {o \in Pending : \E t \in ts : queue[o].names \cap NamesFor(t) # {}}
<1>1. Len(queue) \in Nat /\ Pending \subseteq 1 .. Len(queue)
    BY PendingIsIn DEF PhoneInv, HisaabTypeOK, MoneyTypeOK
<1>2. naming \in SUBSET (1 .. Len(queue))
    BY <1>1
<1>3. LastOpNaming(ts) = IF naming = {} THEN 0 ELSE Max(naming)
    BY DEF LastOpNaming, LastNamed
<1> HIDE DEF naming
<1>4. naming # {} => Max(naming) \in 1 .. Len(queue)
    BY <1>1, <1>2, MaxIsIn
<1> QED BY <1>1, <1>3, <1>4

LEMMA OpHas ==
    ASSUME PhoneInv, NEW op, NEW line, NEW job, NEW dep, NEW payload, NEW named
    PROVE  LET q == Op(op, line, job, dep, payload, named)
           IN  /\ q.op = op /\ q.line = line /\ q.deposit = dep /\ q.state = "pending"
               /\ q.dep \in 0 .. Len(queue)
    BY LastOpIsEarlier DEF Op

LEMMA BridgePrimes ==
    /\ BookInOrder(book', pots') => BookInOrder(book, pots)'
    /\ QueueInOrder(queue', book', spent') => QueueInOrder(queue, book, spent)'
    /\ LastSays(queue', Bars(queue'), barred') => LastSays(queue, Bars(queue), barred)'
    BY DEF BookInOrder, QueueInOrder, LastSays, Bars, HeldTo, PotLines, Rows, Where, PotAt, InOrder

(* One line and the op that carries it.                                    *)
LEMMA LineActOrders ==
    ASSUME PhoneInv, PhoneInv', PhoneInOrder, NEW l, NEW q,
           book' = Append(book, l), queue' = Append(queue, q),
           q.op \in MoneyOps, q.line = Len(book) + 1, Matches(q, l),
           q.dep \in 0 .. Len(queue), q.state = "pending",
           BookInOrder(book', pots'), Len(pots) <= Len(pots'), UNCHANGED <<spent, barred>>
    PROVE  PhoneInOrder' /\ Grown
<1>1. /\ book \in Seq(LineRec) /\ queue \in Seq(OpRec) /\ spent \in Seq(Expense) /\ Len(spent) \in Nat
      /\ book' \in Seq(LineRec) /\ queue' \in Seq(OpRec)
    BY DEF PhoneInv, HisaabTypeOK, MoneyTypeOK
<1>2. l \in LineRec /\ q \in OpRec
    BY <1>1, AppendedIsTyped
<1>3. QueueInOrder(queue', book', spent')
    BY <1>1, <1>2, LineOpInOrder DEF PhoneInOrder
<1>4. LastSays(queue', Bars(queue'), barred')
  <2>1. q.op \notin BarOps
      BY KindsOfOps
  <2> QED BY <1>1, <1>2, <2>1, SwitchRests DEF PhoneInOrder
<1>5. PhoneInOrder'
    BY <1>3, <1>4, BridgePrimes DEF PhoneInOrder
<1>6. Grown
  <2>1. /\ Len(queue) \in Nat /\ Len(queue') = Len(queue) + 1
        /\ \A o \in DOMAIN queue : queue'[o] = queue[o]
        /\ \A o \in DOMAIN queue' \ DOMAIN queue : queue'[o] = q
      BY <1>1, <1>2, OneOpMore
  <2>2. /\ Len(book) \in Nat /\ Len(book') = Len(book) + 1
        /\ \A i \in DOMAIN book : book'[i] = book[i]
      BY <1>1, <1>2, LinesOf, OneLineMore
  <2> QED BY <1>1, <2>1, <2>2 DEF Grown
<1> QED BY <1>5, <1>6

LEMMA EntryActOrders ==
    ASSUME PhoneInv, PhoneInv', PhoneInOrder, NEW l, NEW q, l.kind \in EntryKinds, l.deposit = 0,
           book' = Append(book, l), queue' = Append(queue, q), q.op \in {"entry", "lend"},
           q.line = Len(book) + 1, q.deposit = 0, q.dep \in 0 .. Len(queue), q.state = "pending",
           UNCHANGED <<pots, spent, barred>>
    PROVE  PhoneInOrder' /\ Grown
<1>1. /\ book \in Seq(LineRec) /\ book' \in Seq(LineRec) /\ Len(pots) \in Nat
    BY SeqFacts DEF PhoneInv, HisaabTypeOK, MoneyTypeOK
<1>2. l \in LineRec
    BY <1>1, AppendedIsTyped
<1>3. l.kind \notin DepositKinds
    BY DEF EntryKinds, ChargeKinds, DepositKinds
<1>4. BookInOrder(book', pots')
    BY <1>1, <1>2, <1>3, PlainLineInOrder DEF PhoneInOrder
<1>5. Matches(q, l) /\ q.op \in MoneyOps
    BY <1>3 DEF Matches, DepositKinds, MoneyOps, Verbs
<1> QED BY <1>1, <1>4, <1>5, LineActOrders

LEMMA RecordEntryOrders ==
    ASSUME PhoneInv, PhoneInv', PhoneInOrder, NEW l, l.kind \in EntryKinds, l.deposit = 0,
           RecordEntry(l), UNCHANGED <<pots, spent, barred>>
    PROVE  PhoneInOrder' /\ Grown
<1> DEFINE q == EntryOp(l, Len(book) + 1)
<1>1. book' = Append(book, l) /\ queue' = Append(queue, q)
    BY DEF RecordEntry
<1>2. /\ q.op = "entry" /\ q.line = Len(book) + 1 /\ q.deposit = 0 /\ q.state = "pending"
      /\ q.dep \in 0 .. Len(queue)
    BY OpHas DEF EntryOp
<1> HIDE DEF q
<1> QED BY <1>1, <1>2, EntryActOrders

LEMMA PlainEntriesOrder ==
    ASSUME PhoneInv, PhoneInv', PhoneInOrder, UNCHANGED houseVars,
           \/ RecordCharge \/ RecordPayment \/ WriteOffBalance
           \/ \E i \in DOMAIN book : CorrectEntry(i) \/ WriteOffEntry(i)
    PROVE  PhoneInOrder' /\ Grown
<1>1. NewCharge \subseteq EntryKinds /\ {"payment", "write_off", "reversal"} \subseteq EntryKinds
    BY MoneyBookAssumption DEF EntryKinds
<1>2. PICK l : l.kind \in EntryKinds /\ l.deposit = 0 /\ RecordEntry(l)
  <2>1. CASE RecordCharge
    <3>1. PICK k \in NewCharge, n \in Amounts, j \in OpenJobs : RecordEntry(Line(k, n, j, 0, 0, 0))
        BY <2>1 DEF RecordCharge
    <3> QED BY <1>1, <3>1 DEF Line
  <2>2. CASE RecordPayment
    <3>1. PICK n \in Amounts : RecordEntry(Line("payment", -n, NoJob, 0, 0, 0))
        BY <2>2 DEF RecordPayment
    <3> QED BY <1>1, <3>1 DEF Line
  <2>3. CASE WriteOffBalance
    <3>1. RecordEntry(Line("write_off", -Balance, NoJob, 0, 0, 0))
        BY <2>3 DEF WriteOffBalance
    <3> QED BY <1>1, <3>1 DEF Line
  <2>4. ASSUME NEW i \in DOMAIN book, CorrectEntry(i)
        PROVE  \E l : l.kind \in EntryKinds /\ l.deposit = 0 /\ RecordEntry(l)
    <3> DEFINE l == [Line("reversal", -book[i].amount, book[i].job, 0, i, 0) EXCEPT !.gear = book[i].gear]
    <3>1. RecordEntry(l)
        BY <2>4 DEF CorrectEntry
    <3>2. l.kind = "reversal" /\ l.deposit = 0
        BY DEF Line
    <3> HIDE DEF l
    <3> QED BY <1>1, <3>1, <3>2
  <2>5. ASSUME NEW i \in DOMAIN book, WriteOffEntry(i)
        PROVE  \E l : l.kind \in EntryKinds /\ l.deposit = 0 /\ RecordEntry(l)
    <3> DEFINE l == [Line("write_off", -book[i].amount, book[i].job, i, 0, 0) EXCEPT !.gear = book[i].gear]
    <3>1. RecordEntry(l)
        BY <2>5 DEF WriteOffEntry
    <3>2. l.kind = "write_off" /\ l.deposit = 0
        BY DEF Line
    <3> HIDE DEF l
    <3> QED BY <1>1, <3>1, <3>2
  <2> QED BY <2>1, <2>2, <2>3, <2>4, <2>5
<1>3. UNCHANGED <<pots, spent, barred>>
    BY DEF RecordCharge, RecordPayment, WriteOffBalance, CorrectEntry, WriteOffEntry, houseVars
<1> QED BY <1>2, <1>3, RecordEntryOrders

LEMMA LendOutOrders ==
    ASSUME PhoneInv, PhoneInv', PhoneInOrder, NEW j \in Jobs, LendOut(j), UNCHANGED houseVars
    PROVE  PhoneInOrder' /\ Grown
<1> DEFINE i == Len(book) + 1
<1>1. PICK n \in Amounts :
        /\ book' = Append(book, [Line("charge", n, j, 0, 0, 0) EXCEPT !.gear = TRUE])
        /\ queue' = Append(queue,
             [Op("lend", i, j, 0, {Customer, JobThing(j), LineThing(i)}, {}) EXCEPT !.dep = 0])
    BY DEF LendOut
<1> DEFINE l == [Line("charge", n, j, 0, 0, 0) EXCEPT !.gear = TRUE]
           q == [Op("lend", i, j, 0, {Customer, JobThing(j), LineThing(i)}, {}) EXCEPT !.dep = 0]
<1>2. book' = Append(book, l) /\ queue' = Append(queue, q)
    BY <1>1
<1>3. l.kind = "charge" /\ l.deposit = 0
    BY DEF Line
<1>4. q.op = "lend" /\ q.line = i /\ q.deposit = 0 /\ q.state = "pending" /\ q.dep = 0
    BY DEF Op
<1>5. "charge" \in EntryKinds /\ 0 \in 0 .. Len(queue)
    BY SeqFacts DEF EntryKinds, ChargeKinds, PhoneInv
<1>6. UNCHANGED <<pots, spent, barred>>
    BY DEF LendOut, houseVars
<1> HIDE DEF l, q
<1> QED BY <1>2, <1>3, <1>4, <1>5, <1>6, EntryActOrders

LEMMA HoldDepositOrders ==
    ASSUME PhoneInv, PhoneInv', PhoneInOrder, HoldDeposit, UNCHANGED houseVars
    PROVE  PhoneInOrder' /\ Grown
<1> DEFINE p == Len(pots) + 1
<1>0. PICK n \in Taken : \E j, payload, named :
        /\ book' = Append(book, Line("deposit_hold", n, j, 0, 0, p))
        /\ pots' = Append(pots, [amount |-> n, applied |-> 0, refunded |-> FALSE])
        /\ queue' = Append(queue, Op("hold", Len(book) + 1, NoJob, p, payload, named))
    BY DEF HoldDeposit
<1>1. PICK j, payload, named :
        /\ book' = Append(book, Line("deposit_hold", n, j, 0, 0, p))
        /\ pots' = Append(pots, [amount |-> n, applied |-> 0, refunded |-> FALSE])
        /\ queue' = Append(queue, Op("hold", Len(book) + 1, NoJob, p, payload, named))
    BY <1>0
<1> DEFINE l == Line("deposit_hold", n, j, 0, 0, p)
           d == [amount |-> n, applied |-> 0, refunded |-> FALSE]
           q == Op("hold", Len(book) + 1, NoJob, p, payload, named)
<1>2. book' = Append(book, l) /\ pots' = Append(pots, d) /\ queue' = Append(queue, q)
    BY <1>1
<1>3. l.kind = "deposit_hold" /\ l.deposit = p /\ l.amount = n
    BY DEF Line
<1>4. /\ q.op = "hold" /\ q.line = Len(book) + 1 /\ q.deposit = p /\ q.state = "pending"
      /\ q.dep \in 0 .. Len(queue)
    BY OpHas
<1>5. n \in Int /\ n > 0
    BY CounterFacts
<1>6. d \in Deposit /\ Remains(d) = n
    BY <1>5 DEF Deposit, Remains
<1> HIDE DEF l, d, q
<1>7. /\ book \in Seq(LineRec) /\ book' \in Seq(LineRec) /\ pots \in Seq(Deposit) /\ Len(pots) \in Nat
      /\ \A i \in DOMAIN book : book[i].deposit <= Len(pots)
    BY SeqFacts DEF PhoneInv, HisaabTypeOK, MoneyTypeOK
<1>8. l \in LineRec
    BY <1>2, <1>7, AppendedIsTyped
<1>9. BookInOrder(book', pots')
    BY <1>2, <1>3, <1>6, <1>7, <1>8, HoldLineInOrder DEF PhoneInOrder
<1>10. Matches(q, l) /\ q.op \in MoneyOps
    BY <1>3, <1>4 DEF Matches, MoneyOps, Verbs
<1>11. Len(pots) <= Len(pots') /\ UNCHANGED <<spent, barred>>
    BY <1>2, <1>6, <1>7 DEF houseVars
<1> QED BY <1>2, <1>4, <1>9, <1>10, <1>11, LineActOrders

LEMMA MoveDepositOrders ==
    ASSUME PhoneInv, PhoneInv', PhoneInOrder, NEW p \in DOMAIN pots, NEW n \in Int, NEW kind, NEW op,
           \/ op = "apply" /\ kind = "deposit_apply"
           \/ op = "refund" /\ kind = "deposit_refund" /\ n = Remaining(p),
           MoveDeposit(p, op, kind, n),
           NEW d \in Deposit, Remains(d) = Remaining(p) - n,
           pots' = [pots EXCEPT ![p] = d], UNCHANGED houseVars
    PROVE  PhoneInOrder' /\ Grown
<1> DEFINE m == -n
           l == Line(kind, m, NoJob, 0, 0, p)
           q == Op(op, Len(book) + 1, NoJob, p, {PotThing(p)}, {PotThing(p)})
<1>1. book' = Append(book, l) /\ queue' = Append(queue, q)
    BY DEF MoveDeposit
<1>2. l.kind = kind /\ l.deposit = p /\ l.amount = m
    BY DEF Line
<1>3. /\ q.op = op /\ q.line = Len(book) + 1 /\ q.deposit = p /\ q.state = "pending"
      /\ q.dep \in 0 .. Len(queue)
    BY OpHas
<1> HIDE DEF l, q
<1>4. /\ book \in Seq(LineRec) /\ book' \in Seq(LineRec) /\ pots \in Seq(Deposit) /\ Len(pots) \in Nat
    BY SeqFacts DEF PhoneInv, HisaabTypeOK, MoneyTypeOK
<1>5. l \in LineRec
    BY <1>1, <1>4, AppendedIsTyped
<1>6. Remains(pots[p]) = Remaining(p) /\ Remaining(p) \in Int
    BY PotOf DEF Remains, Remaining
<1>7. BookInOrder(book', pots')
  <2>1. /\ l.kind \in {"deposit_apply", "deposit_refund"}
        /\ l.kind = "deposit_refund" => l.amount = -Remains(pots[p])
      BY <1>2, <1>6
  <2>2. Remains(d) = Remains(pots[p]) + l.amount
      BY <1>2, <1>6
  <2> QED BY <1>1, <1>2, <1>4, <1>5, <2>1, <2>2, MovingLineInOrder DEF PhoneInOrder
<1>8. Matches(q, l) /\ q.op \in MoneyOps
    BY <1>2, <1>3 DEF Matches, MoneyOps, Verbs
<1>9. Len(pots) <= Len(pots') /\ UNCHANGED <<spent, barred>>
  <2>1. Len(pots') = Len(pots)
      BY <1>4, ExceptIsSeq
  <2> QED BY <1>4, <2>1 DEF houseVars
<1> QED BY <1>1, <1>3, <1>7, <1>8, <1>9, LineActOrders

LEMMA DepositMovesOrder ==
    ASSUME PhoneInv, PhoneInv', PhoneInOrder, NEW p \in DOMAIN pots,
           ApplyDeposit(p) \/ RefundDeposit(p), UNCHANGED houseVars
    PROVE  PhoneInOrder' /\ Grown
<1>1. pots[p] \in Deposit /\ Remaining(p) \in Nat
    BY PotOf
<1>2. CASE ApplyDeposit(p)
  <2>1. PICK n \in 1 .. Remaining(p) :
          /\ MoveDeposit(p, "apply", "deposit_apply", n)
          /\ pots' = [pots EXCEPT ![p].applied = @ + n]
      BY <1>2 DEF ApplyDeposit
  <2> DEFINE d == [pots[p] EXCEPT !.applied = @ + n]
  <2>2. /\ pots[p] \in Deposit /\ pots[p].applied <= pots[p].amount /\ ~ pots[p].refunded
        /\ pots[p].applied \in Nat /\ pots[p].amount \in Nat
        /\ Remaining(p) = pots[p].amount - pots[p].applied
      BY <1>2, PotOf DEF ApplyDeposit
  <2>3. n \in Int /\ d \in Deposit /\ Remains(d) = Remaining(p) - n
      BY <2>2 DEF Deposit, Remains
  <2>4. pots' = [pots EXCEPT ![p] = d]
      BY <2>1
  <2>5. MoveDeposit(p, "apply", "deposit_apply", n)
      BY <2>1
  <2> HIDE DEF d
  <2> QED BY <2>3, <2>4, <2>5, MoveDepositOrders
<1>3. CASE RefundDeposit(p)
  <2> DEFINE d == [pots[p] EXCEPT !.refunded = TRUE]
  <2>1. /\ MoveDeposit(p, "refund", "deposit_refund", Remaining(p))
        /\ pots' = [pots EXCEPT ![p] = d]
      BY <1>3 DEF RefundDeposit
  <2>2. d \in Deposit /\ d.refunded = TRUE
      BY <1>1 DEF Deposit
  <2> HIDE DEF d
  <2>3. Remains(d) = Remaining(p) - Remaining(p) /\ Remaining(p) \in Int
    <3>1. Remains(d) = 0
        BY <2>2 DEF Remains
    <3> QED BY <1>1, <3>1
  <2> QED BY <2>1, <2>2, <2>3, MoveDepositOrders
<1> QED BY <1>2, <1>3
(* The fee and its write-off: two lines, two ops.                          *)
LEMMA WaiveLateFeeOrders ==
    ASSUME PhoneInv, PhoneInv', PhoneInOrder, WaiveLateFee, UNCHANGED houseVars
    PROVE  PhoneInOrder' /\ Grown
<1> DEFINE i == Len(book) + 1
<1>1. PICK n \in Amounts, j \in OpenJobs :
        LET fee == Line("late_fee", n, j, 0, 0, 0)
            off == Line("write_off", -n, j, i, 0, 0)
        IN  /\ book' = book \o <<fee, off>>
            /\ queue' = queue \o <<EntryOp(fee, i), [EntryOp(off, i + 1) EXCEPT !.dep = Len(queue) + 1]>>
    BY DEF WaiveLateFee
<1> DEFINE fee == Line("late_fee", n, j, 0, 0, 0)
           off == Line("write_off", -n, j, i, 0, 0)
           q == EntryOp(fee, i)
           s == [EntryOp(off, i + 1) EXCEPT !.dep = Len(queue) + 1]
           b == Append(book, fee)
           rs == Append(queue, q)
<1>2. book' = book \o <<fee, off>> /\ queue' = queue \o <<q, s>>
    BY <1>1
<1>3. /\ fee.kind = "late_fee" /\ fee.deposit = 0 /\ off.kind = "write_off" /\ off.deposit = 0
    BY DEF Line
<1>4. /\ q.op = "entry" /\ q.line = i /\ q.deposit = 0 /\ q.state = "pending"
      /\ q.dep \in 0 .. Len(queue)
    BY OpHas DEF EntryOp
<1>5. /\ s.op = "entry" /\ s.line = i + 1 /\ s.deposit = 0 /\ s.state = "pending"
      /\ s.dep = Len(queue) + 1
    BY DEF EntryOp, Op
<1> HIDE DEF fee, off, q, s
<1>6. /\ book \in Seq(LineRec) /\ book' \in Seq(LineRec) /\ queue \in Seq(OpRec) /\ queue' \in Seq(OpRec)
      /\ Len(pots) \in Nat /\ Len(spent) \in Nat /\ Len(book) \in Nat /\ Len(queue) \in Nat
    BY SeqFacts DEF PhoneInv, HisaabTypeOK, MoneyTypeOK
<1>7. /\ fee \in LineRec /\ off \in LineRec /\ book' = Append(b, off)
      /\ q \in OpRec /\ s \in OpRec /\ queue' = Append(rs, s)
    BY <1>2, <1>6, TwoAppended, SMTT(30)
<1>8. /\ b \in Seq(LineRec) /\ Len(b) = i /\ \A k \in DOMAIN book : b[k] = book[k]
      /\ DOMAIN book \subseteq DOMAIN b
      /\ rs \in Seq(OpRec) /\ Len(rs) = Len(queue) + 1 /\ rs[Len(queue) + 1] = q
      /\ \A k \in DOMAIN queue : rs[k] = queue[k] /\ k \in DOMAIN rs
      /\ \A k \in DOMAIN rs : k \in DOMAIN queue \/ k = Len(queue) + 1
  <2>1. b \in Seq(LineRec) /\ Len(b) = i /\ \A k \in DOMAIN book : b[k] = book[k]
      BY <1>6, <1>7, OneLineMore
  <2>2. DOMAIN book \subseteq DOMAIN b
      BY <1>6, <2>1, LinesOf
  <2>3. /\ rs \in Seq(OpRec) /\ Len(rs) = Len(queue) + 1 /\ rs[Len(queue) + 1] = q
        /\ \A k \in DOMAIN queue : rs[k] = queue[k]
        /\ DOMAIN queue = 1 .. Len(queue) /\ DOMAIN rs = 1 .. Len(queue) + 1
      BY <1>6, <1>7, OneOpMore
  <2> HIDE DEF b, rs
  <2> QED BY <1>6, <2>1, <2>2, <2>3
<1>9. /\ fee.kind \notin DepositKinds /\ off.kind \notin DepositKinds
      /\ q.op \in MoneyOps /\ s.op \in MoneyOps /\ q.op \notin BarOps /\ s.op \notin BarOps
      /\ Matches(q, fee) /\ Matches(s, off)
    BY <1>3, <1>4, <1>5 DEF DepositKinds, MoneyOps, Verbs, BarOps, Matches
<1>10. BookInOrder(b, pots) /\ QueueInOrder(rs, b, spent) /\ LastSays(rs, Bars(rs), barred)
    BY <1>4, <1>6, <1>7, <1>9, PlainLineInOrder, LineOpInOrder, SwitchRests DEF PhoneInOrder
<1> HIDE DEF b, rs
<1>11. BookInOrder(book', pots)
    BY <1>6, <1>7, <1>8, <1>9, <1>10, PlainLineInOrder
<1>12. s.line = Len(b) + 1 /\ s.dep \in 0 .. Len(rs)
    BY <1>5, <1>6, <1>8
<1>13. QueueInOrder(queue', book', spent) /\ LastSays(queue', Bars(queue'), barred)
    BY <1>6, <1>7, <1>8, <1>9, <1>10, <1>12, LineOpInOrder, SwitchRests
<1>14. UNCHANGED <<pots, spent, barred>>
    BY DEF WaiveLateFee, houseVars
<1>15. PhoneInOrder'
    BY <1>11, <1>13, <1>14, BridgePrimes DEF PhoneInOrder
<1>16. Grown
  <2>1. /\ Len(book') = Len(b) + 1 /\ \A k \in DOMAIN b : book'[k] = b[k]
      BY <1>7, <1>8, OneLineMore
  <2>2. /\ Len(queue') = Len(rs) + 1 /\ \A k \in DOMAIN rs : queue'[k] = rs[k]
        /\ \A k \in DOMAIN queue' \ DOMAIN rs : queue'[k] = s
    <3>1. /\ Len(queue') = Len(rs) + 1 /\ \A k \in DOMAIN rs : queue'[k] = rs[k]
          /\ queue'[Len(rs) + 1] = s
          /\ \A k \in DOMAIN queue' \ DOMAIN rs : k = Len(rs) + 1
        BY <1>7, <1>8, OneOpMore
    <3> QED BY <3>1
  <2>3. \A k \in DOMAIN queue' \ DOMAIN queue : queue'[k] = s \/ queue'[k] = q
      BY <1>8, <2>2
  <2>4. \A k \in DOMAIN queue' \ DOMAIN queue : queue'[k].state = "pending"
      BY <1>4, <1>5, <2>3
  <2>5. /\ \A k \in DOMAIN book : book'[k] = book[k]
        /\ \A k \in DOMAIN queue : queue'[k] = queue[k]
      BY <1>8, <2>1, <2>2
  <2>6. Len(queue) <= Len(queue') /\ Len(book) <= Len(book')
      BY <1>6, <1>8, <2>1, <2>2
  <2> QED BY <1>6, <1>14, <2>4, <2>5, <2>6 DEF Grown
<1> QED BY <1>15, <1>16

(* An op and no line.                                                      *)
LEMMA OpActOrders ==
    ASSUME PhoneInv, PhoneInv', PhoneInOrder, NEW q, queue' = Append(queue, q),
           q.op \notin MoneyOps, q.dep \in 0 .. Len(queue), q.state = "pending",
           q.op \in ExpenseOps => q.line = Len(spent) + 1 /\ \E x : spent' = Append(spent, x),
           q.op \notin ExpenseOps => spent' = spent,
           q.op \in BarOps => barred' = (q.op = "bar"),
           q.op \notin BarOps => barred' = barred,
           UNCHANGED <<book, pots>>
    PROVE  PhoneInOrder' /\ Grown
<1>1. /\ book \in Seq(LineRec) /\ queue \in Seq(OpRec) /\ queue' \in Seq(OpRec)
      /\ spent \in Seq(Expense) /\ spent' \in Seq(Expense) /\ Len(spent) \in Nat
      /\ Len(book) \in Nat /\ Len(pots) \in Nat /\ Len(queue) \in Nat
    BY SeqFacts DEF PhoneInv, HisaabTypeOK, MoneyTypeOK
<1>2. q \in OpRec
    BY <1>1, AppendedIsTyped
<1>3. /\ q.op \in ExpenseOps => q.line = Len(spent) + 1 /\ Len(spent') = Len(spent) + 1
      /\ q.op \notin ExpenseOps => Len(spent') = Len(spent)
      /\ Len(spent) <= Len(spent') /\ \A e \in DOMAIN spent : spent'[e] = spent[e]
  <2>1. CASE q.op \in ExpenseOps
    <3>1. PICK x : spent' = Append(spent, x)
        BY <2>1
    <3>2. x \in Expense
        BY <1>1, <3>1, AppendedIsTyped
    <3>3. Len(spent') = Len(spent) + 1 /\ \A e \in DOMAIN spent : spent'[e] = spent[e]
        BY <1>1, <3>1, <3>2, AppendIsSeq
    <3> QED BY <1>1, <2>1, <3>3
  <2>2. CASE q.op \notin ExpenseOps
      BY <1>1, <2>2
  <2> QED BY <2>1, <2>2
<1>4. QueueInOrder(queue', book, spent')
    BY <1>1, <1>2, <1>3, OtherOpInOrder DEF PhoneInOrder
<1>5. LastSays(queue', Bars(queue'), barred')
  <2>1. CASE q.op \in BarOps
      BY <1>1, <1>2, <2>1, SwitchTurns
  <2>2. CASE q.op \notin BarOps
      BY <1>1, <1>2, <2>2, SwitchRests DEF PhoneInOrder
  <2> QED BY <2>1, <2>2
<1>6. PhoneInOrder'
    BY <1>4, <1>5, BridgePrimes DEF PhoneInOrder
<1>7. Grown
  <2>1. /\ Len(queue') = Len(queue) + 1
        /\ \A o \in DOMAIN queue : queue'[o] = queue[o]
        /\ \A o \in DOMAIN queue' \ DOMAIN queue : queue'[o] = q
    <3>1. /\ Len(queue') = Len(queue) + 1 /\ queue'[Len(queue) + 1] = q
          /\ \A o \in DOMAIN queue : queue'[o] = queue[o]
          /\ \A o \in DOMAIN queue' \ DOMAIN queue : o = Len(queue) + 1
        BY <1>1, <1>2, OneOpMore
    <3> QED BY <3>1
  <2> QED BY <1>1, <1>3, <2>1 DEF Grown
<1> QED BY <1>6, <1>7

LEMMA PlainOpOrders ==
    ASSUME PhoneInv, PhoneInv', PhoneInOrder, NEW op \in Elsewhere, NEW job, NEW payload, NEW named,
           queue' = Append(queue, Op(op, 0, job, 0, payload, named)),
           UNCHANGED <<book, pots, spent, barred>>
    PROVE  PhoneInOrder' /\ Grown
<1> DEFINE q == Op(op, 0, job, 0, payload, named)
<1>1. q.op = op /\ q.state = "pending" /\ q.dep \in 0 .. Len(queue) /\ queue' = Append(queue, q)
    BY OpHas
<1> HIDE DEF q
<1>2. op \notin MoneyOps /\ op \notin ExpenseOps /\ op \notin BarOps
    BY KindsOfOps
<1> QED BY <1>1, <1>2, OpActOrders

LEMMA ElsewhereActsOrder ==
    ASSUME PhoneInv, PhoneInv', PhoneInOrder, UNCHANGED houseVars,
           \/ \E j \in Jobs : CreateJob(j) \/ JobOp(j)
           \/ \E j \in Jobs, kind \in Scans : ScanUnit(kind, j)
    PROVE  PhoneInOrder' /\ Grown
<1>0. PICK op \in Elsewhere : \E job, payload, named :
        queue' = Append(queue, Op(op, 0, job, 0, payload, named))
  <2>1. {"create_job", "job"} \cup Scans \subseteq Elsewhere
      BY DEF Elsewhere
  <2>2. ASSUME NEW j \in Jobs, CreateJob(j) \/ JobOp(j)
        PROVE  \E op \in Elsewhere : \E job, payload, named :
                 queue' = Append(queue, Op(op, 0, job, 0, payload, named))
      BY <2>1, <2>2 DEF CreateJob, JobOp
  <2>3. ASSUME NEW j \in Jobs, NEW kind \in Scans, ScanUnit(kind, j)
        PROVE  \E op \in Elsewhere : \E job, payload, named :
                 queue' = Append(queue, Op(op, 0, job, 0, payload, named))
    <3>1. kind \in Elsewhere /\ queue' = Append(queue, Op(kind, 0, j, 0, {}, {}))
        BY <2>1, <2>3 DEF ScanUnit
    <3> QED BY <3>1
  <2> QED BY <2>2, <2>3
<1>1. PICK job, payload, named : queue' = Append(queue, Op(op, 0, job, 0, payload, named))
    BY <1>0
<1>2. UNCHANGED <<book, pots, spent, barred>>
    BY DEF CreateJob, JobOp, ScanUnit, houseVars
<1> QED BY <1>1, <1>2, PlainOpOrders

LEMMA SetBlacklistedOrders ==
    ASSUME PhoneInv, PhoneInv', PhoneInOrder, SetBlacklisted
    PROVE  PhoneInOrder' /\ Grown
<1> DEFINE q == Op(IF barred THEN "unbar" ELSE "bar", 0, NoJob, 0, {Customer}, {Customer})
<1>1. /\ q.op = IF barred THEN "unbar" ELSE "bar"
      /\ q.state = "pending" /\ q.dep \in 0 .. Len(queue) /\ queue' = Append(queue, q)
    BY OpHas DEF SetBlacklisted
<1> HIDE DEF q
<1>2. q.op \in BarOps
    BY <1>1 DEF BarOps
<1>3. q.op \notin MoneyOps /\ q.op \notin ExpenseOps
    BY <1>2, KindsOfOps
<1>4. barred' = (q.op = "bar") /\ UNCHANGED <<book, pots, spent>>
    BY <1>1 DEF SetBlacklisted, PhoneInv, HisaabTypeOK
<1> QED BY <1>1, <1>2, <1>3, <1>4, OpActOrders

LEMMA ExpenseActsOrder ==
    ASSUME PhoneInv, PhoneInv', PhoneInOrder,
           RecordExpense \/ \E e \in DOMAIN spent : ReverseExpense(e)
    PROVE  PhoneInOrder' /\ Grown
<1>0. PICK op \in ExpenseOps : \E job, payload, named :
        queue' = Append(queue, Op(op, Len(spent) + 1, job, 0, payload, named))
    BY DEF RecordExpense, ReverseExpense, ExpenseOp, ExpenseOps
<1>1. PICK job, payload, named :
        queue' = Append(queue, Op(op, Len(spent) + 1, job, 0, payload, named))
    BY <1>0
<1>2. \E x : spent' = Append(spent, x)
    BY DEF RecordExpense, ReverseExpense
<1>3. UNCHANGED <<book, pots, barred>>
    BY DEF RecordExpense, ReverseExpense
<1> DEFINE q == Op(op, Len(spent) + 1, job, 0, payload, named)
<1>4. /\ q.op = op /\ q.line = Len(spent) + 1 /\ q.state = "pending" /\ q.dep \in 0 .. Len(queue)
      /\ queue' = Append(queue, q)
    BY <1>1, OpHas
<1> HIDE DEF q
<1>5. op \notin MoneyOps /\ op \notin BarOps
    BY KindsOfOps
<1> QED BY <1>2, <1>3, <1>4, <1>5, OpActOrders

LEMMA RecordServicedOrders ==
    ASSUME PhoneInv, PhoneInv', PhoneInOrder, RecordServiced
    PROVE  PhoneInOrder' /\ Grown
<1> DEFINE e == Len(spent) + 1
<1>1. PICK n \in Spends :
        LET x == Tied("repair", n, NoJob, NoJob, TRUE, Now)
        IN  /\ spent' = Append(spent, x)
            /\ queue' = queue \o <<ExpenseOp(e, x),
                 [Op("serviced", 0, NoJob, 0, {ExpenseThing(e)}, {}) EXCEPT !.dep = Now]>>
    BY DEF RecordServiced
<1> DEFINE x == Tied("repair", n, NoJob, NoJob, TRUE, Now)
           q == ExpenseOp(e, x)
           s == [Op("serviced", 0, NoJob, 0, {ExpenseThing(e)}, {}) EXCEPT !.dep = Now]
           rs == Append(queue, q)
<1>2. spent' = Append(spent, x) /\ queue' = queue \o <<q, s>>
    BY <1>1
<1>3. /\ q.op = "expense" /\ q.line = e /\ q.state = "pending" /\ q.dep \in 0 .. Len(queue)
  <2> HIDE DEF x
  <2> DEFINE job == x.job  payload == {ExpenseThing(e)} \cup JobOf(x)  named == JobOf(x)
  <2>1. q = Op("expense", e, job, 0, payload, named)
      BY DEF ExpenseOp
  <2> HIDE DEF q, job, payload, named
  <2> QED BY <2>1, OpHas
<1>4. s.op = "serviced" /\ s.state = "pending" /\ s.dep = Len(queue) + 1
    BY DEF Op, Now
<1> HIDE DEF x, q, s
<1>5. /\ book \in Seq(LineRec) /\ queue \in Seq(OpRec) /\ queue' \in Seq(OpRec)
      /\ spent \in Seq(Expense) /\ spent' \in Seq(Expense) /\ Len(spent) \in Nat
      /\ Len(book) \in Nat /\ Len(pots) \in Nat /\ Len(queue) \in Nat
    BY SeqFacts DEF PhoneInv, HisaabTypeOK, MoneyTypeOK
<1>6. q \in OpRec /\ s \in OpRec /\ queue' = Append(rs, s) /\ x \in Expense
    BY <1>2, <1>5, TwoAppended, AppendedIsTyped
<1>7. /\ rs \in Seq(OpRec) /\ Len(rs) = Len(queue) + 1 /\ rs[Len(queue) + 1] = q
      /\ \A k \in DOMAIN queue : rs[k] = queue[k] /\ k \in DOMAIN rs
      /\ \A k \in DOMAIN rs : k \in DOMAIN queue \/ k = Len(queue) + 1
  <2>1. /\ rs \in Seq(OpRec) /\ Len(rs) = Len(queue) + 1 /\ rs[Len(queue) + 1] = q
        /\ \A k \in DOMAIN queue : rs[k] = queue[k]
        /\ DOMAIN queue = 1 .. Len(queue) /\ DOMAIN rs = 1 .. Len(queue) + 1
      BY <1>5, <1>6, OneOpMore
  <2> HIDE DEF rs
  <2> QED BY <1>5, <2>1
<1>8. Len(spent') = Len(spent) + 1 /\ \A k \in DOMAIN spent : spent'[k] = spent[k]
    BY <1>2, <1>5, <1>6, AppendIsSeq
<1>9. /\ q.op \in ExpenseOps /\ q.op \notin MoneyOps /\ q.op \notin BarOps
      /\ s.op \notin ExpenseOps /\ s.op \notin MoneyOps /\ s.op \notin BarOps
    BY <1>3, <1>4 DEF ExpenseOps, MoneyOps, Verbs, BarOps
<1>10. QueueInOrder(rs, book, spent') /\ LastSays(rs, Bars(rs), barred)
    BY <1>3, <1>5, <1>6, <1>8, <1>9, OtherOpInOrder, SwitchRests DEF PhoneInOrder
<1> HIDE DEF rs
<1>11. QueueInOrder(queue', book, spent') /\ LastSays(queue', Bars(queue'), barred)
  <2>1. s.dep \in 0 .. Len(rs) /\ Len(spent') \in Nat
      BY <1>4, <1>5, <1>7
  <2> QED BY <1>5, <1>6, <1>7, <1>9, <1>10, <2>1, OtherOpInOrder, SwitchRests
<1>12. UNCHANGED <<book, pots, barred>>
    BY DEF RecordServiced
<1>13. PhoneInOrder'
    BY <1>11, <1>12, BridgePrimes DEF PhoneInOrder
<1>14. Grown
  <2>1. /\ Len(queue') = Len(rs) + 1 /\ \A k \in DOMAIN rs : queue'[k] = rs[k]
        /\ \A k \in DOMAIN queue' \ DOMAIN rs : queue'[k] = s
    <3>1. /\ Len(queue') = Len(rs) + 1 /\ \A k \in DOMAIN rs : queue'[k] = rs[k]
          /\ queue'[Len(rs) + 1] = s
          /\ \A k \in DOMAIN queue' \ DOMAIN rs : k = Len(rs) + 1
        BY <1>6, <1>7, OneOpMore
    <3> QED BY <3>1
  <2>2. \A k \in DOMAIN queue' \ DOMAIN queue : queue'[k] = s \/ queue'[k] = q
      BY <1>7, <2>1
  <2>3. \A k \in DOMAIN queue' \ DOMAIN queue : queue'[k].state = "pending"
      BY <1>3, <1>4, <2>2
  <2>4. /\ \A k \in DOMAIN queue : queue'[k] = queue[k]
        /\ Len(queue) <= Len(queue') /\ Len(spent) <= Len(spent')
      BY <1>5, <1>7, <1>8, <2>1
  <2> QED BY <1>5, <1>8, <1>12, <2>3, <2>4 DEF Grown
<1> QED BY <1>13, <1>14

Acts ==
    \/ AtTheCounter /\ UNCHANGED houseVars
    \/ RecordExpense \/ RecordServiced \/ \E e \in DOMAIN spent : ReverseExpense(e)
    \/ SetBlacklisted

LEMMA ActsOrder ==
    ASSUME PhoneInv, PhoneInv', PhoneInOrder, Acts
    PROVE  /\ PhoneInOrder' /\ Grown
           /\ UNCHANGED <<serverVars, idMap, others, paidOut, barredThere>>
<1>1. CASE AtTheCounter /\ UNCHANGED houseVars
  <2>1. PhoneInOrder' /\ Grown
      BY <1>1, PlainEntriesOrder, WaiveLateFeeOrders, HoldDepositOrders, DepositMovesOrder,
         ElsewhereActsOrder, LendOutOrders DEF AtTheCounter
  <2>2. UNCHANGED <<serverVars, idMap, others>>
      BY <1>1 DEF AtTheCounter, RecordCharge, RecordPayment, WriteOffBalance, WaiveLateFee, HoldDeposit,
           CorrectEntry, WriteOffEntry, ApplyDeposit, RefundDeposit, CreateJob, JobOp, LendOut,
           ScanUnit, Untouched, MoveDeposit
  <2> QED BY <1>1, <2>1, <2>2 DEF houseVars
<1>2. CASE RecordExpense \/ RecordServiced \/ (\E e \in DOMAIN spent : ReverseExpense(e)) \/ SetBlacklisted
  <2>1. PhoneInOrder' /\ Grown
      BY <1>2, ExpenseActsOrder, RecordServicedOrders, SetBlacklistedOrders
  <2>2. UNCHANGED <<serverVars, idMap, others, paidOut, barredThere>>
      BY <1>2 DEF RecordExpense, ReverseExpense, RecordServiced, SetBlacklisted, Untouched
  <2> QED BY <2>1, <2>2
<1> QED BY <1>1, <1>2 DEF Acts

-----------------------------------------------------------------------------
(* The pipe moves an op's state and nothing else of it, so the order stays. *)

SameQueue ==
    /\ DOMAIN queue' = DOMAIN queue
    /\ \A o \in DOMAIN queue : /\ SameOp(queue'[o], queue[o])
                               /\ queue'[o].dep = queue[o].dep

LEMMA MarkedOps ==
    ASSUME PhoneInv, NEW S, NEW s \in States, queue' = ToState(S, s)
    PROVE  /\ SameQueue
           /\ \A o \in DOMAIN queue : queue'[o].state = IF o \in S THEN s ELSE queue[o].state
<1>1. \A q \in OpRec : LET r == [q EXCEPT !.state = s]
                       IN  SameOp(r, q) /\ r.dep = q.dep /\ r.state = s
    BY DEF OpRec, SameOp
<1>2. \A o \in DOMAIN queue : queue[o] \in OpRec
    BY SeqFacts DEF PhoneInv
<1>3. /\ DOMAIN queue' = DOMAIN queue
      /\ \A o \in DOMAIN queue :
            queue'[o] = IF o \in S THEN [queue[o] EXCEPT !.state = s] ELSE queue[o]
    BY DEF ToState
<1>4. ASSUME NEW o \in DOMAIN queue
      PROVE  /\ SameOp(queue'[o], queue[o]) /\ queue'[o].dep = queue[o].dep
             /\ queue'[o].state = IF o \in S THEN s ELSE queue[o].state
  <2>1. CASE o \in S
      BY <1>1, <1>2, <1>3, <2>1
  <2>2. CASE o \notin S
      BY <1>3, <2>2 DEF SameOp
  <2> QED BY <2>1, <2>2
<1> QED BY <1>3, <1>4 DEF SameQueue

LEMMA PipeOrders ==
    ASSUME PhoneInv, PhoneInOrder, SameQueue, UNCHANGED <<book, pots, spent, barred>>
    PROVE  PhoneInOrder'
<1>1. Len(book) \in Nat /\ Len(spent) \in Nat
    BY SeqFacts DEF PhoneInv
<1>2. ASSUME NEW K, NEW n \in Nat, InOrder(Where(queue, K), n) PROVE InOrder(Where(queue', K), n)
  <2>1. DOMAIN Where(queue, K) = {k \in DOMAIN queue : queue[k].op \in K}
        /\ \A o \in DOMAIN Where(queue, K) : Where(queue, K)[o] = queue[o].line
      BY WhereIs
  <2>2. DOMAIN Where(queue', K) = {k \in DOMAIN queue' : queue'[k].op \in K}
        /\ \A o \in DOMAIN Where(queue', K) : Where(queue', K)[o] = queue'[o].line
      BY WhereIs
  <2> DEFINE f == Where(queue, K)  g == Where(queue', K)
  <2> HIDE DEF f, g
  <2>3. DOMAIN g = DOMAIN f /\ \A o \in DOMAIN f : g[o] = f[o]
      BY <2>1, <2>2 DEF f, g, SameQueue, SameOp
  <2>4. InOrder(g, n)
      BY <1>2, <2>3, OrderRests DEF f
  <2> QED BY <2>4 DEF g
<1>3. InOrder(Where(queue', MoneyOps), Len(book)) /\ InOrder(Where(queue', ExpenseOps), Len(spent))
    BY <1>1, <1>2 DEF PhoneInOrder, QueueInOrder
<1>4. \A o \in DOMAIN queue' : queue'[o].op \in MoneyOps => Matches(queue'[o], book[queue'[o].line])
    BY DEF PhoneInOrder, QueueInOrder, SameQueue, SameOp, Matches
<1>5. \A o \in DOMAIN queue' : queue'[o].dep \in 0 .. o - 1
    BY DEF PhoneInOrder, QueueInOrder, SameQueue
<1>6. QueueInOrder(queue', book', spent')
    BY <1>3, <1>4, <1>5 DEF QueueInOrder
<1>7. LastSays(queue', Bars(queue'), barred')
  <2>1. Bars(queue') = Bars(queue) /\ \A o \in Bars(queue) : queue'[o].op = queue[o].op
      BY DEF Bars, SameQueue, SameOp
  <2> QED BY <2>1 DEF PhoneInOrder, LastSays
<1> QED BY <1>6, <1>7, BridgePrimes DEF PhoneInOrder

Pipes ==
    \/ (Send \/ Refused \/ Answered \/ RolledBack \/ AnsweredElsewhere \/ OtherBegins \/ OtherEnds)
         /\ UNCHANGED houseVars
    \/ ExpenseAnswered \/ BarLands \/ OtherReverses
    \/ UNCHANGED hisaabVars

LEMMA ActsOrPipes == ASSUME [HisaabNext]_hisaabVars PROVE Acts \/ Pipes
    BY DEF HisaabNext, Next, Acts, Pipes

LEMMA PipesMoveStates ==
    ASSUME PhoneInv, Pipes
    PROVE  SameQueue /\ UNCHANGED <<book, pots, spent, barred>>
<1>1. queue' = queue => SameQueue
    BY DEF SameQueue, SameOp
<1>2. \A S : \A s \in {"sent", "done", "failed"} : queue' = ToState(S, s) => SameQueue
    BY MarkedOps DEF States
<1>3. CASE UNCHANGED hisaabVars
    BY <1>1, <1>3 DEF hisaabVars, vars, phoneVars, houseVars
<1>4. CASE (Send \/ Refused \/ Answered \/ RolledBack \/ AnsweredElsewhere \/ OtherBegins \/ OtherEnds)
             /\ UNCHANGED houseVars
  <2>1. UNCHANGED <<book, pots, spent, barred>>
      BY <1>4 DEF Send, Refused, Answered, RolledBack, AnsweredElsewhere, OtherBegins, OtherEnds,
                  phoneVars, houseVars
  <2>2. \A o : queue' = ToState({o}, "sent") \/ queue' = ToState({o}, "done") \/ Park(o) => SameQueue
      BY <1>2 DEF Park
  <2>3. CASE Send
      BY <2>1, <2>2, <2>3 DEF Send
  <2>4. CASE Refused
      BY <2>1, <2>2, <2>4 DEF Refused
  <2>5. CASE Answered
      BY <2>1, <2>2, <2>5 DEF Answered
  <2>6. CASE RolledBack
      BY <2>1, <2>2, <2>6 DEF RolledBack
  <2>7. CASE AnsweredElsewhere
      BY <2>1, <2>2, <2>7 DEF AnsweredElsewhere
  <2>8. CASE OtherBegins \/ OtherEnds
      BY <1>1, <2>1, <2>8 DEF OtherBegins, OtherEnds, phoneVars
  <2> QED BY <1>4, <2>3, <2>4, <2>5, <2>6, <2>7, <2>8
<1>5. CASE ExpenseAnswered \/ BarLands \/ OtherReverses
  <2>1. UNCHANGED <<book, pots, spent, barred>>
      BY <1>5 DEF ExpenseAnswered, BarLands, OtherReverses, phoneVars
  <2>2. SameQueue
      BY <1>1, <1>2, <1>5 DEF ExpenseAnswered, BarLands, OtherReverses, phoneVars, ExpenseLands, Park
  <2> QED BY <2>1, <2>2
<1> QED BY <1>3, <1>4, <1>5 DEF Pipes

LEMMA PhoneStaysInOrder ==
    ASSUME HisaabInv, HisaabInv', PhoneInOrder, [HisaabNext]_hisaabVars
    PROVE  PhoneInOrder'
    BY ActsOrPipes, ActsOrder, PipesMoveStates, PipeOrders DEF HisaabInv

LEMMA PhoneStartsInOrder == ASSUME HisaabInit PROVE PhoneInOrder
<1>1. PICK q : queue = <<q>> /\ q.op = "create_customer" /\ q.dep = 0
    BY DEF HisaabInit, Init
<1>2. DOMAIN queue = {1} /\ queue[1] = q
    BY <1>1
<1>3. book = <<>> /\ pots = <<>> /\ spent = <<>> /\ barred = FALSE
    BY DEF HisaabInit, Init
<1>4. DOMAIN book = {} /\ DOMAIN pots = {} /\ Len(book) = 0 /\ Len(pots) = 0 /\ Len(spent) = 0
  <2>1. DOMAIN <<>> = {} /\ Len(<<>>) = 0
      BY NothingYet
  <2> QED BY <1>3, <2>1
<1>5. ASSUME NEW f, DOMAIN f = {} PROVE InOrder(f, 0)
    BY <1>5 DEF InOrder
<1>6. BookInOrder(book, pots)
  <2>1. DOMAIN PotAt(book) = {}
      BY <1>4, PotAtIs
  <2> QED BY <1>4, <1>5, <2>1 DEF BookInOrder
<1>7. "create_customer" \notin MoneyOps /\ "create_customer" \notin ExpenseOps
      /\ "create_customer" \notin BarOps
    BY DEF MoneyOps, Verbs, ExpenseOps, BarOps
<1>8. DOMAIN Where(queue, MoneyOps) = {} /\ DOMAIN Where(queue, ExpenseOps) = {} /\ Bars(queue) = {}
  <2>1. ASSUME NEW K, "create_customer" \notin K PROVE DOMAIN Where(queue, K) = {}
    <3>1. {k \in DOMAIN queue : queue[k].op \in K} = {}
        BY <1>1, <1>2, <2>1
    <3> QED BY <3>1 DEF Where
  <2> QED BY <1>1, <1>2, <1>7, <2>1 DEF Bars
<1>9. QueueInOrder(queue, book, spent)
  <2>1. \A o \in DOMAIN queue : queue[o].dep \in 0 .. o - 1 /\ queue[o].op \notin MoneyOps
      BY <1>1, <1>2, <1>7
  <2> QED BY <1>4, <1>5, <1>8, <2>1 DEF QueueInOrder
<1>10. LastSays(queue, Bars(queue), barred)
    BY <1>3, <1>8 DEF LastSays
<1> QED BY <1>6, <1>9, <1>10 DEF PhoneInOrder

-----------------------------------------------------------------------------
(* On the server, deposit by deposit: its lines leave what its row says.   *)

EachPot ==
    /\ \A i \in DOMAIN ledger : ledger[i].deposit <= Len(deposits)
    /\ \A p \in DOMAIN deposits : HeldTo(ledger, Len(ledger), p) = Remains(deposits[p])

LEMMA LedgerNext ==
    ASSUME ServerTypeOK, NEW r \in Row, ledger' = Append(ledger, r)
    PROVE  /\ Len(ledger') = Len(ledger) + 1 /\ ledger'[Len(ledger) + 1] = r
           /\ DOMAIN ledger = 1 .. Len(ledger) /\ Len(ledger) \in Nat
           /\ \A i \in DOMAIN ledger : ledger'[i] = ledger[i]
           /\ \A i \in DOMAIN ledger' : i \in DOMAIN ledger \/ i = Len(ledger) + 1
           /\ \A p : HeldTo(ledger, Len(ledger), p) \in Int
           /\ \A p : r.kind \in DepositKinds /\ r.deposit = p =>
                HeldTo(ledger', Len(ledger'), p) = HeldTo(ledger, Len(ledger), p) + r.amount
           /\ \A p : ~ (r.kind \in DepositKinds /\ r.deposit = p) =>
                HeldTo(ledger', Len(ledger'), p) = HeldTo(ledger, Len(ledger), p)
<1> DEFINE b == ledger  c == Append(ledger, r)
<1>1. /\ Len(b) \in Nat /\ DOMAIN b = 1 .. Len(b) /\ \A i \in DOMAIN b : b[i].amount \in Int
    BY LedgerIs
<1>2. /\ c \in Seq(Row) /\ Len(c) = Len(b) + 1 /\ DOMAIN c = 1 .. Len(b) + 1 /\ c[Len(b) + 1] = r
      /\ \A i \in DOMAIN b : c[i] = b[i]
    BY AppendIsSeq DEF ServerTypeOK
<1>3. r.amount \in Int
    BY DEF Row
<1> HIDE DEF b, c
<1>4. /\ DOMAIN c = 1 .. Len(c) /\ Len(c) \in Nat
      /\ \A i \in DOMAIN c : i \in DOMAIN b \/ i = Len(b) + 1
    BY <1>1, <1>2
<1>5. \A i \in DOMAIN c : c[i].amount \in Int
    BY <1>1, <1>2, <1>3, <1>4, SMTT(30)
<1>6. PICK m \in Nat : m = Len(b)
    BY <1>1
<1>7. ASSUME NEW p
      PROVE  /\ HeldTo(b, m, p) \in Int
             /\ r.kind \in DepositKinds /\ r.deposit = p =>
                  HeldTo(c, m + 1, p) = HeldTo(b, m, p) + r.amount
             /\ ~ (r.kind \in DepositKinds /\ r.deposit = p) =>
                  HeldTo(c, m + 1, p) = HeldTo(b, m, p)
  <2>1. m <= Len(b) /\ m < Len(c) /\ m <= Len(c) /\ c[m + 1] = r
      BY <1>1, <1>2, <1>6
  <2>2. \A i \in 1 .. m : /\ c[i].kind = b[i].kind /\ c[i].amount = b[i].amount
                          /\ c[i].deposit = b[i].deposit
      BY <1>1, <1>2, <1>6
  <2>3. HeldTo(c, m, p) = HeldTo(b, m, p)
    <3>1. /\ m \in Nat /\ m <= Len(b) /\ m <= Len(c)
          /\ DOMAIN b = 1 .. Len(b) /\ DOMAIN c = 1 .. Len(c) /\ Len(b) \in Nat /\ Len(c) \in Nat
          /\ \A i \in DOMAIN b : b[i].amount \in Int
        BY <1>1, <1>4, <2>1
    <3> QED BY <2>2, <3>1, HeldToRests
  <2>4. /\ HeldTo(c, m, p) \in Int
        /\ c[m + 1].kind \in DepositKinds /\ c[m + 1].deposit = p =>
             HeldTo(c, m + 1, p) = HeldTo(c, m, p) + c[m + 1].amount
        /\ ~ (c[m + 1].kind \in DepositKinds /\ c[m + 1].deposit = p) =>
             HeldTo(c, m + 1, p) = HeldTo(c, m, p)
      BY <1>1, <1>4, <1>5, <1>6, <2>1, HeldToNext
  <2> QED BY <2>1, <2>3, <2>4
<1>8. Len(c) = m + 1
    BY <1>2, <1>6
<1> QED BY <1>1, <1>2, <1>4, <1>6, <1>7, <1>8 DEF b, c

LEMMA EachPotPrimes ==
    /\ (/\ \A i \in DOMAIN ledger' : ledger'[i].deposit <= Len(deposits')
        /\ \A p \in DOMAIN deposits' : HeldTo(ledger', Len(ledger'), p) = Remains(deposits'[p]))
       => EachPot'
    /\ EachPot /\ UNCHANGED <<ledger, deposits>> => EachPot'
    BY DEF EachPot, HeldTo, PotLines, Rows, Remains

LEMMA EachPotKeeps ==
    ASSUME MoneyInv, ServerPots, EachPot, [ServerNext]_serverVars PROVE EachPot'
<1>1. /\ ServerTypeOK /\ CallSound /\ deposits \in Seq(Deposit)
      /\ \A dep \in DOMAIN deposits : /\ deposits[dep] \in Deposit
                                      /\ deposits[dep].applied <= deposits[dep].amount
    BY ElementsAreTyped DEF MoneyInv, ServerTypeOK
<1>2. CASE UNCHANGED serverVars
    BY <1>2, EachPotPrimes DEF serverVars
<1>3. ASSUME NEW d \in Desks, Begin(d, call'[d]) \/ RollBack(d) PROVE EachPot'
    BY <1>3, EachPotPrimes DEF Begin, RollBack
<1>4. ASSUME NEW d \in Desks, Commit(d) PROVE EachPot'
  <2> DEFINE r == call[d]  q == r.deposit  old == deposits[q]  n == Len(deposits)
  <2>1. r \in Rpc /\ r.kind \in EntryKinds \cup DepositKinds /\ r.amount \in Int /\ r.deposit \in Nat
    <3>1. r \in Rpc
        BY <1>1, <1>4 DEF Commit, ServerTypeOK
    <3> QED BY <3>1 DEF Rpc
  <2>2. /\ n \in Nat /\ DOMAIN deposits = 1 .. n
        /\ \A i \in DOMAIN ledger : ledger[i].deposit <= n /\ ledger[i].deposit \in Nat
        /\ \A p \in DOMAIN deposits : HeldTo(ledger, Len(ledger), p) = Remains(deposits[p])
    <3>1. \A i \in DOMAIN ledger : ledger[i].deposit \in Nat
        BY <1>1, LedgerIs DEF Row
    <3>2. n \in Nat /\ DOMAIN deposits = 1 .. n
        BY <1>1
    <3> QED BY <3>1, <3>2 DEF EachPot
  <2>3. CASE CommitEntry(r)
    <3> DEFINE row == EntryRow(r)
    <3>1. /\ row \in Row /\ row.kind = r.kind /\ r.kind \in EntryKinds /\ row.deposit = 0
        BY <1>4, <2>1, <2>3, RowsAreTyped DEF CommitEntry, EntryRow, ServerPots
    <3>2. row.kind \notin DepositKinds
        BY <3>1 DEF EntryKinds, ChargeKinds, DepositKinds
    <3>3. ledger' = Append(ledger, row) /\ deposits' = deposits
        BY <2>3 DEF CommitEntry
    <3> HIDE DEF row, n
    <3>4. \A p : HeldTo(ledger', Len(ledger'), p) = HeldTo(ledger, Len(ledger), p)
        BY <1>1, <3>1, <3>2, <3>3, LedgerNext
    <3>5. \A i \in DOMAIN ledger' : ledger'[i].deposit <= n
        BY <1>1, <2>2, <3>1, <3>3, LedgerNext
    <3> QED BY <2>2, <3>3, <3>4, <3>5, EachPotPrimes DEF n
  <2>4. CASE CommitHold(r)
    <3> DEFINE new == [amount |-> r.amount, applied |-> 0, refunded |-> FALSE]
               z == n + 1
               row == DepositRow("deposit_hold", r.amount, z)
    <3>1. r.amount > 0
        BY <1>1, <2>4 DEF CallSound, CommitHold
    <3>2. new \in Deposit /\ Remains(new) = r.amount
        BY <2>1, <3>1 DEF Deposit, Remains
    <3>3. z \in Nat /\ "deposit_hold" \in DepositKinds /\ z \notin 1 .. n
        BY <2>2 DEF DepositKinds
    <3>4. ledger' = Append(ledger, row) /\ deposits' = Append(deposits, new)
        BY <2>4 DEF CommitHold
    <3> HIDE DEF new
    <3>5. /\ DOMAIN deposits' = 1 .. z /\ Len(deposits') = z /\ deposits'[z] = new
          /\ \A p \in 1 .. n : deposits'[p] = deposits[p]
        BY <1>1, <2>2, <3>2, <3>4, AppendIsSeq
    <3>6. \A i \in DOMAIN ledger : ledger[i].deposit <= z /\ ledger[i].deposit # z
        BY <2>2, <3>3
    <3>7. \A p \in 1 .. z : p = z \/ p \in 1 .. n
        BY <2>2
    <3> HIDE DEF z
    <3>8. row \in Row /\ row.kind \in DepositKinds /\ row.amount = r.amount /\ row.deposit = z
        BY <2>1, <3>3, RowsAreTyped DEF DepositRow
    <3> HIDE DEF row, n
    <3>9. /\ \A p : p # z => HeldTo(ledger', Len(ledger'), p) = HeldTo(ledger, Len(ledger), p)
          /\ HeldTo(ledger', Len(ledger'), z) = HeldTo(ledger, Len(ledger), z) + r.amount
        BY <1>1, <3>4, <3>8, LedgerNext
    <3>10. HeldTo(ledger, Len(ledger), z) = 0
      <4>1. DOMAIN ledger = 1 .. Len(ledger)
          BY <1>1, LedgerIs
      <4>2. PotLines(ledger, Len(ledger), z) = {}
          BY <3>6, <4>1 DEF PotLines
      <4> QED BY <4>2, SumEmpty DEF HeldTo
    <3>11. \A i \in DOMAIN ledger' : ledger'[i].deposit <= z
        BY <1>1, <3>3, <3>4, <3>6, <3>8, LedgerNext
    <3>12. \A p \in DOMAIN deposits' : HeldTo(ledger', Len(ledger'), p) = Remains(deposits'[p])
      <4>1. \A p \in 1 .. n : HeldTo(ledger', Len(ledger'), p) = Remains(deposits'[p])
          BY <2>2, <3>3, <3>5, <3>9 DEF n
      <4>2. HeldTo(ledger', Len(ledger'), z) = Remains(deposits'[z])
          BY <2>1, <3>2, <3>5, <3>9, <3>10
      <4> QED BY <3>5, <3>7, <4>1, <4>2
    <3> QED BY <3>5, <3>11, <3>12, EachPotPrimes
  <2>5. ASSUME NEW new \in Deposit, NEW k \in DepositKinds, NEW m \in Int, q \in DOMAIN deposits,
               Remains(new) = Remains(old) + m,
               ledger' = Append(ledger, DepositRow(k, m, q)),
               deposits' = [deposits EXCEPT ![q] = new]
        PROVE  EachPot'
    <3> DEFINE row == DepositRow(k, m, q)
    <3>1. row \in Row /\ row.kind \in DepositKinds /\ row.amount = m /\ row.deposit = q
        BY <2>1, <2>5, RowsAreTyped DEF DepositRow
    <3>2. ledger' = Append(ledger, row)
        BY <2>5
    <3> HIDE DEF row
    <3>3. /\ \A p : p # q => HeldTo(ledger', Len(ledger'), p) = HeldTo(ledger, Len(ledger), p)
          /\ HeldTo(ledger', Len(ledger'), q) = HeldTo(ledger, Len(ledger), q) + m
        BY <1>1, <3>1, <3>2, LedgerNext
    <3>4. /\ DOMAIN deposits' = DOMAIN deposits /\ Len(deposits') = n
          /\ \A p \in DOMAIN deposits : deposits'[p] = IF p = q THEN new ELSE deposits[p]
        BY <1>1, <2>5, ExceptIsSeq
    <3>5. q <= n
        BY <2>2, <2>5
    <3> HIDE DEF n
    <3>6. \A i \in DOMAIN ledger' : ledger'[i].deposit <= n
        BY <1>1, <2>2, <3>1, <3>2, <3>5, LedgerNext
    <3>7. \A p \in DOMAIN deposits' : HeldTo(ledger', Len(ledger'), p) = Remains(deposits'[p])
        BY <2>2, <2>5, <3>3, <3>4
    <3> QED BY <3>4, <3>6, <3>7, EachPotPrimes
  <2>6. ASSUME Moves(r) PROVE q \in DOMAIN deposits /\ old \in Deposit /\ ~ old.refunded
                             /\ old.applied <= old.amount /\ old.applied \in Nat /\ old.amount \in Nat
    <3>1. q \in DOMAIN deposits /\ ~ old.refunded
        BY <1>1, <2>6 DEF CallSound
    <3> QED BY <1>1, <3>1 DEF Deposit
  <2>7. CASE CommitApply(r)
    <3> DEFINE new == [old EXCEPT !.applied = @ + r.amount]
               m == -r.amount
    <3>1. Moves(r) /\ r.amount \in 1 .. Left(q)
        BY <1>1, <2>7 DEF CallSound, CommitApply, Moves
    <3>2. q \in DOMAIN deposits /\ old \in Deposit /\ ~ old.refunded
          /\ old.applied <= old.amount /\ old.applied \in Nat /\ old.amount \in Nat
        BY <2>6, <3>1
    <3>3. new \in Deposit /\ Remains(new) = Remains(old) - r.amount /\ Remains(old) \in Int
        BY <2>1, <3>1, <3>2 DEF Deposit, Remains, Left
    <3>4. m \in Int /\ "deposit_apply" \in DepositKinds /\ Remains(new) = Remains(old) + m
        BY <2>1, <3>3 DEF DepositKinds
    <3>5. ledger' = Append(ledger, DepositRow("deposit_apply", m, q))
          /\ deposits' = [deposits EXCEPT ![q] = new]
        BY <2>7 DEF CommitApply
    <3> HIDE DEF new, m
    <3> QED BY <2>5, <3>2, <3>3, <3>4, <3>5
  <2>8. CASE CommitRefund(r)
    <3> DEFINE new == [old EXCEPT !.refunded = TRUE]
               m == -Left(q)
    <3>1. Moves(r)
        BY <2>8 DEF CommitRefund, Moves
    <3>2. q \in DOMAIN deposits /\ old \in Deposit /\ ~ old.refunded
          /\ old.applied <= old.amount /\ old.applied \in Nat /\ old.amount \in Nat
        BY <2>6, <3>1
    <3>3. Remains(old) = Left(q) /\ Left(q) \in Int
        BY <3>2 DEF Remains, Left
    <3>4. new \in Deposit /\ new.refunded = TRUE
        BY <3>2 DEF Deposit
    <3>5. ledger' = Append(ledger, DepositRow("deposit_refund", m, q))
          /\ deposits' = [deposits EXCEPT ![q] = new]
        BY <2>8 DEF CommitRefund
    <3>6. m \in Int /\ "deposit_refund" \in DepositKinds /\ Remains(old) + m = 0
        BY <3>3 DEF DepositKinds
    <3> HIDE DEF new, m
    <3>7. Remains(new) = Remains(old) + m
        BY <3>4, <3>6 DEF Remains
    <3> QED BY <2>5, <3>2, <3>4, <3>5, <3>6, <3>7
  <2> QED BY <1>4, <2>3, <2>4, <2>7, <2>8 DEF Commit
<1> QED BY <1>2, <1>3, <1>4 DEF ServerNext

-----------------------------------------------------------------------------
(* A refusal leaves its mark: the op that is parked heads its own subtree. *)
(* The chain's recursion is over ops, each behind an earlier one, so it    *)
(* has a table: the least set that holds the root and what waits on it.    *)

Follows(T, root) ==
    /\ root \in T
    /\ \A o \in DOMAIN queue : queue[o].dep # 0 /\ queue[o].dep \in T => o \in T
Behind(root) == {o \in DOMAIN queue : \A T \in SUBSET (DOMAIN queue) : Follows(T, root) => o \in T}

LEMMA BehindIs ==
    ASSUME NEW root \in DOMAIN queue
    PROVE  /\ root \in Behind(root)
           /\ \A o \in DOMAIN queue :
                o \in Behind(root) <=> (o = root \/ (queue[o].dep # 0 /\ queue[o].dep \in Behind(root)))
<1> DEFINE R == Behind(root)
<1>1. /\ R \subseteq DOMAIN queue
      /\ \A o \in R, T \in SUBSET (DOMAIN queue) : Follows(T, root) => o \in T
    BY DEF Behind
<1>2. root \in R
    BY DEF Behind, Follows
<1>3. ASSUME NEW o \in DOMAIN queue, queue[o].dep # 0, queue[o].dep \in R PROVE o \in R
  <2>1. ASSUME NEW T \in SUBSET (DOMAIN queue), Follows(T, root) PROVE o \in T
    <3>1. queue[o].dep \in T
        BY <1>1, <1>3, <2>1
    <3> QED BY <1>3, <2>1, <3>1 DEF Follows
  <2> QED BY <2>1 DEF Behind
<1>4. ASSUME NEW o \in R, o # root PROVE queue[o].dep # 0 /\ queue[o].dep \in R
  <2> SUFFICES ASSUME ~ (queue[o].dep # 0 /\ queue[o].dep \in R) PROVE FALSE
      OBVIOUS
  <2> DEFINE T == R \ {o}
  <2>1. T \in SUBSET (DOMAIN queue) /\ o \notin T
      BY <1>1
  <2>2. Follows(T, root)
    <3>1. root \in T
        BY <1>2, <1>4
    <3>2. ASSUME NEW k \in DOMAIN queue, queue[k].dep # 0, queue[k].dep \in T PROVE k \in T
      <4>1. queue[k].dep \in R
          BY <3>2
      <4>2. k \in R
        <5> HIDE DEF R
        <5> QED BY <1>3, <3>2, <4>1
      <4>3. k # o
          BY <3>2, <4>1
      <4> QED BY <4>2, <4>3
    <3> HIDE DEF T
    <3> QED BY <3>1, <3>2 DEF Follows
  <2>3. o \in T
    <3> HIDE DEF T, R
    <3> QED BY <1>1, <1>4, <2>1, <2>2
  <2> QED BY <2>1, <2>3
<1> HIDE DEF R
<1>5. \A o \in DOMAIN queue : o \in R <=> (o = root \/ (queue[o].dep # 0 /\ queue[o].dep \in R))
    BY <1>2, <1>3, <1>4
<1> QED BY <1>2, <1>5 DEF R

LEMMA RootIsUnder ==
    ASSUME NEW root \in Pending, \A o \in DOMAIN queue : queue[o].dep \in {0} \cup DOMAIN queue
    PROVE  root \in Subtree(root)
<1> DEFINE D == DOMAIN queue
           R == Behind(root)
           g == [o \in D |-> IF o \in R THEN TRUE ELSE FALSE]
           it == CHOOSE f : f = [o \in D |-> o = root \/ (queue[o].dep # 0 /\ f[queue[o].dep])]
<1>1. root \in D
    BY DEF Pending
<1>2. \A o \in D : o \in R <=> (o = root \/ (queue[o].dep # 0 /\ queue[o].dep \in R))
    BY <1>1, BehindIs
<1>3. Subtree(root) = {o \in Pending : it[o]}
    BY DEF Subtree
<1> HIDE DEF R
<1>4. ASSUME NEW o \in D
      PROVE  (o \in R) = (o = root \/ (queue[o].dep # 0 /\ g[queue[o].dep]))
  <2> DEFINE k == queue[o].dep
  <2>1. k # 0 => k \in D
      BY <1>4
  <2>2. k \in D => g[k] = IF k \in R THEN TRUE ELSE FALSE
      OBVIOUS
  <2>3. o \in R <=> (o = root \/ (k # 0 /\ k \in R))
      BY <1>2, <1>4
  <2> HIDE DEF g, k, D
  <2>4. (o \in R) = (o = root \/ (k # 0 /\ g[k]))
    <3>1. CASE k = 0
        BY <2>3, <3>1
    <3>2. CASE k # 0 /\ k \in R
      <4>1. g[k] = TRUE
          BY <2>1, <2>2, <3>2
      <4> QED BY <2>3, <3>2, <4>1
    <3>3. CASE k # 0 /\ k \notin R
      <4>1. g[k] = FALSE
          BY <2>1, <2>2, <3>3
      <4> QED BY <2>3, <3>3, <4>1
    <3> QED BY <3>1, <3>2, <3>3
  <2> QED BY <2>4 DEF k
<1>5. g = [o \in D |-> o = root \/ (queue[o].dep # 0 /\ g[queue[o].dep])]
  <2> DEFINE h == [o \in D |-> o = root \/ (queue[o].dep # 0 /\ g[queue[o].dep])]
  <2>1. DOMAIN g = D /\ DOMAIN h = D /\ \A o \in D : g[o] = h[o]
      BY <1>4
  <2> QED BY <1>4
<1> HIDE DEF g
<1>6. it = [o \in D |-> o = root \/ (queue[o].dep # 0 /\ it[queue[o].dep])]
    BY <1>5
<1> HIDE DEF it
<1>7. it[root] = TRUE
    BY <1>1, <1>6
<1> QED BY <1>3, <1>7

LEMMA ParkedShows ==
    ASSUME PhoneInv, PhoneInOrder, NEW o \in Pending, Park(o)
    PROVE  queue'[o].state = "failed" /\ o \in DOMAIN queue'
<1>1. \A k \in DOMAIN queue : queue[k].dep \in {0} \cup DOMAIN queue
  <2>1. Len(queue) \in Nat /\ DOMAIN queue = 1 .. Len(queue)
      BY SeqFacts DEF PhoneInv
  <2> QED BY <2>1 DEF PhoneInOrder, QueueInOrder
<1>2. o \in Subtree(o) /\ o \in DOMAIN queue
    BY <1>1, RootIsUnder DEF Pending
<1>3. "failed" \in States
    BY DEF States
<1> QED BY <1>2, <1>3, MarkedOps DEF Park, SameQueue

-----------------------------------------------------------------------------
(* The mirror.  While nothing was refused and nobody else is at the books, *)
(* the ops land in turn; the rows, the deposits and the expenses the       *)
(* server has are the phone's first ones, under the same numbers; and the  *)
(* switch there is what the last op that landed made of it.                *)

DoneOps == {o \in DOMAIN queue : queue[o].state = "done"}
Clean == others = 0 /\ \A o \in DOMAIN queue : queue[o].state # "failed"

InTurn == \A o, k \in DOMAIN queue :
             k < o /\ queue[o].state \in {"sent", "done"} => queue[k].state = "done"
Landed ==
    /\ Len(ledger) <= Len(book) /\ Len(deposits) <= Len(pots) /\ Len(paidOut) <= Len(spent)
    /\ \A o \in DOMAIN queue : queue[o].op \in MoneyOps =>
         (queue[o].state = "done" <=> queue[o].line <= Len(ledger))
    /\ \A o \in DOMAIN queue : queue[o].op \in ExpenseOps =>
         (queue[o].state = "done" <=> queue[o].line <= Len(paidOut))
    /\ \A i \in DOMAIN book : book[i].kind = "deposit_hold" =>
         (i <= Len(ledger) <=> book[i].deposit <= Len(deposits))

SameRow(r, l) == r.kind = l.kind /\ r.amount = l.amount /\ r.deposit = l.deposit /\ r.corrects = 0
SameRows ==
    /\ \A i \in DOMAIN ledger : SameRow(ledger[i], book[i])
    /\ \A e \in DOMAIN paidOut : /\ paidOut[e].amount = spent[e].amount
                                 /\ paidOut[e].reverses = spent[e].reverses

CallIs(r, q, l) ==
    /\ r.verb = IF q.op = "lend" THEN "entry" ELSE q.op
    /\ r.kind = l.kind /\ r.corrects = 0
    /\ r.amount = IF q.op \in {"apply", "refund"} THEN -l.amount ELSE l.amount
    /\ q.op \in {"apply", "refund"} => r.deposit = q.deposit
OpenCall ==
    /\ call[Other] = NoCall
    /\ \A o \in DOMAIN queue : queue[o].state = "sent" =>
         queue[o].op \in MoneyOps /\ CallIs(call[Phone], queue[o], book[queue[o].line])

IdsTell ==
    /\ \A i \in Lines : idMap[LineThing(i)] \in {0, i} /\ idMap[PotThing(i)] \in {0, i}
    /\ \A e \in 1 .. Len(paidOut) : idMap[ExpenseThing(e)] = e
SwitchTells == LastSays(queue, Bars(queue) \cap DoneOps, barredThere)

Mirror == InTurn /\ Landed /\ SameRows /\ OpenCall /\ IdsTell /\ SwitchTells

(* The next op to land.                                                    *)
IsNext(o) ==
    /\ o \in DOMAIN queue /\ queue[o].state \in {"pending", "sent"}
    /\ \A k \in DOMAIN queue : k < o => queue[k].state = "done"
    /\ \A k \in DOMAIN queue : k > o => queue[k].state = "pending"

LEMMA StatesAre ==
    ASSUME PhoneInv
    PROVE  /\ \A o \in DOMAIN queue : queue[o].state \in States /\ o \in Nat
           /\ DOMAIN queue \subseteq Nat
<1>1. /\ \A o \in DOMAIN queue : queue[o] \in OpRec
      /\ DOMAIN queue = 1 .. Len(queue) /\ Len(queue) \in Nat
    BY SeqFacts DEF PhoneInv
<1> QED BY <1>1 DEF OpRec, States

LEMMA FirstIsNext ==
    ASSUME PhoneInv, Clean, InTurn, Pending # {}
    PROVE  IsNext(First) /\ First \in Pending
<1>1. Pending \in SUBSET Nat
    BY StatesAre DEF Pending
<1>2. First \in Pending /\ \A k \in Pending : First <= k
    BY <1>1, MinIsIn DEF First
<1>3. \A k \in DOMAIN queue : queue[k].state \in {"pending", "sent", "done"}
    BY StatesAre DEF Clean, States
<1>4. First \in DOMAIN queue /\ First \in Nat /\ queue[First].state \in {"pending", "sent"}
    BY <1>1, <1>2 DEF Pending
<1>5. ASSUME NEW k \in DOMAIN queue, k < First PROVE queue[k].state = "done"
  <2>1. k \notin Pending
      BY <1>2, <1>4, <1>5, StatesAre
  <2> QED BY <1>3, <2>1 DEF Pending
<1>6. ASSUME NEW k \in DOMAIN queue, k > First PROVE queue[k].state = "pending"
  <2>1. First < k
      BY <1>4, <1>6, StatesAre
  <2> QED BY <1>3, <1>4, <2>1 DEF InTurn
<1> QED BY <1>2, <1>4, <1>5, <1>6 DEF IsNext

LEMMA SentIsNext ==
    ASSUME PhoneInv, Clean, InTurn, NEW o \in DOMAIN queue, queue[o].state = "sent"
    PROVE  IsNext(o)
<1>1. \A k \in DOMAIN queue : queue[k].state \in {"pending", "sent", "done"} /\ k \in Nat
    BY StatesAre DEF Clean, States
<1>2. ASSUME NEW k \in DOMAIN queue, k > o PROVE queue[k].state = "pending"
  <2>1. o < k
      BY <1>1, <1>2
  <2> QED BY <1>1, <2>1 DEF InTurn
<1> QED BY <1>2 DEF IsNext, InTurn

LEMMA NextMoves ==
    ASSUME PhoneInv, NEW o, IsNext(o), NEW s \in {"sent", "done"}, queue' = ToState({o}, s)
    PROVE  /\ SameQueue /\ InTurn'
           /\ queue'[o].state = s
           /\ \A k \in DOMAIN queue : k # o => queue'[k].state = queue[k].state
           /\ \A k \in DOMAIN queue : k # o => queue'[k].state \in {"pending", "done"}
<1>1. /\ SameQueue
      /\ \A k \in DOMAIN queue : queue'[k].state = IF k \in {o} THEN s ELSE queue[k].state
    BY MarkedOps DEF States
<1>2. o \in DOMAIN queue /\ DOMAIN queue' = DOMAIN queue /\ DOMAIN queue \subseteq Nat
    BY <1>1, StatesAre DEF SameQueue, IsNext
<1>3. /\ \A k \in DOMAIN queue : k < o => queue'[k].state = "done"
      /\ \A k \in DOMAIN queue : k > o => queue'[k].state = "pending"
    BY <1>1, <1>2 DEF IsNext
<1>4. ASSUME NEW x \in DOMAIN queue, NEW k \in DOMAIN queue, k < x, queue'[x].state \in {"sent", "done"}
      PROVE  queue'[k].state = "done"
  <2>1. ~ (x > o)
      BY <1>3, <1>4
  <2>2. x \in Nat /\ k \in Nat /\ o \in Nat
      BY <1>2
  <2>3. k < o
      BY <1>4, <2>1, <2>2
  <2> QED BY <1>3, <2>3
<1>5. InTurn'
    BY <1>2, <1>4 DEF InTurn
<1>6. \A k \in DOMAIN queue : k # o => k < o \/ k > o
    BY <1>2
<1> QED BY <1>1, <1>2, <1>3, <1>5, <1>6

LEMMA LineOfNext ==
    ASSUME PhoneInv, PhoneInOrder, Landed, NEW o, IsNext(o), queue[o].op \in MoneyOps
    PROVE  /\ queue[o].line = Len(ledger) + 1 /\ queue[o].line \in DOMAIN book
           /\ Matches(queue[o], book[queue[o].line])
<1> DEFINE f == Where(queue, MoneyOps)
<1>1. /\ DOMAIN f = {k \in DOMAIN queue : queue[k].op \in MoneyOps}
      /\ \A k \in DOMAIN f : f[k] = queue[k].line
    BY WhereIs
<1>2. InOrder(f, Len(book)) /\ Matches(queue[o], book[queue[o].line])
    BY DEF PhoneInOrder, QueueInOrder, IsNext
<1>3. Len(book) \in Nat /\ DOMAIN book = 1 .. Len(book) /\ Len(ledger) \in Nat /\ DOMAIN queue \subseteq Nat
    BY SeqFacts, LedgerIs, StatesAre DEF PhoneInv, HisaabTypeOK, MoneyTypeOK
<1> HIDE DEF f
<1>4. o \in DOMAIN f /\ f[o] = queue[o].line
    BY <1>1 DEF IsNext
<1>5. f[o] \in 1 .. Len(book)
    BY <1>2, <1>4 DEF InOrder
<1>6. queue[o].state # "done" /\ o \in DOMAIN queue
    BY DEF IsNext
<1>7. f[o] > Len(ledger)
    BY <1>3, <1>4, <1>5, <1>6 DEF Landed
<1>8. \A k \in DOMAIN f : k < o => f[k] <= Len(ledger)
    BY <1>1 DEF Landed, IsNext
<1>9. f[o] = Len(ledger) + 1
    BY <1>2, <1>3, <1>4, <1>7, <1>8, NextInLine
<1> QED BY <1>2, <1>3, <1>4, <1>5, <1>9

LEMMA ExpenseOfNext ==
    ASSUME PhoneInv, PhoneInOrder, Landed, NEW o, IsNext(o), queue[o].op \in ExpenseOps
    PROVE  queue[o].line = Len(paidOut) + 1 /\ queue[o].line \in DOMAIN spent
<1> DEFINE f == Where(queue, ExpenseOps)
<1>1. /\ DOMAIN f = {k \in DOMAIN queue : queue[k].op \in ExpenseOps}
      /\ \A k \in DOMAIN f : f[k] = queue[k].line
    BY WhereIs
<1>2. InOrder(f, Len(spent))
    BY DEF PhoneInOrder, QueueInOrder
<1>3. Len(spent) \in Nat /\ DOMAIN spent = 1 .. Len(spent) /\ Len(paidOut) \in Nat /\ DOMAIN queue \subseteq Nat
    BY SeqFacts, StatesAre DEF PhoneInv
<1> HIDE DEF f
<1>4. o \in DOMAIN f /\ f[o] = queue[o].line
    BY <1>1 DEF IsNext
<1>5. f[o] \in 1 .. Len(spent)
    BY <1>2, <1>4 DEF InOrder
<1>6. queue[o].state # "done" /\ o \in DOMAIN queue
    BY DEF IsNext
<1>7. f[o] > Len(paidOut)
    BY <1>3, <1>4, <1>5, <1>6 DEF Landed
<1>8. \A k \in DOMAIN f : k < o => f[k] <= Len(paidOut)
    BY <1>1 DEF Landed, IsNext
<1>9. f[o] = Len(paidOut) + 1
    BY <1>2, <1>3, <1>4, <1>7, <1>8, NextInLine
<1> QED BY <1>3, <1>4, <1>5, <1>9

(* The deposit of the next line, when it takes one.                        *)
LEMMA NextPot ==
    ASSUME PhoneInv, PhoneInOrder, Landed, Len(ledger) + 1 \in DOMAIN book,
           book[Len(ledger) + 1].kind = "deposit_hold"
    PROVE  /\ book[Len(ledger) + 1].deposit = Len(deposits) + 1
           /\ Len(deposits) + 1 <= Len(pots)
           /\ \A i \in DOMAIN book : book[i].kind = "deposit_hold" /\ i # Len(ledger) + 1 =>
                book[i].deposit # Len(deposits) + 1
<1> DEFINE f == PotAt(book)
<1>1. PICK z \in Nat : z = Len(ledger) + 1
    BY LedgerIs DEF PhoneInv, HisaabTypeOK, MoneyTypeOK
<1>2. /\ DOMAIN f = {k \in DOMAIN book : book[k].kind = "deposit_hold"}
      /\ \A k \in DOMAIN f : f[k] = book[k].deposit
    BY PotAtIs
<1>3. InOrder(f, Len(pots)) /\ Len(pots) \in Nat /\ Len(deposits) \in Nat /\ Len(ledger) \in Nat
      /\ DOMAIN book \subseteq Nat
  <2>1. Len(deposits) \in Nat
      BY DEF PhoneInv, HisaabTypeOK, MoneyTypeOK, ServerTypeOK
  <2>2. Len(pots) \in Nat /\ DOMAIN book = 1 .. Len(book) /\ Len(ledger) \in Nat
      BY SeqFacts, LedgerIs DEF PhoneInv, HisaabTypeOK, MoneyTypeOK
  <2> QED BY <2>1, <2>2 DEF PhoneInOrder, BookInOrder
<1> HIDE DEF f
<1>4. z \in DOMAIN f /\ f[z] = book[z].deposit /\ f[z] \in 1 .. Len(pots) /\ z \in DOMAIN book
    BY <1>1, <1>2, <1>3 DEF InOrder
<1>5. f[z] > Len(deposits)
  <2>1. ~ (z <= Len(ledger))
      BY <1>1, <1>3
  <2>2. ~ (book[z].deposit <= Len(deposits))
      BY <1>1, <1>4, <2>1 DEF Landed
  <2> QED BY <1>3, <1>4, <2>2
<1>6. \A k \in DOMAIN f : k < z => f[k] <= Len(deposits)
  <2>1. \A k \in DOMAIN f : k < z => k <= Len(ledger)
      BY <1>1, <1>2, <1>3
  <2> QED BY <1>2, <2>1 DEF Landed
<1>7. f[z] = Len(deposits) + 1
    BY <1>3, <1>4, <1>5, <1>6, NextInLine
<1>8. ASSUME NEW i \in DOMAIN f, i # z PROVE f[i] # f[z]
  <2>1. i < z \/ z < i
      BY <1>2, <1>3, <1>4, <1>8
  <2>2. f[i] \in 1 .. Len(pots) /\ f[z] \in 1 .. Len(pots)
      BY <1>3, <1>4 DEF InOrder
  <2> QED BY <1>3, <1>4, <2>1, <2>2 DEF InOrder
<1> QED BY <1>1, <1>2, <1>3, <1>4, <1>7, <1>8

-----------------------------------------------------------------------------
(* Sending: what goes out is the line as it stands.  A correction of a     *)
(* landed line does not: the server's two lines would be of one kind.      *)

LEMMA SentIsTheLine ==
    ASSUME HisaabInv, PhoneInOrder, Mirror, NEW o \in DOMAIN queue, queue[o].op \in MoneyOps,
           Fits(RpcOf(o))
    PROVE  CallIs(RpcOf(o), queue[o], book[queue[o].line])
<1> DEFINE q == queue[o]  l == book[q.line]  r == RpcOf(o)
<1>1. /\ PhoneInv /\ q.line \in DOMAIN book /\ q.deposit \in 0 .. Len(pots) /\ Matches(q, l)
      /\ q.line \in Lines /\ LineFits(book, q.line) /\ DOMAIN book = 1 .. Len(book)
      /\ Len(book) \in Nat /\ MaxOps \in Nat
  <2>1. PhoneInv
      BY DEF HisaabInv
  <2>2. q.line \in DOMAIN book /\ q.deposit \in 0 .. Len(pots) /\ Matches(q, l)
      BY <2>1 DEF PhoneInv, OpFits, MoneyOps, PhoneInOrder, QueueInOrder
  <2>3. DOMAIN book = 1 .. Len(book) /\ Len(book) \in Nat /\ Len(book) <= MaxOps /\ MaxOps \in Nat
      BY <2>1, SeqFacts DEF PhoneInv, Counts
  <2>4. q.line \in Lines /\ LineFits(book, q.line)
      BY <2>1, <2>2, <2>3 DEF PhoneInv, Lines
  <2> QED BY <2>1, <2>2, <2>3, <2>4
<1>2. /\ r.verb = IF q.op = "lend" THEN "entry" ELSE q.op
      /\ r.kind = l.kind
      /\ r.amount = IF q.op \in {"apply", "refund"} THEN -l.amount ELSE l.amount
      /\ r.corrects = Arg(LineThing, l.corrects)
      /\ r.deposit = Arg(PotThing, IF q.op = "hold" THEN 0 ELSE q.deposit)
    BY DEF RpcOf
<1> HIDE DEF r, l, q
<1>3. Fits(r) /\ q.op \in MoneyOps
    BY DEF r, q
<1>4. r.corrects = 0
  <2> SUFFICES ASSUME r.corrects # 0 PROVE FALSE
      OBVIOUS
  <2> DEFINE c == l.corrects
  <2>1. c # 0
      BY <1>2 DEF Arg
  <2>2. l.kind = "write_off" /\ book[c].kind \in ChargeKinds /\ c \in 0 .. q.line - 1
      BY <1>1, <2>1 DEF LineFits, l
  <2>3. c \in Lines /\ c \in DOMAIN book
    <3> HIDE DEF c
    <3>1. q.line \in 1 .. Len(book) /\ q.line \in 1 .. MaxOps
        BY <1>1 DEF Lines
    <3>2. c \in 1 .. Len(book) /\ c \in 1 .. MaxOps
        BY <1>1, <2>1, <2>2, <3>1
    <3> QED BY <1>1, <3>2 DEF Lines
  <2>4. r.corrects = c
      BY <1>2, <2>1, <2>3 DEF Arg, Id, Mirror, IdsTell
  <2>5. r.verb = "entry"
      BY <1>1, <1>2, <1>3, <2>2 DEF Matches, MoneyOps, Verbs
  <2>6. c \in DOMAIN ledger /\ ledger[c].kind = "write_off"
      BY <1>2, <1>3, <2>1, <2>2, <2>4, <2>5 DEF Fits, EntryFits, CorrectionFits
  <2>7. ledger[c].kind = book[c].kind
      BY <2>6 DEF Mirror, SameRows, SameRow
  <2> QED BY <2>2, <2>6, <2>7 DEF ChargeKinds
<1>5. ASSUME q.op \in {"apply", "refund"} PROVE r.deposit = q.deposit
  <2>1. r.deposit = Arg(PotThing, q.deposit) /\ r.verb = q.op
      BY <1>2, <1>5
  <2>2. r.deposit \in DOMAIN deposits
      BY <1>3, <1>5, <2>1 DEF Fits, ApplyFits, RefundFits
  <2>3. r.deposit # 0
      BY <1>1, <2>2 DEF PhoneInv, HisaabTypeOK, MoneyTypeOK, ServerTypeOK
  <2>4. q.deposit # 0
      BY <2>1, <2>3 DEF Arg
  <2>5. q.deposit \in Lines
      BY <1>1, <2>4, SeqFacts DEF PhoneInv, Counts, Lines
  <2> QED BY <2>1, <2>3, <2>4, <2>5 DEF Arg, Id, Mirror, IdsTell
<1>6. CallIs(r, q, l)
    BY <1>2, <1>4, <1>5 DEF CallIs
<1> QED BY <1>6 DEF r, l, q

LEMMA SendMirrors ==
    ASSUME HisaabInv, PhoneInOrder, Clean, Mirror, Send, UNCHANGED houseVars
    PROVE  Mirror'
<1>1. PhoneInv /\ InTurn
    BY DEF HisaabInv, Mirror
<1>2. IsNext(First) /\ First \in DOMAIN queue /\ queue[First].op \in MoneyOps
    BY <1>1, FirstIsNext DEF Send, IsNext, Money, MoneyOps
<1>3. /\ SameQueue /\ InTurn' /\ queue'[First].state = "sent"
      /\ \A k \in DOMAIN queue : k # First => queue'[k].state = queue[k].state
    BY <1>1, <1>2, NextMoves DEF Send
<1>4. CallIs(RpcOf(First), queue[First], book[queue[First].line])
    BY <1>2, SentIsTheLine DEF Send, Begin, MayStart
<1>5. call'[Phone] = RpcOf(First) /\ call'[Other] = NoCall
    BY <1>1, MoneyBookAssumption DEF Send, Begin, Mirror, OpenCall, PhoneInv, HisaabTypeOK, MoneyTypeOK, ServerTypeOK
<1>6. UNCHANGED <<ledger, deposits, book, pots, idMap, others, spent, paidOut, barred, barredThere>>
    BY DEF Send, Begin, houseVars
<1>7. OpenCall'
  <2>1. ASSUME NEW o \in DOMAIN queue', queue'[o].state = "sent" PROVE o = First
      BY <1>3, <2>1 DEF SameQueue, Send, NothingSent
  <2>2. CallIs(call'[Phone], queue'[First], book'[queue'[First].line])
      BY <1>2, <1>3, <1>4, <1>5, <1>6 DEF CallIs, SameQueue, SameOp
  <2>3. queue'[First].op \in MoneyOps
      BY <1>2, <1>3 DEF SameQueue, SameOp
  <2>4. call'[Other] = NoCall
      BY <1>5
  <2> QED BY <2>1, <2>2, <2>3, <2>4 DEF OpenCall, CallIs
<1>8. \A k \in DOMAIN queue : queue'[k].state = "done" <=> queue[k].state = "done"
    BY <1>2, <1>3 DEF IsNext
<1>9. Landed'
    BY <1>3, <1>6, <1>8 DEF Mirror, Landed, SameQueue, SameOp
<1>10. SameRows' /\ IdsTell'
    BY <1>6 DEF Mirror, SameRows, IdsTell, SameRow
<1>11. SwitchTells'
  <2>1. /\ Bars(queue') \cap DoneOps' = Bars(queue) \cap DoneOps
        /\ \A o \in DOMAIN queue : queue'[o].op = queue[o].op
      BY <1>3, <1>8 DEF Bars, DoneOps, SameQueue, SameOp
  <2> QED BY <1>6, <2>1 DEF Mirror, SwitchTells, LastSays, Bars, DoneOps
<1> QED BY <1>3, <1>7, <1>9, <1>10, <1>11 DEF Mirror

-----------------------------------------------------------------------------
(* A row lands: it is the phone's next line, under the same number.        *)

LEMMA MintsAre ==
    ASSUME NEW o
    PROVE  /\ \A i : LineThing(i) \in Mints(o) => queue[o].op \in {"lend", "entry"} /\ i = queue[o].line
           /\ \A i : PotThing(i) \in Mints(o) => queue[o].op = "hold" /\ i = queue[o].deposit
           /\ \A e : ExpenseThing(e) \in Mints(o) => queue[o].op \in ExpenseOps /\ e = queue[o].line
           /\ queue[o].op \in ExpenseOps => ExpenseThing(queue[o].line) \in Mints(o)
<1> DEFINE q == queue[o]
<1>1. /\ q.op = "create_customer" => Mints(o) = {Customer}
      /\ q.op = "create_job" => Mints(o) = {JobThing(q.job)}
      /\ q.op = "lend" => Mints(o) = {JobThing(q.job), LineThing(q.line)}
      /\ q.op = "entry" => Mints(o) = {LineThing(q.line)}
      /\ q.op \in ExpenseOps => Mints(o) = {ExpenseThing(q.line)}
      /\ q.op = "hold" => Mints(o) = {PotThing(q.deposit)}
      /\ q.op \notin {"create_customer", "create_job", "lend", "entry", "hold"} \cup ExpenseOps => Mints(o) = {}
    BY DEF Mints, ExpenseOps
<1> HIDE DEF q
<1>2. q.op \in {"create_customer", "create_job", "lend", "entry", "hold"} \cup ExpenseOps
        \/ q.op \notin {"create_customer", "create_job", "lend", "entry", "hold"} \cup ExpenseOps
    OBVIOUS
<1>3. /\ \A i : LineThing(i) \in Mints(o) => q.op \in {"lend", "entry"} /\ i = q.line
      /\ \A i : PotThing(i) \in Mints(o) => q.op = "hold" /\ i = q.deposit
      /\ \A e : ExpenseThing(e) \in Mints(o) => q.op \in ExpenseOps /\ e = q.line
      /\ q.op \in ExpenseOps => ExpenseThing(q.line) \in Mints(o)
    BY <1>1, <1>2 DEF Customer, JobThing, LineThing, PotThing, ExpenseThing
<1> QED BY <1>3 DEF q

LEMMA SwitchSame ==
    ASSUME SameQueue, SwitchTells, UNCHANGED barredThere,
           \A k \in DOMAIN queue : queue[k].op \in BarOps =>
             (queue'[k].state = "done" <=> queue[k].state = "done")
    PROVE  SwitchTells'
<1>1. /\ Bars(queue') \cap DoneOps' = Bars(queue) \cap DoneOps
      /\ \A o \in DOMAIN queue : queue'[o].op = queue[o].op
    BY DEF Bars, DoneOps, SameQueue, SameOp
<1> QED BY <1>1 DEF SwitchTells, LastSays, Bars, DoneOps

LEMMA RowLands ==
    ASSUME HisaabInv, PhoneInOrder, Mirror, NEW o, IsNext(o), queue[o].op \in MoneyOps,
           queue' = ToState({o}, "done"), NEW row \in Row, ledger' = Append(ledger, row),
           SameRow(row, book[Len(ledger) + 1]),
           Len(deposits') = IF queue[o].op = "hold" THEN Len(deposits) + 1 ELSE Len(deposits),
           call'[Other] = NoCall, Learn(o, NewId(o)), UNCHANGED <<book, pots, others, houseVars>>
    PROVE  Mirror'
<1>1. PICK z \in Nat : z = Len(ledger) + 1
    BY LedgerIs DEF HisaabInv, MoneyInv
<1>2. /\ Len(ledger) \in Nat /\ DOMAIN ledger = 1 .. Len(ledger) /\ Len(deposits) \in Nat
      /\ Len(book) \in Nat /\ DOMAIN book = 1 .. Len(book)
      /\ \A i \in DOMAIN book : book[i].deposit \in Nat
      /\ DOMAIN queue \subseteq Nat
  <2>1. Len(deposits) \in Nat /\ book \in Seq(LineRec)
      BY DEF HisaabInv, PhoneInv, HisaabTypeOK, MoneyTypeOK, ServerTypeOK
  <2> QED BY <2>1, LedgerIs, LinesOf, StatesAre DEF HisaabInv, MoneyInv
<1>3. PhoneInv /\ Landed /\ ServerTypeOK
    BY DEF HisaabInv, MoneyInv, Mirror
<1>4. queue[o].line = z /\ z \in DOMAIN book /\ Matches(queue[o], book[z])
    BY <1>1, <1>3, LineOfNext
<1>5. /\ SameQueue /\ InTurn' /\ queue'[o].state = "done"
      /\ \A k \in DOMAIN queue : k # o => queue'[k].state = queue[k].state
      /\ \A k \in DOMAIN queue : k # o => queue'[k].state \in {"pending", "done"}
    BY <1>3, NextMoves
<1>6. /\ Len(ledger') = z /\ ledger'[z] = row
      /\ \A i \in DOMAIN ledger : ledger'[i] = ledger[i]
      /\ \A i \in DOMAIN ledger' : i \in DOMAIN ledger \/ i = z
    BY <1>1, <1>3, LedgerNext
<1>7. UNCHANGED <<book, pots, spent, paidOut, barredThere>>
    BY DEF houseVars
<1>8. book[z].kind = "deposit_hold" <=> queue[o].op = "hold"
    BY <1>4 DEF Matches
<1>9. book[z].kind = "deposit_hold" =>
        /\ book[z].deposit = Len(deposits) + 1 /\ Len(deposits) + 1 <= Len(pots)
        /\ \A i \in DOMAIN book : book[i].kind = "deposit_hold" /\ i # z =>
             book[i].deposit # Len(deposits) + 1
    BY <1>1, <1>3, <1>4, NextPot
<1>10. /\ o \in DOMAIN queue /\ queue[o].state # "done"
       /\ \A k \in DOMAIN queue : k < o => queue[k].state = "done"
       /\ \A k \in DOMAIN queue : k > o => queue[k].state # "done"
    BY DEF IsNext
<1>11. \A k \in DOMAIN queue : queue[k].op \in MoneyOps /\ k > o => queue[k].line > z /\ queue[k].line \in Nat
  <2> DEFINE f == Where(queue, MoneyOps)
  <2>1. /\ DOMAIN f = {k \in DOMAIN queue : queue[k].op \in MoneyOps}
        /\ \A k \in DOMAIN f : f[k] = queue[k].line
      BY WhereIs
  <2>2. InOrder(f, Len(book))
      BY DEF PhoneInOrder, QueueInOrder
  <2> HIDE DEF f
  <2>3. \A k \in DOMAIN f : k > o => f[k] > z /\ f[k] \in Nat
      BY <1>2, <1>4, <1>10, <2>1, <2>2 DEF InOrder
  <2> QED BY <2>1, <2>3
<1>12. \A k \in DOMAIN queue : k = o \/ k < o \/ k > o
    BY <1>2, <1>10
<1>13. Landed'
  <2>1. /\ Len(ledger') <= Len(book') /\ Len(deposits') <= Len(pots') /\ Len(paidOut') <= Len(spent')
    <3>1. z <= Len(book)
        BY <1>2, <1>4
    <3>2. Len(deposits') <= Len(pots)
        BY <1>3, <1>8, <1>9 DEF Landed
    <3> QED BY <1>3, <1>6, <1>7, <3>1, <3>2 DEF Landed
  <2>2. ASSUME NEW k \in DOMAIN queue', queue'[k].op \in MoneyOps
        PROVE  queue'[k].state = "done" <=> queue'[k].line <= Len(ledger')
    <3>1. k \in DOMAIN queue /\ queue[k].op \in MoneyOps /\ queue'[k].line = queue[k].line
        BY <1>5, <2>2 DEF SameQueue, SameOp
    <3>2. CASE k = o
        BY <1>1, <1>4, <1>5, <1>6, <3>1, <3>2
    <3>3. CASE k < o
      <4>1. queue[k].line <= Len(ledger) /\ k # o
          BY <1>2, <1>3, <1>10, <3>1, <3>3 DEF Landed
      <4>2. queue[k].line \in Nat
          BY <1>3, <3>1, SeqFacts DEF PhoneInv, OpRec
      <4>3. queue'[k].state = "done"
          BY <1>5, <1>10, <3>1, <3>3, <4>1
      <4>4. queue'[k].line <= Len(ledger')
          BY <1>1, <1>2, <1>6, <3>1, <4>1, <4>2
      <4> QED BY <4>3, <4>4
    <3>4. CASE k > o
      <4>1. queue[k].line > z /\ queue[k].line \in Nat /\ k # o
          BY <1>2, <1>10, <1>11, <3>1, <3>4
      <4>2. queue'[k].state # "done"
        <5>1. queue[k].state # "done"
            BY <1>10, <3>1, <3>4
        <5>2. queue'[k].state = queue[k].state
            BY <1>5, <3>1, <4>1
        <5> QED BY <5>1, <5>2
      <4>3. ~ (queue'[k].line <= Len(ledger'))
        <5>1. PICK n \in Nat : n = queue[k].line
            BY <4>1
        <5>2. ~ (n <= z)
            BY <1>1, <4>1, <5>1
        <5> QED BY <1>6, <3>1, <5>1, <5>2
      <4> QED BY <4>2, <4>3
    <3> QED BY <1>12, <3>1, <3>2, <3>3, <3>4
  <2>3. ASSUME NEW k \in DOMAIN queue', queue'[k].op \in ExpenseOps
        PROVE  queue'[k].state = "done" <=> queue'[k].line <= Len(paidOut')
    <3>1. k \in DOMAIN queue /\ queue[k].op \in ExpenseOps /\ queue'[k].line = queue[k].line /\ k # o
        BY <1>5, <2>3, KindsOfOps DEF SameQueue, SameOp
    <3> QED BY <1>3, <1>5, <1>7, <3>1 DEF Landed
  <2>4. ASSUME NEW i \in DOMAIN book', book'[i].kind = "deposit_hold"
        PROVE  i <= Len(ledger') <=> book'[i].deposit <= Len(deposits')
    <3>1. i \in DOMAIN book /\ book[i].kind = "deposit_hold" /\ i \in Nat /\ book[i].deposit \in Nat
        BY <1>2, <1>7, <2>4
    <3>2. i <= Len(ledger) <=> book[i].deposit <= Len(deposits)
        BY <1>3, <3>1 DEF Landed
    <3>3. CASE i = z
        BY <1>2, <1>6, <1>7, <1>8, <1>9, <3>1, <3>3
    <3>4. CASE i # z
      <4>1. i <= z <=> i <= Len(ledger)
          BY <1>1, <1>2, <3>1, <3>4
      <4>2. book[i].deposit <= Len(deposits') <=> book[i].deposit <= Len(deposits)
          BY <1>2, <1>8, <1>9, <3>1, <3>4
      <4> QED BY <1>6, <1>7, <3>2, <4>1, <4>2
    <3> QED BY <3>3, <3>4
  <2> QED BY <2>1, <2>2, <2>3, <2>4 DEF Landed
<1>14. SameRows'
  <2>1. \A i \in DOMAIN ledger' : SameRow(ledger'[i], book'[i])
      BY <1>1, <1>6, <1>7 DEF Mirror, SameRows
  <2> QED BY <1>7, <2>1 DEF Mirror, SameRows, SameRow
<1>15. OpenCall'
  <2>1. \A k \in DOMAIN queue' : queue'[k].state # "sent"
      BY <1>5 DEF SameQueue
  <2> QED BY <2>1 DEF OpenCall
<1>16. IdsTell'
  <2>1. ASSUME NEW i \in Lines PROVE idMap'[LineThing(i)] \in {0, i} /\ idMap'[PotThing(i)] \in {0, i}
    <3>1. LineThing(i) \in Things /\ PotThing(i) \in Things
        BY ThingsAreNamed
    <3>2. idMap[LineThing(i)] \in {0, i} /\ idMap[PotThing(i)] \in {0, i}
        BY DEF Mirror, IdsTell
    <3>3. LineThing(i) \in Mints(o) => NewId(o) = i
        BY <1>1, <1>4, MintsAre DEF NewId
    <3>4. PotThing(i) \in Mints(o) => NewId(o) = i
      <4>1. ASSUME PotThing(i) \in Mints(o) PROVE NewId(o) = i
        <5>1. queue[o].op = "hold" /\ i = queue[o].deposit
            BY <4>1, MintsAre
        <5> QED BY <1>4, <1>8, <1>9, <5>1 DEF NewId, Matches
      <4> QED BY <4>1
    <3> QED BY <3>1, <3>2, <3>3, <3>4 DEF Learn
  <2>2. ASSUME NEW e \in 1 .. Len(paidOut') PROVE idMap'[ExpenseThing(e)] = e
    <3>1. e \in 1 .. Len(paidOut) /\ idMap[ExpenseThing(e)] = e
        BY <1>7, <2>2 DEF Mirror, IdsTell
    <3>2. ExpenseThing(e) \notin Mints(o)
        BY MintsAre, KindsOfOps
    <3>3. ExpenseThing(e) \in Things
      <4>1. /\ Len(paidOut) \in Nat /\ Len(spent) \in Nat /\ Len(spent) <= MaxOps /\ MaxOps \in Nat
            /\ Len(paidOut) <= Len(spent)
          BY <1>3, SeqFacts DEF PhoneInv, Counts, Landed
      <4>2. e \in Lines
          BY <3>1, <4>1 DEF Lines
      <4> QED BY <4>2, ThingsAreNamed
    <3> QED BY <3>1, <3>2, <3>3 DEF Learn
  <2> QED BY <2>1, <2>2 DEF IdsTell
<1>17. SwitchTells'
  <2>1. \A k \in DOMAIN queue : queue[k].op \in BarOps => k # o
      BY KindsOfOps
  <2> QED BY <1>5, <1>7, <2>1, SwitchSame DEF Mirror
<1> QED BY <1>5, <1>13, <1>14, <1>15, <1>16, <1>17 DEF Mirror

LEMMA SameHeld ==
    ASSUME HisaabInv, Landed, SameRows, NEW p
    PROVE  HeldTo(book, Len(ledger), p) = HeldTo(ledger, Len(ledger), p)
<1>1. PICK n \in Nat : n = Len(ledger)
    BY LedgerIs DEF HisaabInv, MoneyInv
<1>2. /\ DOMAIN ledger = 1 .. Len(ledger) /\ Len(ledger) \in Nat
      /\ \A i \in DOMAIN ledger : ledger[i].amount \in Int
      /\ DOMAIN book = 1 .. Len(book) /\ Len(book) \in Nat
  <2>1. book \in Seq(LineRec)
      BY DEF HisaabInv, PhoneInv, HisaabTypeOK, MoneyTypeOK
  <2> QED BY <2>1, LedgerIs, LinesOf DEF HisaabInv, MoneyInv
<1>3. n <= Len(ledger) /\ n <= Len(book)
    BY <1>1, <1>2 DEF Landed
<1>4. \A i \in 1 .. n : /\ book[i].kind = ledger[i].kind /\ book[i].amount = ledger[i].amount
                        /\ book[i].deposit = ledger[i].deposit
    BY <1>1, <1>2 DEF SameRows, SameRow
<1>5. HeldTo(book, n, p) = HeldTo(ledger, n, p)
    BY <1>2, <1>3, <1>4, HeldToRests
<1> QED BY <1>1, <1>5

LEMMA AnsweredMirrors ==
    ASSUME HisaabInv, ServerPots, PhoneInOrder, EachPot, Clean, Mirror, Answered, UNCHANGED houseVars
    PROVE  Mirror'
<1>1. PICK o \in Pending : /\ queue[o].state = "sent" /\ Commit(Phone) /\ Learn(o, NewId(o))
                           /\ queue' = ToState({o}, "done")
    BY DEF Answered
<1> DEFINE z == Len(ledger) + 1  q == queue[o]  l == book[z]  r == call[Phone]
           D == Len(deposits)
<1>2. PhoneInv /\ InTurn /\ Landed /\ SameRows /\ ServerTypeOK /\ CallSound /\ Phone \in Desks /\ Other \in Desks
      /\ Phone # Other
    BY MoneyBookAssumption DEF HisaabInv, MoneyInv, Mirror
<1>3. IsNext(o) /\ q.op \in MoneyOps /\ CallIs(r, q, book[q.line])
    BY <1>1, <1>2, SentIsNext DEF Pending, Mirror, OpenCall
<1>4. q.line = z /\ z \in DOMAIN book /\ Matches(q, l) /\ CallIs(r, q, l)
    BY <1>2, <1>3, LineOfNext
<1>5. /\ LineFits(book, z) /\ l \in LineRec /\ l.amount \in Int /\ l.deposit \in Nat
      /\ DOMAIN book = 1 .. Len(book)
  <2>1. book \in Seq(LineRec)
      BY <1>2 DEF PhoneInv, HisaabTypeOK, MoneyTypeOK
  <2>2. LineFits(book, z) /\ l \in LineRec
      BY <1>2, <1>4, SeqFacts DEF PhoneInv
  <2> QED BY <1>4, <2>1, <2>2, LinesOf
<1>6. call' = [call EXCEPT ![Phone] = NoCall] /\ call'[Other] = NoCall /\ r # NoCall
  <2>1. call[Other] = NoCall
      BY DEF Mirror, OpenCall
  <2> QED BY <1>1, <1>2, <2>1 DEF Commit, ServerTypeOK
<1>7. r \in Rpc /\ r.amount \in Int /\ r.deposit \in Nat /\ Len(ledger) \in Nat /\ D \in Nat
      /\ DOMAIN deposits = 1 .. D
  <2>1. r \in Rpc
      BY <1>2, <1>6 DEF ServerTypeOK
  <2> QED BY <1>2, <2>1, LedgerIs DEF Rpc, ServerTypeOK
<1>8. UNCHANGED <<book, pots, others, houseVars>>
    BY DEF Answered
<1>9. ASSUME NEW row \in Row, ledger' = Append(ledger, row), SameRow(row, l),
             Len(deposits') = IF q.op = "hold" THEN D + 1 ELSE D
      PROVE  Mirror'
    BY <1>1, <1>3, <1>6, <1>8, <1>9, RowLands
<1>10. r.verb = IF q.op = "lend" THEN "entry" ELSE q.op
    BY <1>4 DEF CallIs
<1>11. /\ r.kind = l.kind /\ r.corrects = 0
       /\ r.amount = IF q.op \in {"apply", "refund"} THEN -l.amount ELSE l.amount
       /\ q.op \in {"apply", "refund"} => r.deposit = q.deposit
    BY <1>4 DEF CallIs
<1>12. /\ q.op = "hold" <=> l.kind = "deposit_hold"
       /\ q.op = "apply" <=> l.kind = "deposit_apply"
       /\ q.op = "refund" <=> l.kind = "deposit_refund"
       /\ q.deposit = l.deposit
    BY <1>4 DEF Matches
<1> HIDE DEF q, r
<1>13. CASE CommitEntry(r)
  <2> DEFINE row == EntryRow(r)
  <2>1. row \in Row /\ ledger' = Append(ledger, row) /\ deposits' = deposits
      BY <1>7, <1>13, RowsAreTyped DEF CommitEntry
  <2>2. q.op \notin {"hold", "apply", "refund"}
      BY <1>10, <1>13 DEF CommitEntry
  <2>3. l.deposit = 0
      BY <1>5, <1>12, <2>2 DEF LineFits, DepositKinds
  <2>4. SameRow(row, l)
      BY <1>11, <2>2, <2>3 DEF SameRow, EntryRow
  <2> HIDE DEF row
  <2> QED BY <1>9, <2>1, <2>2, <2>4
<1>14. CASE CommitHold(r)
  <2> DEFINE row == DepositRow("deposit_hold", r.amount, D + 1)
             new == [amount |-> r.amount, applied |-> 0, refunded |-> FALSE]
  <2>1. q.op = "hold" /\ r.amount = l.amount /\ l.kind = "deposit_hold"
      BY <1>10, <1>11, <1>12, <1>14 DEF CommitHold
  <2>2. l.deposit = D + 1
      BY <1>2, <1>4, <2>1, NextPot
  <2>3. ledger' = Append(ledger, row) /\ deposits' = Append(deposits, new)
      BY <1>14 DEF CommitHold
  <2>4. D + 1 \in Nat /\ "deposit_hold" \in DepositKinds
      BY <1>7 DEF DepositKinds
  <2>5. row \in Row
      BY <1>7, <2>4, RowsAreTyped
  <2>6. SameRow(row, l)
      BY <2>1, <2>2 DEF SameRow, DepositRow
  <2>7. Len(deposits') = D + 1
    <3>1. r.amount > 0
        BY <1>2, <1>14 DEF CallSound, CommitHold, r
    <3>2. new \in Deposit
        BY <1>7, <3>1 DEF Deposit
    <3> HIDE DEF new, row
    <3>3. deposits \in Seq(Deposit)
        BY <1>2 DEF ServerTypeOK
    <3> QED BY <2>3, <3>2, <3>3
  <2> HIDE DEF row
  <2> QED BY <1>9, <2>1, <2>3, <2>5, <2>6, <2>7
<1>15. ASSUME NEW k \in DepositKinds, NEW m \in Int, NEW new,
              ledger' = Append(ledger, DepositRow(k, m, r.deposit)),
              deposits' = [deposits EXCEPT ![r.deposit] = new],
              k = l.kind, m = l.amount, q.op \in {"apply", "refund"}
       PROVE  Mirror'
  <2> DEFINE row == DepositRow(k, m, r.deposit)
  <2>1. row \in Row /\ ledger' = Append(ledger, row)
      BY <1>7, <1>15, RowsAreTyped
  <2>2. SameRow(row, l)
      BY <1>11, <1>12, <1>15 DEF SameRow, DepositRow
  <2>3. Len(deposits') = D
    <3>1. deposits \in Seq(Deposit \cup {new}) /\ DOMAIN deposits' = 1 .. D
        BY <1>2, <1>7, <1>15 DEF ServerTypeOK
    <3> QED BY <1>7, <1>15, <3>1
  <2>4. q.op # "hold"
      BY <1>15
  <2> HIDE DEF row
  <2> QED BY <1>9, <2>1, <2>2, <2>3, <2>4
<1>16. CASE CommitApply(r)
  <2>1. q.op = "apply" /\ l.kind = "deposit_apply" /\ r.amount = -l.amount
      BY <1>10, <1>11, <1>12, <1>16 DEF CommitApply
  <2>2. -r.amount = l.amount /\ "deposit_apply" \in DepositKinds
      BY <1>5, <2>1 DEF DepositKinds
  <2>3. ledger' = Append(ledger, DepositRow("deposit_apply", -r.amount, r.deposit))
      BY <1>16 DEF CommitApply
  <2>4. \E new : deposits' = [deposits EXCEPT ![r.deposit] = new]
      BY <1>16 DEF CommitApply
  <2> QED BY <1>5, <1>15, <2>1, <2>2, <2>3, <2>4
<1>17. CASE CommitRefund(r)
  <2> DEFINE p == r.deposit
  <2>1. q.op = "refund" /\ l.kind = "deposit_refund" /\ p = l.deposit /\ r.verb = "refund"
      BY <1>10, <1>11, <1>12, <1>17 DEF CommitRefund
  <2>2. p \in DOMAIN deposits /\ ~ deposits[p].refunded
      BY <1>2, <2>1 DEF CallSound, Moves, r
  <2>3. HeldTo(ledger, Len(ledger), p) = Left(p)
    <3>1. HeldTo(ledger, Len(ledger), p) = Remains(deposits[p])
        BY <2>2 DEF EachPot
    <3> QED BY <2>2, <3>1 DEF Remains, Left
  <2>4. l.amount = -HeldTo(book, z - 1, p)
      BY <1>4, <2>1 DEF PhoneInOrder, BookInOrder
  <2>5. z - 1 = Len(ledger)
      BY <1>7
  <2>6. HeldTo(book, Len(ledger), p) = HeldTo(ledger, Len(ledger), p)
      BY <1>2, SameHeld
  <2>7. -Left(p) = l.amount /\ "deposit_refund" \in DepositKinds
    <3>1. HeldTo(book, z - 1, p) = Left(p)
        BY <2>3, <2>5, <2>6
    <3> QED BY <2>4, <3>1 DEF DepositKinds
  <2>8. ledger' = Append(ledger, DepositRow("deposit_refund", -Left(p), p))
      BY <1>17 DEF CommitRefund
  <2>9. \E new : deposits' = [deposits EXCEPT ![p] = new]
      BY <1>17 DEF CommitRefund
  <2> QED BY <1>5, <1>15, <2>1, <2>7, <2>8, <2>9
<1>18. CommitEntry(r) \/ CommitHold(r) \/ CommitApply(r) \/ CommitRefund(r)
    BY <1>1 DEF Commit, r
<1> QED BY <1>13, <1>14, <1>16, <1>17, <1>18

-----------------------------------------------------------------------------
(* The other answers.                                                      *)

(* An op that is no line's lands: no row of the ledger moves.              *)
LEMMA QuietLands ==
    ASSUME HisaabInv, Mirror, NEW o, IsNext(o), queue[o].op \notin MoneyOps,
           queue' = ToState({o}, "done"), UNCHANGED <<ledger, deposits, call, book, pots, spent>>
    PROVE  /\ SameQueue /\ InTurn' /\ OpenCall'
           /\ o \in DOMAIN queue /\ queue'[o].state = "done"
           /\ \A k \in DOMAIN queue : k # o => queue'[k].state = queue[k].state
           /\ \A k \in DOMAIN queue' : queue'[k].op \in MoneyOps =>
                (queue'[k].state = "done" <=> queue'[k].line <= Len(ledger'))
           /\ \A i \in DOMAIN book' : book'[i].kind = "deposit_hold" =>
                (i <= Len(ledger') <=> book'[i].deposit <= Len(deposits'))
           /\ \A i \in DOMAIN ledger' : SameRow(ledger'[i], book'[i])
<1>1. /\ SameQueue /\ InTurn' /\ queue'[o].state = "done"
      /\ \A k \in DOMAIN queue : k # o => queue'[k].state = queue[k].state
      /\ \A k \in DOMAIN queue : k # o => queue'[k].state \in {"pending", "done"}
    BY NextMoves, SMTT(30) DEF HisaabInv
<1>2. OpenCall'
  <2>1. \A k \in DOMAIN queue' : queue'[k].state # "sent"
      BY <1>1 DEF SameQueue
  <2> QED BY <2>1 DEF OpenCall, Mirror
<1>3. \A k \in DOMAIN queue' : queue'[k].op \in MoneyOps =>
                (queue'[k].state = "done" <=> queue'[k].line <= Len(ledger'))
    BY <1>1, ZenonT(40) DEF Mirror, Landed, SameQueue, SameOp
<1>4. \A i \in DOMAIN book' : book'[i].kind = "deposit_hold" =>
                (i <= Len(ledger') <=> book'[i].deposit <= Len(deposits'))
    BY DEF Mirror, Landed
<1>5. \A i \in DOMAIN ledger' : SameRow(ledger'[i], book'[i])
    BY DEF Mirror, SameRows
<1>6. o \in DOMAIN queue
    BY DEF IsNext
<1> QED BY <1>1, <1>2, <1>3, <1>4, <1>5, <1>6

LEMMA ElsewhereMirrors ==
    ASSUME HisaabInv, Clean, Mirror, AnsweredElsewhere, UNCHANGED houseVars
    PROVE  Mirror'
<1>1. /\ Pending # {} /\ queue[First].op \in Elsewhere /\ Learn(First, 1)
      /\ queue' = ToState({First}, "done")
      /\ UNCHANGED <<ledger, deposits, call, book, pots, others, spent, paidOut, barred, barredThere>>
    BY DEF AnsweredElsewhere, serverVars, houseVars
<1>2. IsNext(First)
    BY <1>1, FirstIsNext DEF HisaabInv, Mirror
<1>3. queue[First].op \notin MoneyOps /\ queue[First].op \notin ExpenseOps /\ queue[First].op \notin BarOps
    BY <1>1, KindsOfOps
<1>4. /\ SameQueue /\ InTurn' /\ OpenCall'
      /\ \A k \in DOMAIN queue : k # First => queue'[k].state = queue[k].state
      /\ \A k \in DOMAIN queue' : queue'[k].op \in MoneyOps =>
           (queue'[k].state = "done" <=> queue'[k].line <= Len(ledger'))
      /\ \A i \in DOMAIN book' : book'[i].kind = "deposit_hold" =>
           (i <= Len(ledger') <=> book'[i].deposit <= Len(deposits'))
      /\ \A i \in DOMAIN ledger' : SameRow(ledger'[i], book'[i])
    BY <1>1, <1>2, <1>3, QuietLands
<1>5. Landed'
  <2>1. ASSUME NEW k \in DOMAIN queue', queue'[k].op \in ExpenseOps
        PROVE  queue'[k].state = "done" <=> queue'[k].line <= Len(paidOut')
    <3>1. k \in DOMAIN queue /\ queue[k].op \in ExpenseOps /\ queue'[k].line = queue[k].line /\ k # First
        BY <1>3, <1>4, <2>1 DEF SameQueue, SameOp
    <3>2. queue'[k].state = queue[k].state
        BY <1>4, <3>1
    <3>3. queue[k].state = "done" <=> queue[k].line <= Len(paidOut)
        BY <3>1 DEF Mirror, Landed
    <3> QED BY <1>1, <3>1, <3>2, <3>3
  <2> QED BY <1>1, <1>4, <2>1 DEF Mirror, Landed
<1>6. SameRows'
    BY <1>1, <1>4 DEF Mirror, SameRows, SameRow
<1>7. IdsTell'
  <2>1. /\ \A i : LineThing(i) \notin Mints(First) /\ PotThing(i) \notin Mints(First)
        /\ \A e : ExpenseThing(e) \notin Mints(First)
    <3>1. queue[First].op \notin {"lend", "entry", "hold"}
        BY <1>3, KindsOfOps
    <3> QED BY <1>3, <3>1, MintsAre
  <2>2. \A i \in Lines : LineThing(i) \in Things /\ PotThing(i) \in Things /\ ExpenseThing(i) \in Things
      BY ThingsAreNamed
  <2>3. 1 .. Len(paidOut) \subseteq Lines
    <3>1. /\ Len(paidOut) \in Nat /\ Len(spent) \in Nat /\ Len(spent) <= MaxOps /\ MaxOps \in Nat
          /\ Len(paidOut) <= Len(spent)
        BY SeqFacts DEF HisaabInv, PhoneInv, Counts, Mirror, Landed
    <3> QED BY <3>1 DEF Lines
  <2>4. /\ \A i \in Lines : idMap'[LineThing(i)] = idMap[LineThing(i)] /\ idMap'[PotThing(i)] = idMap[PotThing(i)]
        /\ \A e \in Lines : idMap'[ExpenseThing(e)] = idMap[ExpenseThing(e)]
      BY <1>1, <2>1, <2>2 DEF Learn
  <2> QED BY <1>1, <2>3, <2>4 DEF Mirror, IdsTell
<1>8. SwitchTells'
    BY <1>1, <1>3, <1>4, SwitchSame DEF Mirror
<1> QED BY <1>4, <1>5, <1>6, <1>7, <1>8 DEF Mirror

LEMMA ExpenseMirrors ==
    ASSUME HisaabInv, HisaabInv', PhoneInOrder, Clean, Clean', Mirror, ExpenseAnswered
    PROVE  Mirror'
<1> DEFINE e == queue[First].line
<1>1. /\ Pending # {} /\ queue[First].op \in ExpenseOps
      /\ UNCHANGED <<ledger, deposits, call, book, pots, others, spent, barred, barredThere>>
    BY DEF ExpenseAnswered, serverVars
<1>2. IsNext(First) /\ First \in Pending
    BY <1>1, FirstIsNext DEF HisaabInv, Mirror
<1>3. ExpenseLands(First)
  <2>1. ~ Park(First)
      BY <1>2, ParkedShows DEF Clean, HisaabInv
  <2> QED BY <2>1 DEF ExpenseAnswered
<1>4. queue[First].op \notin MoneyOps /\ queue[First].op \notin BarOps
    BY <1>1, KindsOfOps
<1>5. /\ SameQueue /\ InTurn' /\ OpenCall'
      /\ First \in DOMAIN queue /\ queue'[First].state = "done"
      /\ \A k \in DOMAIN queue : k # First => queue'[k].state = queue[k].state
      /\ \A k \in DOMAIN queue' : queue'[k].op \in MoneyOps =>
           (queue'[k].state = "done" <=> queue'[k].line <= Len(ledger'))
      /\ \A i \in DOMAIN book' : book'[i].kind = "deposit_hold" =>
           (i <= Len(ledger') <=> book'[i].deposit <= Len(deposits'))
      /\ \A i \in DOMAIN ledger' : SameRow(ledger'[i], book'[i])
    BY <1>1, <1>2, <1>3, <1>4, QuietLands DEF ExpenseLands
<1>6. /\ Len(paidOut) \in Nat /\ DOMAIN paidOut = 1 .. Len(paidOut)
      /\ Len(spent) \in Nat /\ DOMAIN spent = 1 .. Len(spent) /\ Len(spent) <= MaxOps /\ MaxOps \in Nat
      /\ \A k \in DOMAIN queue : k \in Nat /\ queue[k].line \in Nat
      /\ \A i \in DOMAIN spent : spent[i].reverses \in Nat /\ spent[i].reverses < i
  <2>1. PhoneInv /\ HisaabTypeOK
      BY DEF HisaabInv, PhoneInv
  <2>2. /\ Len(paidOut) \in Nat /\ DOMAIN paidOut = 1 .. Len(paidOut)
        /\ Len(spent) \in Nat /\ DOMAIN spent = 1 .. Len(spent) /\ Len(spent) <= MaxOps /\ MaxOps \in Nat
        /\ \A i \in DOMAIN spent : spent[i] \in Expense /\ spent[i].reverses < i
        /\ \A k \in DOMAIN queue : queue[k] \in OpRec
      BY <2>1, SeqFacts DEF PhoneInv, Counts
  <2> QED BY <2>1, <2>2, StatesAre DEF Expense, OpRec
<1>7. e = Len(paidOut) + 1 /\ e \in DOMAIN spent
    BY <1>1, <1>2, ExpenseOfNext DEF HisaabInv, Mirror
<1>8. /\ First \in DOMAIN queue /\ queue[First].state # "done"
      /\ \A k \in DOMAIN queue : k < First => queue[k].state = "done"
      /\ \A k \in DOMAIN queue : k > First => queue[k].state # "done"
    BY <1>2 DEF IsNext
<1>9. paidOut' = Append(paidOut, PaidRow(First)) /\ Learn(First, Len(paidOut) + 1)
    BY <1>3 DEF ExpenseLands
<1>10. /\ Len(paidOut') = e /\ DOMAIN paidOut' = 1 .. e /\ paidOut'[e] = PaidRow(First)
       /\ \A i \in DOMAIN paidOut : paidOut'[i] = paidOut[i]
       /\ \A i \in DOMAIN paidOut' : i \in DOMAIN paidOut \/ i = e
  <2>1. paidOut \in Seq(Paid)
      BY DEF HisaabInv, PhoneInv, HisaabTypeOK
  <2>2. PaidRow(First) \in Paid
      BY <1>1, <1>8, PaidRowIsTyped DEF HisaabInv
  <2>3. PICK x : x = PaidRow(First)
      OBVIOUS
  <2>4. /\ Len(paidOut') = Len(paidOut) + 1 /\ DOMAIN paidOut' = 1 .. Len(paidOut) + 1
        /\ paidOut'[Len(paidOut) + 1] = x /\ \A i \in DOMAIN paidOut : paidOut'[i] = paidOut[i]
      BY <1>9, <2>1, <2>2, <2>3, AppendIsSeq
  <2> QED BY <1>6, <1>7, <2>3, <2>4
<1> HIDE DEF e
<1>11. \A k \in DOMAIN queue : queue[k].op \in ExpenseOps /\ k > First => queue[k].line > e
  <2> DEFINE f == Where(queue, ExpenseOps)
  <2>1. /\ DOMAIN f = {k \in DOMAIN queue : queue[k].op \in ExpenseOps}
        /\ \A k \in DOMAIN f : f[k] = queue[k].line
      BY WhereIs
  <2>2. InOrder(f, Len(spent))
      BY DEF PhoneInOrder, QueueInOrder
  <2> HIDE DEF f
  <2>3. \A k \in DOMAIN f : k > First => f[k] > f[First]
      BY <1>1, <1>6, <1>8, <2>1, <2>2 DEF InOrder
  <2> QED BY <1>1, <1>8, <2>1, <2>3 DEF e
<1>12. Landed'
  <2>1. ASSUME NEW k \in DOMAIN queue', queue'[k].op \in ExpenseOps
        PROVE  queue'[k].state = "done" <=> queue'[k].line <= Len(paidOut')
    <3>1. k \in DOMAIN queue /\ queue[k].op \in ExpenseOps /\ queue'[k].line = queue[k].line
          /\ queue[k].line \in Nat /\ k \in Nat /\ First \in Nat
        BY <1>5, <1>6, <2>1 DEF SameQueue, SameOp
    <3>2. CASE k = First
        BY <1>5, <1>6, <1>7, <1>10, <3>1, <3>2 DEF e
    <3>3. CASE k < First
      <4>1. queue[k].line <= Len(paidOut) /\ queue[k].state = "done" /\ k # First
          BY <1>8, <3>1, <3>3 DEF Mirror, Landed
      <4>2. queue'[k].line <= e
          BY <1>6, <1>7, <3>1, <4>1
      <4>3. queue'[k].state = "done"
          BY <1>5, <3>1, <4>1
      <4> QED BY <1>10, <4>2, <4>3
    <3>4. CASE k > First
      <4>1. queue[k].line > e /\ queue[k].state # "done" /\ k # First
          BY <1>8, <1>11, <3>1, <3>4
      <4>2. ~ (queue'[k].line <= e)
          BY <1>6, <1>7, <3>1, <4>1
      <4>3. queue'[k].state # "done"
          BY <1>5, <3>1, <4>1
      <4> QED BY <1>10, <4>2, <4>3
    <3> QED BY <3>1, <3>2, <3>3, <3>4
  <2>2. Len(paidOut') <= Len(spent')
      BY <1>1, <1>6, <1>7, <1>10
  <2> QED BY <1>1, <1>5, <2>1, <2>2 DEF Mirror, Landed
<1>13. SameRows'
  <2> DEFINE x == spent[e]
  <2>1. PaidRow(First).amount = x.amount
        /\ PaidRow(First).reverses = IF x.reverses = 0 THEN 0 ELSE Id(ExpenseThing(x.reverses))
      BY DEF PaidRow, e
  <2>2. x.reverses \in Nat /\ x.reverses < e
      BY <1>6, <1>7
  <2>3. x.reverses # 0 => x.reverses \in 1 .. Len(paidOut)
      BY <1>6, <1>7, <2>2
  <2>4. PaidRow(First).reverses = x.reverses
      BY <2>1, <2>3 DEF Mirror, IdsTell, Id
  <2>5. \A i \in DOMAIN paidOut' : /\ paidOut'[i].amount = spent'[i].amount
                                   /\ paidOut'[i].reverses = spent'[i].reverses
      BY <1>1, <1>10, <2>1, <2>4 DEF Mirror, SameRows
  <2> QED BY <1>1, <1>5, <2>5 DEF Mirror, SameRows, SameRow
<1>14. IdsTell'
  <2>1. \A i : LineThing(i) \notin Mints(First) /\ PotThing(i) \notin Mints(First)
    <3>1. queue[First].op \notin {"lend", "entry", "hold"}
        BY <1>1, <1>4, KindsOfOps
    <3> QED BY <3>1, MintsAre
  <2>2. \A i \in Lines : LineThing(i) \in Things /\ PotThing(i) \in Things /\ ExpenseThing(i) \in Things
      BY ThingsAreNamed
  <2>3. ASSUME NEW i \in Lines PROVE idMap'[LineThing(i)] \in {0, i} /\ idMap'[PotThing(i)] \in {0, i}
      BY <1>9, <2>1, <2>2 DEF Learn, Mirror, IdsTell
  <2>4. ASSUME NEW i \in 1 .. Len(paidOut') PROVE idMap'[ExpenseThing(i)] = i
    <3>1. i \in Lines
        BY <1>6, <1>7, <1>10, <2>4 DEF Lines
    <3>2. CASE i = e
      <4>1. ExpenseThing(i) \in Mints(First)
          BY <1>1, <3>2, MintsAre DEF e
      <4> QED BY <1>7, <1>9, <2>2, <3>1, <3>2, <4>1 DEF Learn
    <3>3. CASE i # e
      <4>1. ExpenseThing(i) \notin Mints(First)
          BY <3>3, MintsAre DEF e
      <4>2. i \in 1 .. Len(paidOut)
          BY <1>6, <1>7, <1>10, <2>4, <3>3
      <4> QED BY <1>9, <2>2, <3>1, <4>1, <4>2 DEF Learn, Mirror, IdsTell
    <3> QED BY <3>2, <3>3
  <2> QED BY <2>3, <2>4 DEF IdsTell
<1>15. SwitchTells'
    BY <1>1, <1>4, <1>5, SwitchSame DEF Mirror
<1> QED BY <1>5, <1>12, <1>13, <1>14, <1>15 DEF Mirror

LEMMA BarMirrors ==
    ASSUME HisaabInv, Clean, Mirror, BarLands
    PROVE  Mirror'
<1>1. /\ Pending # {} /\ queue[First].op \in BarOps
      /\ queue' = ToState({First}, "done") /\ barredThere' = (queue[First].op = "bar")
      /\ UNCHANGED <<ledger, deposits, call, book, pots, idMap, others, spent, paidOut, barred>>
    BY DEF BarLands, serverVars
<1>2. IsNext(First)
    BY <1>1, FirstIsNext DEF HisaabInv, Mirror
<1>3. queue[First].op \notin MoneyOps /\ queue[First].op \notin ExpenseOps
    BY <1>1, KindsOfOps
<1>4. /\ SameQueue /\ InTurn' /\ OpenCall'
      /\ First \in DOMAIN queue /\ queue'[First].state = "done"
      /\ \A k \in DOMAIN queue : k # First => queue'[k].state = queue[k].state
      /\ \A k \in DOMAIN queue' : queue'[k].op \in MoneyOps =>
           (queue'[k].state = "done" <=> queue'[k].line <= Len(ledger'))
      /\ \A i \in DOMAIN book' : book'[i].kind = "deposit_hold" =>
           (i <= Len(ledger') <=> book'[i].deposit <= Len(deposits'))
      /\ \A i \in DOMAIN ledger' : SameRow(ledger'[i], book'[i])
    BY <1>1, <1>2, <1>3, QuietLands
<1>5. Landed'
  <2>1. ASSUME NEW k \in DOMAIN queue', queue'[k].op \in ExpenseOps
        PROVE  queue'[k].state = "done" <=> queue'[k].line <= Len(paidOut')
    <3>1. k \in DOMAIN queue /\ queue[k].op \in ExpenseOps /\ queue'[k].line = queue[k].line /\ k # First
        BY <1>3, <1>4, <2>1 DEF SameQueue, SameOp
    <3>2. queue'[k].state = queue[k].state
        BY <1>4, <3>1
    <3>3. queue[k].state = "done" <=> queue[k].line <= Len(paidOut)
        BY <3>1 DEF Mirror, Landed
    <3> QED BY <1>1, <3>1, <3>2, <3>3
  <2> QED BY <1>1, <1>4, <2>1 DEF Mirror, Landed
<1>6. SameRows' /\ IdsTell'
    BY <1>1, <1>4 DEF Mirror, SameRows, SameRow, IdsTell
<1>7. SwitchTells'
  <2> DEFINE S == Bars(queue') \cap DoneOps'
  <2>1. First \in S
      BY <1>1, <1>4 DEF Bars, DoneOps, SameQueue, SameOp
  <2>2. ASSUME NEW o \in S, \A k \in S : k <= o PROVE barredThere' = (queue'[o].op = "bar")
    <3>1. o \in DOMAIN queue /\ queue'[o].state = "done" /\ DOMAIN queue \subseteq Nat
        BY <1>4, StatesAre DEF Bars, DoneOps, SameQueue, HisaabInv
    <3>2. First <= o
        BY <2>1, <2>2
    <3>3. ~ (o > First)
      <4>1. o > First => queue[o].state = "pending" /\ o # First
          BY <1>2, <1>4, <3>1 DEF IsNext
      <4> QED BY <1>4, <3>1, <4>1
    <3>4. o = First
        BY <1>4, <3>1, <3>2, <3>3
    <3> QED BY <1>1, <1>4, <3>4 DEF SameQueue, SameOp
  <2>3. S # {}
      BY <2>1
  <2> HIDE DEF S
  <2>4. LastSays(queue', S, barredThere')
      BY <2>2, <2>3 DEF LastSays
  <2>5. LastSays(queue', S, barredThere') => SwitchTells'
      BY DEF S, SwitchTells, LastSays, Bars, DoneOps
  <2> QED BY <2>4, <2>5
<1> QED BY <1>4, <1>5, <1>6, <1>7 DEF Mirror

-----------------------------------------------------------------------------
(* An act at the counter: the new ops wait, and their lines come after     *)
(* every line that has landed.                                             *)

(* What is added comes after what was there.                               *)
LEMMA AddedComesAfter ==
    ASSUME NEW f, NEW g, NEW n \in Nat, NEW m \in Nat, InOrder(f, n), InOrder(g, m),
           DOMAIN f \subseteq DOMAIN g, \A o \in DOMAIN f : g[o] = f[o],
           NEW x \in DOMAIN g, x \notin DOMAIN f
    PROVE  g[x] > n /\ g[x] \in Nat
<1>1. g[x] \in 1 .. m /\ x \in Nat
    BY DEF InOrder
<1> SUFFICES ASSUME g[x] <= n PROVE FALSE
    BY <1>1
<1>2. PICK o \in DOMAIN f : f[o] = g[x]
    BY <1>1 DEF InOrder
<1>3. o \in DOMAIN g /\ o \in Nat /\ g[o] = g[x] /\ o # x
    BY <1>2 DEF InOrder
<1>4. g[o] < g[x] \/ g[x] < g[o]
  <2>1. o < x \/ x < o
      BY <1>1, <1>3
  <2> QED BY <1>3, <2>1 DEF InOrder
<1> QED BY <1>1, <1>3, <1>4

LEMMA MirrorGrows ==
    ASSUME HisaabInv, HisaabInv', PhoneInOrder, PhoneInOrder', Mirror, Grown,
           UNCHANGED <<serverVars, idMap, others, paidOut, barredThere>>
    PROVE  Mirror'
<1>1. /\ Len(queue) \in Nat /\ DOMAIN queue = 1 .. Len(queue)
      /\ Len(book) \in Nat /\ DOMAIN book = 1 .. Len(book)
      /\ Len(spent) \in Nat /\ DOMAIN spent = 1 .. Len(spent) /\ Len(pots) \in Nat
      /\ Len(queue') \in Nat /\ DOMAIN queue' = 1 .. Len(queue')
      /\ Len(book') \in Nat /\ DOMAIN book' = 1 .. Len(book')
      /\ Len(spent') \in Nat /\ DOMAIN spent' = 1 .. Len(spent') /\ Len(pots') \in Nat
      /\ Len(ledger) \in Nat /\ DOMAIN ledger = 1 .. Len(ledger)
      /\ Len(paidOut) \in Nat /\ DOMAIN paidOut = 1 .. Len(paidOut) /\ Len(deposits) \in Nat
  <2>1. /\ queue \in Seq(OpRec) /\ book \in Seq(LineRec) /\ spent \in Seq(Expense) /\ pots \in Seq(Deposit)
        /\ queue' \in Seq(OpRec) /\ book' \in Seq(LineRec) /\ spent' \in Seq(Expense) /\ pots' \in Seq(Deposit)
        /\ paidOut \in Seq(Paid) /\ ledger \in Seq(Row) /\ deposits \in Seq(Deposit)
      BY DEF HisaabInv, PhoneInv, HisaabTypeOK, MoneyTypeOK, ServerTypeOK
  <2> QED BY <2>1
<1>2. /\ DOMAIN queue \subseteq DOMAIN queue' /\ DOMAIN book \subseteq DOMAIN book'
      /\ \A o \in DOMAIN queue : queue'[o] = queue[o]
      /\ \A o \in DOMAIN queue' : o \in DOMAIN queue \/ queue'[o].state = "pending"
      /\ \A i \in DOMAIN book : book'[i] = book[i]
      /\ \A e \in DOMAIN spent : spent'[e] = spent[e]
      /\ Len(queue) <= Len(queue') /\ Len(book) <= Len(book')
      /\ Len(spent) <= Len(spent') /\ Len(pots) <= Len(pots')
    BY <1>1 DEF Grown
<1>3. /\ ledger' = ledger /\ deposits' = deposits /\ call' = call
      /\ idMap' = idMap /\ paidOut' = paidOut /\ barredThere' = barredThere
    BY DEF serverVars
<1>4. /\ Len(ledger) <= Len(book) /\ Len(deposits) <= Len(pots) /\ Len(paidOut) <= Len(spent)
    BY DEF Mirror, Landed
<1>5. ASSUME NEW K, NEW n \in Nat, NEW m \in Nat,
             InOrder(Where(queue, K), n), InOrder(Where(queue', K), m),
             NEW o \in DOMAIN queue', o \notin DOMAIN queue, queue'[o].op \in K
      PROVE  queue'[o].line > n /\ queue'[o].line \in Nat
  <2> DEFINE f == Where(queue, K)  g == Where(queue', K)
  <2>1. DOMAIN f = {k \in DOMAIN queue : queue[k].op \in K} /\ \A k \in DOMAIN f : f[k] = queue[k].line
      BY WhereIs
  <2>2. DOMAIN g = {k \in DOMAIN queue' : queue'[k].op \in K} /\ \A k \in DOMAIN g : g[k] = queue'[k].line
      BY WhereIs
  <2>3. InOrder(f, n) /\ InOrder(g, m)
      BY <1>5
  <2> HIDE DEF f, g
  <2>4. /\ DOMAIN f \subseteq DOMAIN g /\ \A k \in DOMAIN f : g[k] = f[k]
        /\ o \in DOMAIN g /\ o \notin DOMAIN f /\ g[o] = queue'[o].line
      BY <1>2, <1>5, <2>1, <2>2
  <2> QED BY <2>3, <2>4, AddedComesAfter
<1>6. /\ InOrder(Where(queue, MoneyOps), Len(book)) /\ InOrder(Where(queue, ExpenseOps), Len(spent))
      /\ InOrder(PotAt(book), Len(pots))
    BY DEF PhoneInOrder, QueueInOrder, BookInOrder
<1>7. /\ InOrder(Where(queue', MoneyOps), Len(book')) /\ InOrder(Where(queue', ExpenseOps), Len(spent'))
      /\ InOrder(PotAt(book'), Len(pots'))
  <2>1. PhoneInOrder' => BookInOrder(book', pots') /\ QueueInOrder(queue', book', spent')
      BY DEF PhoneInOrder, BookInOrder, QueueInOrder, HeldTo, PotLines, Rows, Where, PotAt, InOrder
  <2> QED BY <2>1 DEF QueueInOrder, BookInOrder
<1>8. \A o \in DOMAIN queue' : o \notin DOMAIN queue /\ queue'[o].op \in MoneyOps =>
        queue'[o].line > Len(book) /\ queue'[o].line \in Nat
    BY <1>1, <1>5, <1>6, <1>7
<1>9. \A o \in DOMAIN queue' : o \notin DOMAIN queue /\ queue'[o].op \in ExpenseOps =>
        queue'[o].line > Len(spent) /\ queue'[o].line \in Nat
    BY <1>1, <1>5, <1>6, <1>7
<1>10. ASSUME NEW i \in DOMAIN book', i \notin DOMAIN book, book'[i].kind = "deposit_hold"
       PROVE  book'[i].deposit > Len(pots) /\ book'[i].deposit \in Nat
  <2> DEFINE f == PotAt(book)  g == PotAt(book')
  <2>1. DOMAIN f = {k \in DOMAIN book : book[k].kind = "deposit_hold"} /\ \A k \in DOMAIN f : f[k] = book[k].deposit
      BY PotAtIs
  <2>2. DOMAIN g = {k \in DOMAIN book' : book'[k].kind = "deposit_hold"}
        /\ \A k \in DOMAIN g : g[k] = book'[k].deposit
      BY PotAtIs
  <2>3. InOrder(f, Len(pots)) /\ InOrder(g, Len(pots')) /\ Len(pots) \in Nat /\ Len(pots') \in Nat
      BY <1>1, <1>6, <1>7
  <2> HIDE DEF f, g
  <2>4. /\ DOMAIN f \subseteq DOMAIN g /\ \A k \in DOMAIN f : g[k] = f[k]
        /\ i \in DOMAIN g /\ i \notin DOMAIN f /\ g[i] = book'[i].deposit
      BY <1>2, <1>10, <2>1, <2>2
  <2> QED BY <2>3, <2>4, AddedComesAfter
<1>11. InTurn'
  <2> SUFFICES ASSUME NEW o \in DOMAIN queue', NEW k \in DOMAIN queue', k < o,
                      queue'[o].state \in {"sent", "done"}
               PROVE  queue'[k].state = "done"
      BY DEF InTurn
  <2>1. o \in DOMAIN queue
      BY <1>2
  <2>2. k \in DOMAIN queue
      BY <1>1, <2>1
  <2> QED BY <1>2, <2>1, <2>2 DEF Mirror, InTurn
<1>12. Landed'
  <2>1. ASSUME NEW o \in DOMAIN queue', queue'[o].op \in MoneyOps
        PROVE  queue'[o].state = "done" <=> queue'[o].line <= Len(ledger')
    <3>1. CASE o \in DOMAIN queue
        BY <1>2, <1>3, <2>1, <3>1 DEF Mirror, Landed
    <3>2. CASE o \notin DOMAIN queue
      <4>1. queue'[o].state # "done"
          BY <1>2, <3>2
      <4>2. queue'[o].line > Len(book) /\ queue'[o].line \in Nat
          BY <1>8, <2>1, <3>2
      <4>3. ~ (queue'[o].line <= Len(ledger))
          BY <1>1, <1>4, <4>2
      <4> QED BY <1>3, <4>1, <4>3
    <3> QED BY <3>1, <3>2
  <2>2. ASSUME NEW o \in DOMAIN queue', queue'[o].op \in ExpenseOps
        PROVE  queue'[o].state = "done" <=> queue'[o].line <= Len(paidOut')
    <3>1. CASE o \in DOMAIN queue
        BY <1>2, <1>3, <2>2, <3>1 DEF Mirror, Landed
    <3>2. CASE o \notin DOMAIN queue
      <4>1. queue'[o].state # "done"
          BY <1>2, <3>2
      <4>2. queue'[o].line > Len(spent) /\ queue'[o].line \in Nat
          BY <1>9, <2>2, <3>2
      <4>3. ~ (queue'[o].line <= Len(paidOut))
          BY <1>1, <1>4, <4>2
      <4> QED BY <1>3, <4>1, <4>3
    <3> QED BY <3>1, <3>2
  <2>3. ASSUME NEW i \in DOMAIN book', book'[i].kind = "deposit_hold"
        PROVE  i <= Len(ledger') <=> book'[i].deposit <= Len(deposits')
    <3>1. CASE i \in DOMAIN book
        BY <1>2, <1>3, <2>3, <3>1 DEF Mirror, Landed
    <3>2. CASE i \notin DOMAIN book
      <4>1. ~ (i <= Len(ledger))
          BY <1>1, <1>4, <3>2
      <4>2. ~ (book'[i].deposit <= Len(deposits))
        <5>1. book'[i].deposit > Len(pots) /\ book'[i].deposit \in Nat
            BY <1>10, <2>3, <3>2
        <5> QED BY <1>1, <1>4, <5>1
      <4> QED BY <1>3, <4>1, <4>2
    <3> QED BY <3>1, <3>2
  <2>4. Len(ledger') <= Len(book') /\ Len(deposits') <= Len(pots') /\ Len(paidOut') <= Len(spent')
      BY <1>1, <1>2, <1>3, <1>4
  <2> QED BY <2>1, <2>2, <2>3, <2>4 DEF Landed
<1>13. SameRows'
  <2>1. DOMAIN ledger \subseteq DOMAIN book /\ DOMAIN paidOut \subseteq DOMAIN spent
      BY <1>1, <1>4
  <2>2. \A i \in DOMAIN ledger' : SameRow(ledger'[i], book'[i])
      BY <1>2, <1>3, <2>1 DEF Mirror, SameRows
  <2>3. \A e \in DOMAIN paidOut' : /\ paidOut'[e].amount = spent'[e].amount
                                   /\ paidOut'[e].reverses = spent'[e].reverses
      BY <1>2, <1>3, <2>1 DEF Mirror, SameRows
  <2> QED BY <2>2, <2>3 DEF SameRows, SameRow
<1>14. OpenCall'
  <2>1. ASSUME NEW o \in DOMAIN queue', queue'[o].state = "sent"
        PROVE  queue'[o].op \in MoneyOps /\ CallIs(call'[Phone], queue'[o], book'[queue'[o].line])
    <3>1. o \in DOMAIN queue /\ queue'[o] = queue[o]
        BY <1>2, <2>1
    <3>2. queue[o].op \in MoneyOps /\ CallIs(call[Phone], queue[o], book[queue[o].line])
        BY <2>1, <3>1 DEF Mirror, OpenCall
    <3>3. queue[o].line \in DOMAIN book
      <4>1. OpFits(o)
          BY <3>1 DEF HisaabInv, PhoneInv
      <4> QED BY <3>2, <4>1 DEF OpFits, MoneyOps
    <3> QED BY <1>2, <1>3, <3>1, <3>2, <3>3
  <2>2. call'[Other] = NoCall
      BY <1>3 DEF Mirror, OpenCall
  <2> QED BY <2>1, <2>2 DEF OpenCall, CallIs
<1>15. IdsTell'
    BY <1>3 DEF Mirror, IdsTell
<1>16. SwitchTells'
  <2>1. Bars(queue') \cap DoneOps' = Bars(queue) \cap DoneOps
      BY <1>2 DEF Bars, DoneOps
  <2>2. \A o \in Bars(queue) \cap DoneOps : queue'[o] = queue[o]
      BY <1>2 DEF Bars
  <2> QED BY <1>3, <2>1, <2>2 DEF Mirror, SwitchTells, LastSays, Bars, DoneOps
<1> QED BY <1>11, <1>12, <1>13, <1>14, <1>15, <1>16 DEF Mirror

-----------------------------------------------------------------------------
(* What was refused stays so, and the other desk's calls are never taken   *)
(* back: a clean story was clean before.                                   *)

LEMMA RefusalsStay ==
    ASSUME PhoneInv, Pipes
    PROVE  /\ \A o \in DOMAIN queue : queue[o].state = "failed" => queue'[o].state = "failed"
           /\ others \in Nat /\ others' \in {others, others + 1}
<1>1. others \in Nat
    BY MoneyBookAssumption DEF PhoneInv, HisaabTypeOK, MoneyTypeOK
<1> DEFINE Stay == \A o \in DOMAIN queue : queue[o].state = "failed" => queue'[o].state = "failed"
<1>2. UNCHANGED queue => Stay
    OBVIOUS
<1>3. ASSUME NEW k \in Pending, NEW s \in States, queue' = ToState({k}, s) PROVE Stay
  <2>1. \A o \in DOMAIN queue : queue'[o].state = IF o \in {k} THEN s ELSE queue[o].state
      BY <1>3, MarkedOps
  <2>2. queue[k].state # "failed"
      BY DEF Pending
  <2> QED BY <2>1, <2>2
<1>4. ASSUME NEW k, Park(k) PROVE Stay
  <2>1. \A o \in DOMAIN queue : queue'[o].state = IF o \in Subtree(k) THEN "failed" ELSE queue[o].state
      BY <1>4, MarkedOps DEF Park, States
  <2> QED BY <2>1
<1>5. Pending # {} => First \in Pending
    BY PendingIsIn DEF PhoneInv, HisaabTypeOK, MoneyTypeOK
<1>6. "sent" \in States /\ "done" \in States
    BY DEF States
<1> HIDE DEF Stay
<1>7. CASE UNCHANGED hisaabVars
    BY <1>1, <1>2, <1>7 DEF hisaabVars, vars, phoneVars, Stay
<1>8. CASE Send
    BY <1>1, <1>3, <1>5, <1>6, <1>8 DEF Send, Stay
<1>9. CASE Refused
    BY <1>1, <1>4, <1>9 DEF Refused, Stay
<1>10. CASE Answered
    BY <1>1, <1>3, <1>6, <1>10 DEF Answered, Stay
<1>11. CASE RolledBack
    BY <1>1, <1>4, <1>11 DEF RolledBack, Stay
<1>12. CASE AnsweredElsewhere
    BY <1>1, <1>3, <1>5, <1>6, <1>12 DEF AnsweredElsewhere, Stay
<1>13. CASE OtherBegins \/ OtherEnds
    BY <1>1, <1>2, <1>13 DEF OtherBegins, OtherEnds, phoneVars, Stay
<1>14. CASE ExpenseAnswered
    BY <1>1, <1>3, <1>4, <1>5, <1>6, <1>14 DEF ExpenseAnswered, ExpenseLands, Stay
<1>15. CASE BarLands
    BY <1>1, <1>3, <1>5, <1>6, <1>15 DEF BarLands, Stay
<1>16. CASE OtherReverses
    BY <1>1, <1>2, <1>16 DEF OtherReverses, phoneVars, Stay
<1> QED BY <1>7, <1>8, <1>9, <1>10, <1>11, <1>12, <1>13, <1>14, <1>15, <1>16 DEF Pipes

LEMMA CleanBefore ==
    ASSUME HisaabInv, HisaabInv', PhoneInOrder, [HisaabNext]_hisaabVars, Clean'
    PROVE  Clean
<1>1. CASE Acts
  <2>1. Grown /\ UNCHANGED others
      BY <1>1, ActsOrder DEF HisaabInv
  <2>2. DOMAIN queue \subseteq DOMAIN queue'
    <3>1. queue \in Seq(OpRec) /\ queue' \in Seq(OpRec)
        BY DEF HisaabInv, PhoneInv, HisaabTypeOK, MoneyTypeOK
    <3>2. /\ Len(queue) \in Nat /\ DOMAIN queue = 1 .. Len(queue)
          /\ Len(queue') \in Nat /\ DOMAIN queue' = 1 .. Len(queue')
        BY <3>1
    <3> QED BY <2>1, <3>2 DEF Grown
  <2> QED BY <2>1, <2>2 DEF Clean, Grown
<1>2. CASE Pipes
  <2>1. SameQueue
      BY <1>2, PipesMoveStates DEF HisaabInv
  <2>2. /\ \A o \in DOMAIN queue : queue[o].state = "failed" => queue'[o].state = "failed"
        /\ others \in Nat /\ others' \in {others, others + 1}
      BY <1>2, RefusalsStay DEF HisaabInv
  <2>3. others = 0
      BY <2>2 DEF Clean
  <2> QED BY <2>1, <2>2, <2>3 DEF Clean, SameQueue
<1> QED BY <1>1, <1>2, ActsOrPipes

LEMMA PipesMirror ==
    ASSUME HisaabInv, HisaabInv', ServerPots, PhoneInOrder, EachPot, Clean, Clean', Mirror, Pipes
    PROVE  Mirror'
<1>1. PhoneInv /\ others = 0 /\ others' = 0 /\ \A o \in DOMAIN queue' : queue'[o].state # "failed"
    BY DEF HisaabInv, Clean
<1>2. CASE UNCHANGED hisaabVars
  <2>1. UNCHANGED <<serverVars, book, pots, queue, idMap, others, spent, paidOut, barred, barredThere>>
      BY <1>2 DEF hisaabVars, vars, phoneVars, houseVars
  <2>2. UNCHANGED <<ledger, deposits, call>>
      BY <2>1 DEF serverVars
  <2> QED BY <2>1, <2>2 DEF Mirror, InTurn, Landed, SameRows, SameRow, OpenCall, CallIs, IdsTell,
                            SwitchTells, LastSays, Bars, DoneOps
<1>3. CASE Send /\ UNCHANGED houseVars
    BY <1>3, SendMirrors
<1>4. CASE Refused
  <2>1. First \in Pending /\ Park(First)
      BY <1>1, <1>4, PendingIsIn DEF Refused, PhoneInv, HisaabTypeOK, MoneyTypeOK
  <2> QED BY <1>1, <2>1, ParkedShows
<1>5. CASE Answered /\ UNCHANGED houseVars
    BY <1>5, AnsweredMirrors
<1>6. CASE RolledBack
    BY <1>1, <1>6, ParkedShows DEF RolledBack
<1>7. CASE AnsweredElsewhere /\ UNCHANGED houseVars
    BY <1>7, ElsewhereMirrors
<1>8. CASE OtherBegins \/ OtherReverses
    BY <1>1, <1>8 DEF OtherBegins, OtherReverses
<1>9. CASE OtherEnds
    BY <1>9 DEF OtherEnds, Commit, RollBack, Mirror, OpenCall
<1>10. CASE ExpenseAnswered
    BY <1>10, ExpenseMirrors
<1>11. CASE BarLands
    BY <1>11, BarMirrors
<1> QED BY <1>2, <1>3, <1>4, <1>5, <1>6, <1>7, <1>8, <1>9, <1>10, <1>11 DEF Pipes

BooksInv ==
    /\ HisaabInv /\ ServerPots /\ PhoneInOrder /\ EachPot
    /\ Clean => Mirror

LEMMA BooksStep == BooksInv /\ [HisaabNext]_hisaabVars => BooksInv'
<1> SUFFICES ASSUME BooksInv, [HisaabNext]_hisaabVars PROVE BooksInv'
    OBVIOUS
<1>1. HisaabInv /\ HisaabInv' /\ PhoneInOrder /\ ServerPots /\ EachPot
    BY HisaabStep DEF BooksInv
<1>2. PhoneInOrder'
    BY <1>1, PhoneStaysInOrder
<1>3. [ServerNext]_serverVars
    BY <1>1, HouseStepIsServerStep DEF HisaabInv
<1>4. ServerPots' /\ EachPot'
    BY <1>1, <1>3, ServerPotsKeep, EachPotKeeps DEF HisaabInv
<1>5. ASSUME Clean' PROVE Mirror'
  <2>1. Clean /\ Mirror
      BY <1>1, <1>5, CleanBefore DEF BooksInv
  <2>2. CASE Acts
    <3>1. Grown /\ UNCHANGED <<serverVars, idMap, others, paidOut, barredThere>>
        BY <1>1, <2>2, ActsOrder DEF HisaabInv
    <3> QED BY <1>1, <1>2, <2>1, <3>1, MirrorGrows
  <2>3. CASE Pipes
      BY <1>1, <1>5, <2>1, <2>3, PipesMirror
  <2> QED BY <2>2, <2>3, ActsOrPipes
<1> QED BY <1>1, <1>2, <1>4, <1>5 DEF BooksInv

LEMMA BooksStart == HisaabInit => BooksInv
<1> SUFFICES ASSUME HisaabInit PROVE BooksInv
    OBVIOUS
<1>1. HisaabInv /\ PhoneInOrder
    BY HisaabStarts, PhoneStartsInOrder
<1>2. /\ book = <<>> /\ pots = <<>> /\ ledger = <<>> /\ deposits = <<>> /\ spent = <<>> /\ paidOut = <<>>
      /\ call = [d \in Desks |-> NoCall] /\ barredThere = FALSE
    BY DEF HisaabInit, Init, ServerInit
<1>3. DOMAIN <<>> = {} /\ Len(<<>>) = 0
    BY NothingYet
<1>4. ServerPots /\ EachPot
  <2>1. Held(<<>>) = 0 /\ InPurses(<<>>) = 0
    <3>1. Potted(<<>>) = {}
        BY <1>3 DEF Potted
    <3> QED BY <1>3, <3>1, SumEmpty DEF Held, InPurses
  <2> QED BY <1>2, <1>3, <2>1 DEF ServerPots, EachPot, NoCall
<1>5. Mirror
  <2>1. PICK landed \in BOOLEAN :
          /\ idMap = [t \in Things |-> IF landed /\ t[1] \in {"customer", "job"} THEN 1 ELSE 0]
          /\ queue = <<[op |-> "create_customer", line |-> 0, job |-> NoJob, deposit |-> 0,
                        names |-> {<<Customer, "phone">>}, dep |-> 0,
                        state |-> IF landed THEN "done" ELSE "pending"]>>
      BY DEF HisaabInit, Init
  <2>2. DOMAIN queue = {1} /\ queue[1].op = "create_customer"
        /\ queue[1].state \in {"done", "pending"}
      BY <2>1
  <2>3. "create_customer" \notin MoneyOps /\ "create_customer" \notin ExpenseOps
        /\ "create_customer" \notin BarOps
      BY DEF MoneyOps, Verbs, ExpenseOps, BarOps
  <2>4. InTurn
      BY <2>2 DEF InTurn
  <2>5. Landed
      BY <1>2, <1>3, <2>2, <2>3 DEF Landed
  <2>6. SameRows
      BY <1>2, <1>3 DEF SameRows
  <2>7. OpenCall
      BY <1>2, <2>2, MoneyBookAssumption DEF OpenCall
  <2>8. IdsTell
    <3>1. \A i \in Lines : LineThing(i) \in Things /\ PotThing(i) \in Things
        BY ThingsAreNamed
    <3>2. \A i \in Lines : LineThing(i)[1] = "ledger_entry" /\ PotThing(i)[1] = "deposit"
        BY DEF LineThing, PotThing
    <3>3. \A i \in Lines : idMap[LineThing(i)] = 0 /\ idMap[PotThing(i)] = 0
        BY <2>1, <3>1, <3>2
    <3> QED BY <1>2, <1>3, <3>3 DEF IdsTell
  <2>9. SwitchTells
    <3>1. Bars(queue) \cap DoneOps = {}
        BY <2>2, <2>3 DEF Bars
    <3> QED BY <1>2, <3>1 DEF SwitchTells, LastSays
  <2> QED BY <2>4, <2>5, <2>6, <2>7, <2>8, <2>9 DEF Mirror
<1> QED BY <1>1, <1>4, <1>5 DEF BooksInv

-----------------------------------------------------------------------------
(* With everything landed the mirror is the whole of both books.           *)

LEMMA AllIsClean ==
    ASSUME BooksInv, AllLanded, others = 0
    PROVE  /\ Mirror /\ Bars(queue) \cap DoneOps = Bars(queue)
           /\ Len(ledger) = Len(book) /\ Len(paidOut) = Len(spent)
<1>1. Clean /\ Mirror
  <2>1. Clean
      BY DEF AllLanded, Clean
  <2> QED BY <2>1 DEF BooksInv
<1>2. Bars(queue) \cap DoneOps = Bars(queue)
    BY DEF AllLanded, Bars, DoneOps
<1>3. PICK m \in Nat, n \in Nat, r \in Nat, s \in Nat :
         m = Len(ledger) /\ n = Len(book) /\ r = Len(paidOut) /\ s = Len(spent)
  <2>1. Len(book) \in Nat /\ Len(paidOut) \in Nat /\ Len(spent) \in Nat /\ Len(ledger) \in Nat
      BY SeqFacts, LedgerIs DEF BooksInv, HisaabInv, PhoneInv, MoneyInv
  <2> QED BY <2>1
<1>4. m <= n /\ r <= s
    BY <1>1, <1>3 DEF Mirror, Landed
<1>5. n <= m
  <2>1. CASE n = 0
      BY <1>3, <2>1
  <2>2. CASE n \in 1 .. n
    <3>1. InOrder(Where(queue, MoneyOps), n)
        BY <1>3 DEF BooksInv, PhoneInOrder, QueueInOrder
    <3>2. PICK o \in DOMAIN Where(queue, MoneyOps) : Where(queue, MoneyOps)[o] = n
        BY <2>2, <3>1 DEF InOrder
    <3>3. o \in DOMAIN queue /\ queue[o].op \in MoneyOps /\ queue[o].line = n
      <4>1. /\ DOMAIN Where(queue, MoneyOps) = {k \in DOMAIN queue : queue[k].op \in MoneyOps}
            /\ \A k \in DOMAIN Where(queue, MoneyOps) : Where(queue, MoneyOps)[k] = queue[k].line
          BY WhereIs
      <4> QED BY <3>2, <4>1
    <3>4. queue[o].state = "done"
        BY <3>3 DEF AllLanded
    <3> QED BY <1>1, <1>3, <3>3, <3>4 DEF Mirror, Landed
  <2> QED BY <1>3, <2>1, <2>2
<1>6. s <= r
  <2>1. CASE s = 0
      BY <1>3, <2>1
  <2>2. CASE s \in 1 .. s
    <3>1. InOrder(Where(queue, ExpenseOps), s)
        BY <1>3 DEF BooksInv, PhoneInOrder, QueueInOrder
    <3>2. PICK o \in DOMAIN Where(queue, ExpenseOps) : Where(queue, ExpenseOps)[o] = s
        BY <2>2, <3>1 DEF InOrder
    <3>3. o \in DOMAIN queue /\ queue[o].op \in ExpenseOps /\ queue[o].line = s
      <4>1. /\ DOMAIN Where(queue, ExpenseOps) = {k \in DOMAIN queue : queue[k].op \in ExpenseOps}
            /\ \A k \in DOMAIN Where(queue, ExpenseOps) : Where(queue, ExpenseOps)[k] = queue[k].line
          BY WhereIs
      <4> QED BY <3>2, <4>1
    <3>4. queue[o].state = "done"
        BY <3>3 DEF AllLanded
    <3> QED BY <1>1, <1>3, <3>3, <3>4 DEF Mirror, Landed
  <2> QED BY <1>3, <2>1, <2>2
<1> QED BY <1>1, <1>2, <1>3, <1>4, <1>5, <1>6

LEMMA RowsEndTheSame ==
    ASSUME BooksInv, AllLanded, others = 0
    PROVE  /\ DOMAIN ledger = DOMAIN book
           /\ \A i \in DOMAIN book : /\ ledger[i].kind = book[i].kind /\ ledger[i].amount = book[i].amount
                                     /\ book[i].amount \in Int /\ book[i].kind \in EntryKinds \cup DepositKinds
                                     /\ ~ Corrected(i)
<1>1. Mirror /\ Len(ledger) = Len(book)
    BY AllIsClean
<1>2. /\ Len(book) \in Nat /\ DOMAIN book = 1 .. Len(book) /\ \A i \in DOMAIN book : book[i] \in LineRec
      /\ DOMAIN ledger = 1 .. Len(ledger)
    BY SeqFacts, LedgerIs DEF BooksInv, HisaabInv, PhoneInv, MoneyInv
<1>3. DOMAIN ledger = DOMAIN book
    BY <1>1, <1>2
<1>4. \A i \in DOMAIN ledger : /\ ledger[i].kind = book[i].kind /\ ledger[i].amount = book[i].amount
                               /\ ledger[i].corrects = 0
    BY <1>1 DEF Mirror, SameRows, SameRow
<1>5. \A i \in DOMAIN book : book[i].amount \in Int /\ book[i].kind \in EntryKinds \cup DepositKinds /\ i # 0
    BY <1>2 DEF LineRec
<1>6. \A i \in DOMAIN book : ~ Corrected(i)
    BY <1>4, <1>5 DEF Corrected
<1> QED BY <1>3, <1>4, <1>5, <1>6

LEMMA BalancesEndTheSame ==
    ASSUME BooksInv, AllLanded, others = 0
    PROVE  ServerBalance = Balance
<1>1. PhoneInv /\ ServerTypeOK
    BY DEF BooksInv, HisaabInv, MoneyInv
<1>2. /\ DOMAIN ledger = DOMAIN book
      /\ \A i \in DOMAIN book : /\ ledger[i].kind = book[i].kind /\ ledger[i].amount = book[i].amount
                                /\ book[i].amount \in Int /\ book[i].kind \in EntryKinds \cup DepositKinds
                                /\ ~ Corrected(i)
    BY RowsEndTheSame
<1> DEFINE Alive == {i \in DOMAIN ledger : ~ Corrected(i)}
           S == {i \in Alive : ledger[i].kind \in EntryKinds \cup {"deposit_apply"}}
<1>3. ServerBalance = (LET Moved(i) == ledger[i].amount IN SumOver(S, Moved))
    BY DEF ServerBalance
<1>4. S \in SUBSET (DOMAIN ledger) /\ S = Owed
  <2>1. S \in SUBSET (DOMAIN ledger)
      OBVIOUS
  <2>2. EntryKinds \cap DepositKinds = {} /\ "deposit_apply" \in DepositKinds
      BY DEF EntryKinds, DepositKinds, ChargeKinds
  <2>3. \A i \in DOMAIN book : Owing(i) <=> book[i].kind \in EntryKinds \cup {"deposit_apply"}
      BY <1>2, <2>2 DEF Owing, InPot
  <2>4. \A i : i \in S <=> i \in DOMAIN book /\ Owing(i)
      BY <1>2, <2>3
  <2>5. \A i : i \in Owed <=> i \in DOMAIN book /\ Owing(i)
      BY DEF Owed
  <2> HIDE DEF S
  <2> QED BY <2>1, <2>4, <2>5
<1> HIDE DEF S
<1>5. (LET Moved(i) == ledger[i].amount IN SumOver(S, Moved)) = SumFn(Rows(ledger), S)
    BY <1>1, <1>4, RowsMovedAreSummed
<1>6. SumFn(Coming, Owed) = SumFn(Rows(ledger), Owed)
  <2>1. Owed \in SUBSET (DOMAIN book)
      BY DEF Owed
  <2>2. IsFiniteSet(Owed) /\ \A i \in Owed : Coming[i] = book[i].amount /\ Coming[i] \in Int
      BY <1>1, <2>1, SumOverAmount
  <2>3. \A i \in Owed : Coming[i] = Rows(ledger)[i]
      BY <1>2, <2>1, <2>2 DEF Rows
  <2> QED BY <2>2, <2>3, SumCong
<1>7. Balance = SumFn(Coming, Owed)
    BY <1>1, OwedIsBalance
<1> QED BY <1>3, <1>4, <1>5, <1>6, <1>7

LEMMA PotsEndTheSame ==
    ASSUME BooksInv, AllLanded, others = 0
    PROVE  DepositHeldOf(DOMAIN book) =
             LET LeftOf(p) == IF deposits[p].refunded THEN 0 ELSE Left(p)
             IN  SumOver(DOMAIN deposits, LeftOf)
<1>1. PhoneInv /\ ServerTypeOK /\ Held(ledger) = InPurses(deposits)
    BY DEF BooksInv, HisaabInv, MoneyInv, ServerPots
<1>2. /\ DOMAIN ledger = DOMAIN book
      /\ \A i \in DOMAIN book : /\ ledger[i].kind = book[i].kind /\ ledger[i].amount = book[i].amount
                                /\ book[i].amount \in Int
    BY RowsEndTheSame
<1>3. DepositHeldOf(DOMAIN book) = Held(book)
  <2> DEFINE S == {i \in DOMAIN book : InPot(i)}
  <2>1. S \in SUBSET (DOMAIN book) /\ S = Potted(book) /\ Coming = Rows(book)
      BY DEF InPot, Potted, Coming, Rows
  <2>2. DepositHeldOf(DOMAIN book) = SumOver(S, Amount)
      BY DEF DepositHeldOf
  <2> HIDE DEF S
  <2>3. SumOver(S, Amount) = Held(book)
      BY <1>1, <2>1, SumOverAmount DEF Held
  <2> QED BY <2>2, <2>3
<1>4. Held(book) = Held(ledger)
  <2>1. Potted(book) \in SUBSET (DOMAIN book) /\ Coming = Rows(book)
      BY DEF Potted, Coming, Rows
  <2>2. IsFiniteSet(Potted(book)) /\ \A i \in Potted(book) : Rows(book)[i] \in Int
      BY <1>1, <2>1, SumOverAmount
  <2>3. \A i \in Potted(book) : Rows(book)[i] = Rows(ledger)[i]
      BY <1>2, <2>1 DEF Rows
  <2>4. Potted(ledger) = Potted(book)
      BY <1>2 DEF Potted
  <2>5. SumFn(Rows(book), Potted(book)) = SumFn(Rows(ledger), Potted(book))
      BY <2>2, <2>3, SumCong
  <2> QED BY <2>4, <2>5 DEF Held
<1>5. (LET LeftOf(p) == IF deposits[p].refunded THEN 0 ELSE Left(p)
       IN  SumOver(DOMAIN deposits, LeftOf)) = InPurses(deposits)
    BY <1>1, LeftIsSummed
<1> QED BY <1>1, <1>3, <1>4, <1>5

Paying == [e \in DOMAIN paidOut |-> paidOut[e].amount]

LEMMA PaidIsSum ==
    ASSUME PhoneInv, NEW S
    PROVE  LET L == Live(paidOut) \cap S
           IN  Total(paidOut, S) = SumFn(Paying, L)
<1> DEFINE L == Live(paidOut) \cap S
<1>1. IsFiniteSet(L) /\ \A x \in L : Paying[x] = paidOut[x].amount /\ Paying[x] \in Nat
  <2>1. Len(paidOut) \in Nat /\ DOMAIN paidOut = 1 .. Len(paidOut) /\ \A e \in DOMAIN paidOut : paidOut[e] \in Paid
      BY SeqFacts DEF PhoneInv, HisaabTypeOK
  <2>2. IsFiniteSet(DOMAIN paidOut) /\ L \subseteq DOMAIN paidOut
      BY <2>1, FS_Interval DEF Live
  <2>3. IsFiniteSet(L) /\ \A x \in L : paidOut[x].amount \in Nat
      BY <2>1, <2>2, FS_Subset DEF Paid
  <2> QED BY <2>2, <2>3 DEF Paying
<1> DEFINE Body(h, s) == IF s = {} THEN 0
                         ELSE paidOut[(CHOOSE x \in s : TRUE)].amount + h[s \ {CHOOSE x \in s : TRUE}]
           it == CHOOSE h : h = [s \in SUBSET L |-> Body(h, s)]
<1>2. Total(paidOut, S) = it[L]
    BY DEF SumOver, MapThenSumSet, MapThenFoldSet, Total
<1>3. \A h : \A s \in SUBSET L : Body(h, s) = SumStep(h, Paying, s)
    BY <1>1 DEF SumStep, AnyOf
<1> HIDE DEF L
<1>4. PICK g \in [SUBSET L -> Int] : IsSumTable(g, Paying, L)
  <2>1. \A x \in L : Paying[x] \in Int
      BY <1>1
  <2> QED BY <1>1, <2>1, SumTableExists
<1>5. g = [s \in SUBSET L |-> Body(g, s)]
  <2> HIDE DEF Body
  <2> QED BY <1>3, <1>4 DEF IsSumTable
<1>6. it = [s \in SUBSET L |-> Body(it, s)]
  <2> HIDE DEF Body
  <2> QED BY <1>5
<1> HIDE DEF it
<1>7. IsSumTable(it, Paying, L)
  <2> HIDE DEF Body
  <2> QED BY <1>3, <1>6 DEF IsSumTable
<1>8. SumFn(Paying, L) = it[L]
  <2>1. \A x \in L : Paying[x] \in Int
      BY <1>1
  <2> QED BY <1>1, <1>7, <2>1, SumIsTables
<1> QED BY <1>2, <1>8 DEF L

LEMMA ExpensesEndTheSame ==
    ASSUME BooksInv, AllLanded, others = 0
    PROVE  Total(paidOut, DOMAIN paidOut) = Total(spent, DOMAIN spent)
<1>1. PhoneInv /\ Mirror /\ Len(paidOut) = Len(spent)
    BY AllIsClean DEF BooksInv, HisaabInv
<1>2. DOMAIN paidOut = DOMAIN spent
    BY <1>1, SeqFacts DEF PhoneInv
<1>3. \A e \in DOMAIN spent : paidOut[e].amount = spent[e].amount /\ paidOut[e].reverses = spent[e].reverses
    BY <1>1, <1>2 DEF Mirror, SameRows
<1>4. Live(paidOut) = Live(spent)
    BY <1>2, <1>3 DEF Live
<1> DEFINE L == Live(spent) \cap DOMAIN spent
<1>5. IsFiniteSet(L) /\ L \subseteq DOMAIN spent /\ (\A x \in L : Spend[x] \in Nat)
      /\ Total(spent, DOMAIN spent) = SumFn(Spend, L)
    BY <1>1, TotalIsSum
<1>6. Total(paidOut, DOMAIN paidOut) = SumFn(Paying, L)
  <2>1. Total(paidOut, DOMAIN paidOut) = SumFn(Paying, Live(paidOut) \cap DOMAIN paidOut)
      BY <1>1, PaidIsSum
  <2> QED BY <1>2, <1>4, <2>1
<1> HIDE DEF L
<1>7. \A x \in L : Spend[x] = Paying[x] /\ Spend[x] \in Int
    BY <1>2, <1>3, <1>5 DEF Spend, Paying
<1>8. SumFn(Spend, L) = SumFn(Paying, L)
    BY <1>5, <1>7, SumCong
<1> QED BY <1>5, <1>6, <1>8

LEMMA SwitchesEndTheSame ==
    ASSUME BooksInv, AllLanded, others = 0
    PROVE  barredThere = barred
<1>1. /\ LastSays(queue, Bars(queue), barred) /\ LastSays(queue, Bars(queue), barredThere)
      /\ Len(queue) \in Nat /\ DOMAIN queue = 1 .. Len(queue)
  <2>1. Mirror /\ Bars(queue) \cap DoneOps = Bars(queue)
      BY AllIsClean
  <2>2. LastSays(queue, Bars(queue), barredThere)
      BY <2>1 DEF Mirror, SwitchTells
  <2>3. Len(queue) \in Nat /\ DOMAIN queue = 1 .. Len(queue)
      BY SeqFacts DEF BooksInv, HisaabInv, PhoneInv
  <2> QED BY <2>2, <2>3 DEF BooksInv, PhoneInOrder
<1>2. CASE Bars(queue) = {}
    BY <1>1, <1>2 DEF LastSays
<1>3. CASE Bars(queue) # {}
  <2>1. PICK n \in Nat : n = Len(queue)
      BY <1>1
  <2>2. Bars(queue) \in SUBSET (1 .. n)
      BY <1>1, <2>1 DEF Bars
  <2>3. Max(Bars(queue)) \in Bars(queue) /\ \A k \in Bars(queue) : k <= Max(Bars(queue))
      BY <1>3, <2>2, MaxIsIn
  <2>4. PICK o \in Bars(queue) : \A k \in Bars(queue) : k <= o
      BY <2>3
  <2>5. barred = (queue[o].op = "bar") /\ barredThere = (queue[o].op = "bar")
      BY <1>1, <2>4 DEF LastSays
  <2> QED BY <2>5
<1> QED BY <1>2, <1>3

LEMMA BooksEnd ==
    ASSUME BooksInv
    PROVE  HouseBooksAgree
<1>1. ASSUME AllLanded, others = 0
      PROVE  /\ ServerBalance = Balance
             /\ DepositHeldOf(DOMAIN book) =
                  LET LeftOf(p) == IF deposits[p].refunded THEN 0 ELSE Left(p)
                  IN  SumOver(DOMAIN deposits, LeftOf)
             /\ Total(paidOut, DOMAIN paidOut) = Total(spent, DOMAIN spent)
             /\ barredThere = barred
    BY <1>1, BalancesEndTheSame, PotsEndTheSame, ExpensesEndTheSame, SwitchesEndTheSame
<1> QED BY <1>1 DEF HouseBooksAgree, BooksAgree

(* With everything landed and nobody else at the books, the phone and the  *)
(* server have one account: the balance, the deposits held, the expenses   *)
(* and the do-not-rent switch are the same on both sides, whatever the     *)
(* counter did and in whatever order the answers came (khata.ts            *)
(* customerBalance, deposits.ts, kharcha.ts, customer.ts setBlacklisted,   *)
(* the replays of dispatch.ts).                                            *)
THEOREM BothBooksAgree == HisaabSpec => []HouseBooksAgree
<1>1. BooksInv => HouseBooksAgree
    BY BooksEnd
<1> QED BY BooksStart, BooksStep, <1>1, PTL DEF HisaabSpec

=============================================================================
