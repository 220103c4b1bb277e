-------------------------- MODULE WithdrawalsProofs --------------------------
(***************************************************************************)
(* Proofs about Withdrawals: SafetyInv is inductive for every set of       *)
(* withdrawals and passes, whatever overlaps, dies or expires, and so is   *)
(* SentIsStored together with StoredLinks.                                 *)
(***************************************************************************)
EXTENDS Withdrawals, TLAPS

BalanceTypes == /\ available \in [Rows -> Nat] /\ locked \in [Rows -> Nat]
                /\ spent \in [Rows -> Nat]

\* A refund moves one total from locked to available on the chain's row.
LEMMA UnlockBalances ==
  ASSUME TypeOK, FundsConserved, NEW w \in Withdrawals, Unlock(w)
  PROVE  /\ BalanceTypes' /\ FundsConserved'
         /\ refunded' = refunded \union {w}
         /\ locked' = [locked EXCEPT !["chain"] = @ - total[w]]
         /\ locked["chain"] >= total[w]
<1>1. /\ available \in [Rows -> Nat] /\ locked \in [Rows -> Nat] /\ spent \in [Rows -> Nat]
      /\ total[w] \in Nat /\ InitialAvailable \in [Rows -> Nat]
  BY ZenonT(60), WithdrawalConstants DEF TypeOK
<1>2. /\ locked["chain"] >= total[w]
      /\ available' = [available EXCEPT !["chain"] = available["chain"] + total[w]]
      /\ locked' = [locked EXCEPT !["chain"] = locked["chain"] - total[w]]
      /\ spent' = spent /\ refunded' = refunded \union {w}
  BY ZenonT(60) DEF Unlock
<1>3. BalanceTypes'
  BY SMTT(60), Z3T(60), <1>1, <1>2 DEF BalanceTypes, Rows
<1>4. FundsConserved'
  BY SMTT(60), Z3T(60), <1>1, <1>2 DEF FundsConserved, Rows
<1> QED  BY ZenonT(60), <1>2, <1>3, <1>4

\* The completion transaction debits one total from the chain's row, or nothing.
LEMMA FinishBalances ==
  ASSUME TypeOK, FundsConserved, NEW w \in Withdrawals, finishWithdrawal(w),
         available' = available
  PROVE  /\ BalanceTypes' /\ FundsConserved'
         /\ status' \in {status, [status EXCEPT ![w] = "completed"]}
         /\ queueStatus' \in {queueStatus, [queueStatus EXCEPT ![w] = "completed"]}
         /\ debited' \in {debited, debited \union {w}}
<1>1. /\ available \in [Rows -> Nat] /\ locked \in [Rows -> Nat] /\ spent \in [Rows -> Nat]
      /\ total[w] \in Nat /\ InitialAvailable \in [Rows -> Nat]
  BY ZenonT(60), WithdrawalConstants DEF TypeOK
<1>2. CASE UNCHANGED <<locked, spent>>
  BY ZenonT(60), <1>1, <1>2 DEF finishWithdrawal, BalanceTypes, FundsConserved
<1>3. CASE /\ locked["chain"] >= total[w]
           /\ locked' = [locked EXCEPT !["chain"] = locked["chain"] - total[w]]
           /\ spent' = [spent EXCEPT !["chain"] = spent["chain"] + total[w]]
  <2>1. BalanceTypes'
    BY SMTT(60), Z3T(60), <1>1, <1>3 DEF BalanceTypes, Rows
  <2>2. FundsConserved'
    BY SMTT(60), Z3T(60), <1>1, <1>3 DEF FundsConserved, Rows
  <2> QED  BY ZenonT(60), <2>1, <2>2 DEF finishWithdrawal
<1> QED  BY ZenonT(60), <1>2, <1>3 DEF finishWithdrawal

\* The request moves one total from available to locked on one row.
LEMMA CreateBalances ==
  ASSUME TypeOK, FundsConserved, NEW w \in Withdrawals, NEW t \in Totals, NEW s,
         createWithdrawal(w, t, s)
  PROVE  /\ BalanceTypes' /\ FundsConserved'
         /\ LockRow(t) \in Rows /\ t \in Nat /\ t >= 1
<1>1. /\ available \in [Rows -> Nat] /\ locked \in [Rows -> Nat] /\ spent \in [Rows -> Nat]
      /\ t \in Nat /\ t >= 1 /\ InitialAvailable \in [Rows -> Nat]
  BY SMTT(60), Z3T(60), WithdrawalConstants DEF TypeOK, Totals
<1> DEFINE r == LockRow(t)
<1>2. r \in Rows
  BY ZenonT(60) DEF LockRow, Rows
<1>3. /\ available[r] >= t
      /\ available' = [available EXCEPT ![r] = available[r] - t]
      /\ locked' = [locked EXCEPT ![r] = locked[r] + t]
      /\ spent' = spent
  BY ZenonT(60) DEF createWithdrawal
<1> HIDE DEF r
<1>4. BalanceTypes'
  BY SMTT(60), Z3T(60), <1>1, <1>2, <1>3 DEF BalanceTypes
<1>5. FundsConserved'
  BY SMTT(60), Z3T(60), <1>1, <1>2, <1>3 DEF FundsConserved
<1> QED  BY ZenonT(60), <1>1, <1>2, <1>4, <1>5 DEF r

\* The steps that leave the balances and the outcomes alone.
LEMMA FundsUnchanged ==
  ASSUME TypeOK, FundsConserved, UNCHANGED balances
  PROVE  BalanceTypes' /\ FundsConserved'
BY ZenonT(60) DEF TypeOK, FundsConserved, BalanceTypes, balances

TypeOKRest ==
  /\ status \in [Withdrawals -> {"none", "pending_approval", "pending", "completed", "failed"}]
  /\ total \in [Withdrawals -> Nat]
  /\ enqueueing \subseteq Withdrawals
  /\ queueStatus \in [Withdrawals -> {"none", "pending", "signing", "broadcast",
                                      "completed", "failed", "broadcast_uncertain"}]
  /\ attempts \in [Withdrawals -> 0 .. MaxAttempts]
  /\ signed \in [Withdrawals -> BOOLEAN]
  /\ lock \in [Withdrawals -> Workers \union {NoWorker}]
  /\ pc \in [Workers -> {"idle", "claimed", "held", "checked", "signed", "sent", "errored",
                         "recovering", "failing", "failed", "refunding"}]
  /\ item \in [Workers -> Withdrawals \union {NoItem}]
  /\ retry \in [Workers -> BOOLEAN]
  /\ onChain \subseteq Withdrawals
  /\ rejected \subseteq Withdrawals
  /\ refunded \subseteq Withdrawals
  /\ debited \subseteq Withdrawals

PassTypes ==
  /\ lock \in [Withdrawals -> Workers \union {NoWorker}]
  /\ pc \in [Workers -> {"idle", "claimed", "held", "checked", "signed", "sent", "errored",
                         "recovering", "failing", "failed", "refunding"}]
  /\ item \in [Workers -> Withdrawals \union {NoItem}]
  /\ retry \in [Workers -> BOOLEAN]

QueueTypes ==
  /\ queueStatus \in [Withdrawals -> {"none", "pending", "signing", "broadcast",
                                      "completed", "failed", "broadcast_uncertain"}]
  /\ attempts \in [Withdrawals -> 0 .. MaxAttempts]
  /\ signed \in [Withdrawals -> BOOLEAN]

LEMMA TypeSplit == /\ TypeOK <=> TypeOKRest /\ BalanceTypes
                   /\ TypeOK' <=> TypeOKRest' /\ BalanceTypes'
BY ZenonT(60) DEF TypeOK, TypeOKRest, BalanceTypes

LEMMA GotoTypes ==
  ASSUME TypeOKRest, NEW k \in Workers,
         NEW step \in {"checked", "signed", "sent", "errored", "recovering", "failing",
                       "failed", "refunding"},
         Goto(k, step)
  PROVE  PassTypes'
BY ZenonT(60) DEF TypeOKRest, PassTypes, Goto

LEMMA EndPassTypes ==
  ASSUME TypeOKRest, NEW k \in Workers, item[k] \in Withdrawals, EndPass(k)
  PROVE  PassTypes'
<1>1. lock' \in [Withdrawals -> Workers \union {NoWorker}]
  BY ZenonT(60) DEF TypeOKRest, EndPass
<1> QED  BY ZenonT(60), <1>1 DEF TypeOKRest, PassTypes, EndPass

\* SafetyInv is preserved by the request, the decisions and the lock's TTL.
LEMMA RequestSteps ==
  ASSUME SafetyInv, NEW w \in Withdrawals
  PROVE  (\/ \E t \in Totals, s \in {"pending_approval", "pending"} : createWithdrawal(w, t, s)
          \/ approveWithdrawal(w)
          \/ rejectWithdrawal(w)
          \/ \E accepted \in BOOLEAN : enqueueWithdrawal(w, accepted)
          \/ lockExpires(w))
         => SafetyInv'
<1>0. /\ TypeOK /\ TypeOKRest /\ BalanceTypes
      /\ FundsConserved /\ DebitedWasSent /\ QueueLinks
  BY ZenonT(60), TypeSplit DEF SafetyInv
<1>1. ASSUME NEW t \in Totals, NEW s \in {"pending_approval", "pending"}, createWithdrawal(w, t, s)
      PROVE  SafetyInv'
  <2>1. BalanceTypes' /\ FundsConserved' /\ LockRow(t) \in Rows /\ t \in Nat
    BY ZenonT(60), <1>0, <1>1, CreateBalances
  <2>2. TypeOKRest'
    BY ZenonT(60), <1>0, <1>1, <2>1 DEF TypeOKRest, createWithdrawal, queue, passes, outcomes
  <2>3. DebitedWasSent' /\ QueueLinks'
    BY SMTT(60), Z3T(60), <1>0, <1>1 DEF TypeOKRest, DebitedWasSent, QueueLinks, createWithdrawal, queue, passes, outcomes
  <2> QED  BY ZenonT(60), <2>1, <2>2, <2>3, TypeSplit DEF SafetyInv
<1>2. ASSUME approveWithdrawal(w)
      PROVE  SafetyInv'
  <2>1. BalanceTypes' /\ FundsConserved'
    BY ZenonT(60), <1>0, <1>2, FundsUnchanged DEF approveWithdrawal
  <2>2. TypeOKRest'
    BY ZenonT(60), <1>0, <1>2 DEF TypeOKRest, approveWithdrawal, queue, passes, outcomes
  <2>3. DebitedWasSent' /\ QueueLinks'
    BY SMTT(60), Z3T(60), <1>0, <1>2 DEF TypeOKRest, DebitedWasSent, QueueLinks, approveWithdrawal, queue, passes, outcomes
  <2> QED  BY ZenonT(60), <2>1, <2>2, <2>3, TypeSplit DEF SafetyInv
<1>3. ASSUME rejectWithdrawal(w)
      PROVE  SafetyInv'
  <2>1. BalanceTypes' /\ FundsConserved' /\ refunded' = refunded \union {w}
    BY ZenonT(60), <1>0, <1>3, UnlockBalances DEF rejectWithdrawal
  <2>2. TypeOKRest'
    BY ZenonT(60), <1>0, <1>3, <2>1 DEF TypeOKRest, rejectWithdrawal, queue, passes
  <2>3. DebitedWasSent' /\ QueueLinks'
    BY SMTT(60), Z3T(60), <1>0, <1>3 DEF TypeOKRest, DebitedWasSent, QueueLinks, rejectWithdrawal, queue, passes
  <2> QED  BY ZenonT(60), <2>1, <2>2, <2>3, TypeSplit DEF SafetyInv
<1>4. ASSUME NEW accepted \in BOOLEAN, enqueueWithdrawal(w, accepted)
      PROVE  SafetyInv'
  <2>1. BalanceTypes' /\ FundsConserved'
    BY ZenonT(60), <1>0, <1>4, FundsUnchanged DEF enqueueWithdrawal
  <2>2. TypeOKRest'
    BY ZenonT(60), <1>0, <1>4 DEF TypeOKRest, enqueueWithdrawal, passes, outcomes
  <2>3. DebitedWasSent' /\ QueueLinks'
    BY SMTT(60), Z3T(60), <1>0, <1>4 DEF TypeOKRest, DebitedWasSent, QueueLinks, enqueueWithdrawal, passes, outcomes
  <2> QED  BY ZenonT(60), <2>1, <2>2, <2>3, TypeSplit DEF SafetyInv
<1>5. ASSUME lockExpires(w)
      PROVE  SafetyInv'
  <2>1. BalanceTypes' /\ FundsConserved'
    BY ZenonT(60), <1>0, <1>5, FundsUnchanged DEF lockExpires
  <2>2. TypeOKRest'
    BY ZenonT(60), <1>0, <1>5 DEF TypeOKRest, lockExpires, requests, queue, passes, outcomes
  <2>3. DebitedWasSent' /\ QueueLinks'
    BY ZenonT(60), <1>0, <1>5 DEF TypeOKRest, DebitedWasSent, QueueLinks, lockExpires, requests, queue, passes, outcomes
  <2> QED  BY ZenonT(60), <2>1, <2>2, <2>3, TypeSplit DEF SafetyInv
<1> QED  BY ZenonT(60), <1>1, <1>2, <1>3, <1>4, <1>5

\* SafetyInv is preserved by the steps of a pass that move no funds.
LEMMA QuietSteps ==
  ASSUME SafetyInv, NEW k \in Workers
  PROVE  (\/ \E w \in Withdrawals : claim(k, w)
          \/ acquireLock(k)
          \/ giveUpLock(k)
          \/ \E passed \in BOOLEAN : checkWithdrawal(k, passed)
          \/ \E ok \in BOOLEAN : signTransaction(k, ok)
          \/ \E accepted, answered \in BOOLEAN : broadcastTransaction(k, accepted, answered)
          \/ broadcastFailed(k)
          \/ recoverUncertain(k)
          \/ markQueueFailed(k)
          \/ failWithdrawal(k)
          \/ crashPass(k))
         => SafetyInv'
<1>0. /\ TypeOK /\ TypeOKRest /\ BalanceTypes
      /\ FundsConserved /\ DebitedWasSent /\ QueueLinks
  BY ZenonT(60), TypeSplit DEF SafetyInv
<1>a. NoItem \notin Withdrawals /\ MaxAttempts \in Nat
  BY ZenonT(60), <1>0, WithdrawalConstants
<1>1. ASSUME NEW w \in Withdrawals, claim(k, w)
      PROVE  SafetyInv'
  <2>1. BalanceTypes' /\ FundsConserved'
    BY ZenonT(60), <1>0, <1>1, FundsUnchanged DEF claim
  <2>2. TypeOKRest'
    BY SMTT(60), Z3T(60), <1>0, <1>a, <1>1 DEF TypeOKRest, claim, Claimable, requests, queue, passes,
       outcomes
  <2>3. DebitedWasSent' /\ QueueLinks'
    BY ZenonT(60), <1>0, <1>1 DEF TypeOKRest, DebitedWasSent, QueueLinks, claim, requests,
       passes, outcomes, Claimable
  <2> QED  BY ZenonT(60), <2>1, <2>2, <2>3, TypeSplit DEF SafetyInv
<1>2. ASSUME acquireLock(k)
      PROVE  SafetyInv'
  <2>1. BalanceTypes' /\ FundsConserved'
    BY ZenonT(60), <1>0, <1>2, FundsUnchanged DEF acquireLock
  <2>2. TypeOKRest'
    BY ZenonT(60), <1>0, <1>a, <1>2 DEF TypeOKRest, QueueLinks, acquireLock, requests, queue, passes, outcomes
  <2>3. DebitedWasSent' /\ QueueLinks'
    BY ZenonT(60), <1>0, <1>a, <1>2 DEF TypeOKRest, DebitedWasSent, QueueLinks, acquireLock,
       requests, queue, passes, outcomes
  <2> QED  BY ZenonT(60), <2>1, <2>2, <2>3, TypeSplit DEF SafetyInv
<1>3. ASSUME giveUpLock(k)
      PROVE  SafetyInv'
  <2>1. BalanceTypes' /\ FundsConserved'
    BY ZenonT(60), <1>0, <1>3, FundsUnchanged DEF giveUpLock
  <2>2. TypeOKRest'
    BY SMTT(60), Z3T(60), <1>0, <1>a, <1>3 DEF TypeOKRest, QueueLinks, giveUpLock, EndPass, requests,
       outcomes
  <2>3. DebitedWasSent' /\ QueueLinks'
    BY ZenonT(60), <1>0, <1>a, <1>3 DEF TypeOKRest, DebitedWasSent, QueueLinks, giveUpLock, EndPass, requests, queue, passes, outcomes
  <2> QED  BY ZenonT(60), <2>1, <2>2, <2>3, TypeSplit DEF SafetyInv
<1>4. ASSUME NEW passed \in BOOLEAN, checkWithdrawal(k, passed)
      PROVE  SafetyInv'
  <2>1. BalanceTypes' /\ FundsConserved'
    BY ZenonT(60), <1>0, <1>4, FundsUnchanged DEF checkWithdrawal
  <2>2. TypeOKRest'
    BY ZenonT(60), <1>0, <1>a, <1>4 DEF TypeOKRest, QueueLinks, checkWithdrawal, Goto, requests, queue, passes, outcomes
  <2>3. DebitedWasSent' /\ QueueLinks'
    BY ZenonT(60), <1>0, <1>a, <1>4 DEF TypeOKRest, DebitedWasSent, QueueLinks, checkWithdrawal, Goto, requests, queue, passes, outcomes
  <2> QED  BY ZenonT(60), <2>1, <2>2, <2>3, TypeSplit DEF SafetyInv
<1>5. ASSUME NEW ok \in BOOLEAN, signTransaction(k, ok)
      PROVE  SafetyInv'
  <2>1. BalanceTypes' /\ FundsConserved'
    BY ZenonT(60), <1>0, <1>5, FundsUnchanged DEF signTransaction
  <2>2. TypeOKRest'
    <3>1. PassTypes'
      BY ZenonT(60), <1>0, <1>5, GotoTypes DEF signTransaction
    <3>2. QueueTypes'
      <4>1. CASE UNCHANGED queue
        BY ZenonT(60), <1>0, <4>1 DEF TypeOKRest, QueueTypes, queue
      <4>2. CASE /\ queueStatus' = [queueStatus EXCEPT ![item[k]] = "broadcast"]
                 /\ signed' = [signed EXCEPT ![item[k]] = TRUE]
                 /\ attempts' = attempts
        BY ZenonT(60), <1>0, <4>2 DEF TypeOKRest, QueueTypes
      <4> QED  BY ZenonT(60), <1>0, <1>5, <4>1, <4>2 DEF signTransaction
    <3> QED
      BY ZenonT(60), <1>0, <1>5, <3>1, <3>2 DEF TypeOKRest, PassTypes, QueueTypes, signTransaction, requests, outcomes
  <2>3. DebitedWasSent' /\ QueueLinks'
    BY SMTT(60), Z3T(60), <1>0, <1>5 DEF TypeOKRest, DebitedWasSent, QueueLinks, signTransaction, Goto,
       requests, queue, outcomes
  <2> QED  BY ZenonT(60), <2>1, <2>2, <2>3, TypeSplit DEF SafetyInv
<1>6. ASSUME NEW accepted \in BOOLEAN, NEW answered \in BOOLEAN, broadcastTransaction(k, accepted, answered)
      PROVE  SafetyInv'
  <2>1. BalanceTypes' /\ FundsConserved'
    BY ZenonT(60), <1>0, <1>6, FundsUnchanged DEF broadcastTransaction
  <2>2. TypeOKRest'
    BY SMTT(60), Z3T(60), <1>0, <1>a, <1>6 DEF TypeOKRest, QueueLinks, broadcastTransaction, Goto,
       requests, queue, outcomes
  <2>3. DebitedWasSent' /\ QueueLinks'
    BY ZenonT(60), <1>0, <1>a, <1>6 DEF TypeOKRest, DebitedWasSent, QueueLinks, broadcastTransaction, Goto, requests, queue, passes, outcomes
  <2> QED  BY ZenonT(60), <2>1, <2>2, <2>3, TypeSplit DEF SafetyInv
<1>7. ASSUME broadcastFailed(k)
      PROVE  SafetyInv'
  <2>1. BalanceTypes' /\ FundsConserved'
    BY ZenonT(60), <1>0, <1>7, FundsUnchanged DEF broadcastFailed
  <2>2. TypeOKRest'
    <3>1. PassTypes'
      BY ZenonT(60), <1>0, <1>7, GotoTypes, EndPassTypes DEF QueueLinks, broadcastFailed
    <3>2. QueueTypes'
      BY ZenonT(60), <1>0, <1>a, <1>7 DEF TypeOKRest, QueueTypes, QueueLinks, broadcastFailed, Goto, EndPass, queue
    <3> QED
      BY ZenonT(60), <1>0, <1>7, <3>1, <3>2 DEF TypeOKRest, PassTypes, QueueTypes, broadcastFailed, requests, outcomes
  <2>3. DebitedWasSent' /\ QueueLinks'
    BY SMTT(60), Z3T(60), <1>0, <1>7 DEF TypeOKRest, DebitedWasSent, QueueLinks, broadcastFailed, Goto,
       EndPass, requests, queue, outcomes
  <2> QED  BY ZenonT(60), <2>1, <2>2, <2>3, TypeSplit DEF SafetyInv
<1>8. ASSUME recoverUncertain(k)
      PROVE  SafetyInv'
  <2>1. BalanceTypes' /\ FundsConserved'
    BY ZenonT(60), <1>0, <1>8, FundsUnchanged DEF recoverUncertain
  <2>2. TypeOKRest'
    BY ZenonT(60), <1>0, <1>a, <1>8 DEF TypeOKRest, QueueLinks, recoverUncertain, EndPass, requests, queue, passes, outcomes
  <2>3. DebitedWasSent' /\ QueueLinks'
    BY SMTT(60), Z3T(60), <1>0, <1>a, <1>8 DEF TypeOKRest, DebitedWasSent, QueueLinks, recoverUncertain,
       EndPass, requests, passes, outcomes
  <2> QED  BY ZenonT(60), <2>1, <2>2, <2>3, TypeSplit DEF SafetyInv
<1>9. ASSUME markQueueFailed(k)
      PROVE  SafetyInv'
  <2>1. BalanceTypes' /\ FundsConserved'
    BY ZenonT(60), <1>0, <1>9, FundsUnchanged DEF markQueueFailed
  <2>2. TypeOKRest'
    <3>1. PassTypes'
      BY ZenonT(60), <1>0, <1>9, GotoTypes, EndPassTypes DEF QueueLinks, markQueueFailed
    <3>2. QueueTypes'
      BY ZenonT(60), <1>0, <1>a, <1>9 DEF TypeOKRest, QueueTypes, QueueLinks, markQueueFailed, Goto, EndPass, queue
    <3> QED
      BY ZenonT(60), <1>0, <1>9, <3>1, <3>2 DEF TypeOKRest, PassTypes, QueueTypes, markQueueFailed, requests, outcomes
  <2>3. DebitedWasSent' /\ QueueLinks'
    BY SMTT(60), Z3T(60), <1>0, <1>9 DEF TypeOKRest, DebitedWasSent, QueueLinks, markQueueFailed, Goto,
       EndPass, requests, queue, outcomes
  <2> QED  BY ZenonT(60), <2>1, <2>2, <2>3, TypeSplit DEF SafetyInv
<1>10. ASSUME failWithdrawal(k)
       PROVE  SafetyInv'
  <2>1. BalanceTypes' /\ FundsConserved'
    BY ZenonT(60), <1>0, <1>10, FundsUnchanged DEF failWithdrawal
  <2>2. TypeOKRest'
    BY ZenonT(60), <1>0, <1>a, <1>10 DEF TypeOKRest, QueueLinks, failWithdrawal, Goto, requests, queue, passes, outcomes
  <2>3. DebitedWasSent' /\ QueueLinks'
    BY SMTT(60), Z3T(60), <1>0, <1>10 DEF TypeOKRest, DebitedWasSent, QueueLinks, failWithdrawal, Goto,
       queue, outcomes
  <2> QED  BY ZenonT(60), <2>1, <2>2, <2>3, TypeSplit DEF SafetyInv
<1>11. ASSUME crashPass(k)
       PROVE  SafetyInv'
  <2>1. BalanceTypes' /\ FundsConserved'
    BY ZenonT(60), <1>0, <1>11, FundsUnchanged DEF crashPass
  <2>2. TypeOKRest'
    BY ZenonT(60), <1>0, <1>a, <1>11 DEF TypeOKRest, QueueLinks, crashPass, requests, queue, passes, outcomes
  <2>3. DebitedWasSent' /\ QueueLinks'
    BY SMTT(60), Z3T(60), <1>0, <1>11 DEF TypeOKRest, DebitedWasSent, QueueLinks, crashPass, requests,
       queue, outcomes
  <2> QED  BY ZenonT(60), <2>1, <2>2, <2>3, TypeSplit DEF SafetyInv
<1> QED  BY ZenonT(60), <1>1, <1>2, <1>3, <1>4, <1>5, <1>6, <1>7, <1>8, <1>9, <1>10, <1>11

\* SafetyInv is preserved by the completion and the refund.
LEMMA SettleSteps ==
  ASSUME SafetyInv, NEW k \in Workers
  PROVE  (completeSent(k) \/ recoverFound(k) \/ refundFailed(k))
         => SafetyInv'
<1>s. SUFFICES ASSUME completeSent(k) \/ recoverFound(k) \/ refundFailed(k)
               PROVE  SafetyInv'
  BY ZenonT(60)
<1> DEFINE w == item[k]
<1>0. /\ TypeOK /\ TypeOKRest /\ BalanceTypes
      /\ FundsConserved /\ DebitedWasSent /\ QueueLinks
  BY ZenonT(60), TypeSplit DEF SafetyInv
<1>a. w \in Withdrawals /\ queueStatus[w] # "none" /\ w \notin rejected
      /\ status[w] \notin {"none", "pending_approval"}
  BY ZenonT(60), <1>0, <1>s DEF QueueLinks, completeSent, recoverFound, refundFailed
<1> HIDE DEF w
<1>1. ASSUME \/ pc[k] = "sent" /\ finishWithdrawal(w)
             \/ pc[k] = "recovering" /\ w \in onChain /\ finishWithdrawal(w)
             \/ /\ pc[k] = "recovering"
                /\ UNCHANGED <<queueStatus, status, locked, spent, debited>>,
             EndPass(k),
             UNCHANGED <<total, enqueueing, attempts, signed, onChain, available,
                         rejected, refunded>>
      PROVE  SafetyInv'
  <2>0. CASE UNCHANGED <<queueStatus, status, locked, spent, debited>>
    <3>1. BalanceTypes' /\ FundsConserved'
      BY ZenonT(60), <1>0, <1>1, <2>0, FundsUnchanged DEF balances
    <3>2. PassTypes'
      BY ZenonT(60), <1>0, <1>1, <1>a, EndPassTypes DEF w
    <3>3. TypeOKRest'
      BY ZenonT(60), <1>0, <1>1, <2>0, <3>2 DEF TypeOKRest, PassTypes
    <3>4. DebitedWasSent' /\ QueueLinks'
      BY ZenonT(60), <1>0, <1>1, <1>a, <2>0 DEF TypeOKRest, DebitedWasSent, QueueLinks, EndPass
    <3> QED  BY ZenonT(60), <3>1, <3>3, <3>4, TypeSplit DEF SafetyInv
  <2>1. CASE finishWithdrawal(w) /\ w \in onChain
    <3>1. /\ BalanceTypes' /\ FundsConserved'
          /\ status' \in {status, [status EXCEPT ![w] = "completed"]}
          /\ queueStatus' \in {queueStatus, [queueStatus EXCEPT ![w] = "completed"]}
          /\ debited' \in {debited, debited \union {w}}
      BY ZenonT(60), <1>0, <1>1, <1>a, <2>1, FinishBalances
    <3>2. PassTypes'
      BY ZenonT(60), <1>0, <1>1, <1>a, EndPassTypes DEF w
    <3>3. TypeOKRest'
      BY ZenonT(60), <1>0, <1>1, <1>a, <3>1, <3>2 DEF TypeOKRest, PassTypes
    <3>4. DebitedWasSent'
      BY ZenonT(60), <1>0, <1>1, <2>1, <3>1 DEF DebitedWasSent
    <3>5. QueueLinks'
      BY SMTT(60), Z3T(60), <1>0, <1>1, <1>a, <3>1 DEF TypeOKRest, QueueLinks, EndPass
    <3> QED  BY ZenonT(60), <3>1, <3>3, <3>4, <3>5, TypeSplit DEF SafetyInv
  <2> QED  BY ZenonT(60), <1>0, <1>1, <2>0, <2>1 DEF QueueLinks, w
<1>2. CASE completeSent(k)
  BY ZenonT(60), <1>1, <1>2 DEF completeSent, w
<1>3. CASE recoverFound(k)
  BY ZenonT(60), <1>1, <1>3 DEF recoverFound, w
<1>4. CASE refundFailed(k)
  <2>1. BalanceTypes' /\ FundsConserved' /\ refunded' \in {refunded, refunded \union {w}}
    BY ZenonT(60), <1>0, <1>4, <1>a, UnlockBalances, FundsUnchanged DEF refundFailed, w
  <2>2. PassTypes'
    BY ZenonT(60), <1>0, <1>4, <1>a, EndPassTypes DEF refundFailed, w
  <2>3. TypeOKRest'
    BY ZenonT(60), <1>0, <1>4, <1>a, <2>1, <2>2 DEF TypeOKRest, PassTypes, refundFailed, requests, queue
  <2>4. DebitedWasSent' /\ QueueLinks'
    BY ZenonT(60), <1>0, <1>4, <1>a DEF TypeOKRest, DebitedWasSent, QueueLinks, refundFailed, EndPass, requests, queue
  <2> QED  BY ZenonT(60), <2>1, <2>3, <2>4, TypeSplit DEF SafetyInv
<1> QED  BY ZenonT(60), <1>s, <1>2, <1>3, <1>4

\* The invariant of every configuration: types, conserved funds, no debit without
\* a transfer, and queue rows for approved withdrawals only.
THEOREM SafetyHolds == Spec => []SafetyInv
<1>1. Init => SafetyInv
  BY SMTT(60), Z3T(60), WithdrawalConstants DEF Init, SafetyInv, TypeOK, FundsConserved, DebitedWasSent, QueueLinks, Rows
<1>2. SafetyInv /\ [Next]_vars => SafetyInv'
  <2> SUFFICES ASSUME SafetyInv, [Next]_vars PROVE SafetyInv'
    BY ZenonT(60)
  <2>1. CASE UNCHANGED vars
    BY ZenonT(60), <2>1 DEF vars, requests, queue, passes, balances, outcomes, SafetyInv, TypeOK,
                FundsConserved, DebitedWasSent, QueueLinks
  <2>2. CASE Next
    BY ZenonT(60), <2>2, RequestSteps, QuietSteps, SettleSteps DEF Next, PassStep
  <2> QED  BY ZenonT(60), <2>1, <2>2
<1> QED  BY <1>1, <1>2, PTL DEF Spec

\* The balance rows of the account are conserved by every withdrawal history.
THEOREM FundsConservedHolds == Spec => []FundsConserved
<1>1. SafetyInv => FundsConserved  BY ZenonT(60) DEF SafetyInv
<1> QED  BY <1>1, SafetyHolds, PTL

\* Nothing is debited for a transfer the chain's node never accepted.
THEOREM DebitedWasSentHolds == Spec => []DebitedWasSent
<1>1. SafetyInv => DebitedWasSent  BY ZenonT(60) DEF SafetyInv
<1> QED  BY <1>1, SafetyHolds, PTL

\* No rejected withdrawal reaches the chain, whatever overlaps, crashes or expires.
THEOREM RejectedNeverSentHolds == Spec => []RejectedNeverSent
<1>1. SafetyInv => RejectedNeverSent
  BY ZenonT(60) DEF SafetyInv, TypeOK, QueueLinks, RejectedNeverSent
<1> QED  BY <1>1, SafetyHolds, PTL

-----------------------------------------------------------------------------
(* The signed transaction is stored before it is sent. *)

\* Only signTransaction writes signed_tx_hex, and it never clears it.
LEMMA SignedGrows ==
  ASSUME TypeOK, Next, NEW w \in Withdrawals, signed[w]
  PROVE  signed'[w]
<1>1. CASE \E v \in Withdrawals :
             \/ \E t \in Totals, s \in {"pending_approval", "pending"} : createWithdrawal(v, t, s)
             \/ approveWithdrawal(v)
             \/ rejectWithdrawal(v)
             \/ \E accepted \in BOOLEAN : enqueueWithdrawal(v, accepted)
             \/ lockExpires(v)
  BY ZenonT(60), <1>1 DEF createWithdrawal, approveWithdrawal, rejectWithdrawal,
     enqueueWithdrawal, lockExpires, queue
<1>2. ASSUME NEW k \in Workers, NEW ok \in BOOLEAN, signTransaction(k, ok)
      PROVE  signed'[w]
  BY SMTT(60), Z3T(60), <1>2 DEF TypeOK, signTransaction, queue
<1>3. ASSUME NEW k \in Workers,
             \/ \E v \in Withdrawals : claim(k, v)
             \/ acquireLock(k)
             \/ giveUpLock(k)
             \/ \E passed \in BOOLEAN : checkWithdrawal(k, passed)
             \/ \E accepted, answered \in BOOLEAN : broadcastTransaction(k, accepted, answered)
             \/ broadcastFailed(k) \/ completeSent(k) \/ recoverFound(k) \/ recoverUncertain(k)
             \/ markQueueFailed(k) \/ failWithdrawal(k) \/ refundFailed(k) \/ crashPass(k)
      PROVE  signed'[w]
  BY ZenonT(60), <1>3 DEF claim, acquireLock, giveUpLock, checkWithdrawal, broadcastTransaction,
     broadcastFailed, completeSent, recoverFound, recoverUncertain, markQueueFailed,
     failWithdrawal, refundFailed, crashPass, queue
<1> QED  BY ZenonT(60), <1>1, <1>2, <1>3 DEF Next, PassStep

\* What a pass does to its own program counter, other than claiming a row, signing and
\* broadcasting: it moves on with the same row, or it returns.
LEMMA PassMoves ==
  ASSUME NEW k \in Workers,
         \/ acquireLock(k)
         \/ giveUpLock(k)
         \/ \E passed \in BOOLEAN : checkWithdrawal(k, passed)
         \/ broadcastFailed(k) \/ completeSent(k) \/ recoverFound(k) \/ recoverUncertain(k)
         \/ markQueueFailed(k) \/ failWithdrawal(k) \/ refundFailed(k) \/ crashPass(k)
  PROVE  /\ onChain' = onChain
         /\ \/ /\ UNCHANGED <<item, retry>>
               /\ \E step \in {"held", "checked", "recovering", "failing", "failed", "refunding"} :
                    pc' = [pc EXCEPT ![k] = step]
            \/ /\ pc' = [pc EXCEPT ![k] = "idle"]
               /\ item' = [item EXCEPT ![k] = NoItem]
               /\ retry' = [retry EXCEPT ![k] = FALSE]
BY ZenonT(60) DEF acquireLock, giveUpLock, checkWithdrawal, broadcastFailed, completeSent,
   recoverFound, recoverUncertain, markQueueFailed, failWithdrawal, refundFailed, crashPass,
   Goto, EndPass

\* A transaction reaches the node only from a pass whose row stores it.
LEMMA StoredSteps ==
  ASSUME SafetyInv, SentIsStored, StoredLinks, Next
  PROVE  SentIsStored' /\ StoredLinks'
<1>0. /\ pc \in [Workers -> {"idle", "claimed", "held", "checked", "signed", "sent", "errored",
                              "recovering", "failing", "failed", "refunding"}]
      /\ item \in [Workers -> Withdrawals \union {NoItem}]
      /\ retry \in [Workers -> BOOLEAN]
      /\ signed \in [Withdrawals -> BOOLEAN]
      /\ onChain \subseteq Withdrawals
      /\ \A k \in Workers : pc[k] # "idle" => item[k] \in Withdrawals
  BY ZenonT(60) DEF SafetyInv, TypeOK, QueueLinks
<1>a. \A w \in Withdrawals : signed[w] => signed'[w]
  BY ZenonT(60), SignedGrows DEF SafetyInv
<1>b. onChain' = onChain => SentIsStored'
  BY ZenonT(60), <1>0, <1>a DEF SentIsStored
<1>1. ASSUME UNCHANGED <<passes, onChain>>
      PROVE  SentIsStored' /\ StoredLinks'
  BY ZenonT(60), <1>0, <1>a, <1>b, <1>1 DEF StoredLinks, passes
<1>2. ASSUME NEW k \in Workers, NEW w \in Withdrawals, claim(k, w)
      PROVE  SentIsStored' /\ StoredLinks'
  <2>1. /\ pc' = [pc EXCEPT ![k] = "claimed"] /\ item' = [item EXCEPT ![k] = w]
        /\ retry' = [retry EXCEPT ![k] = queueStatus[w] = "broadcast"]
        /\ onChain' = onChain /\ signed' = signed
        /\ queueStatus[w] = "broadcast" => signed[w]
    BY ZenonT(60), <1>2 DEF claim, Claimable
  <2>2. StoredLinks'
    BY ZenonT(60), <1>0, <2>1 DEF StoredLinks
  <2> QED  BY ZenonT(60), <1>b, <2>1, <2>2
<1>3. ASSUME NEW k \in Workers, NEW ok \in BOOLEAN, signTransaction(k, ok)
      PROVE  SentIsStored' /\ StoredLinks'
  <2>1. /\ pc[k] = "checked" /\ UNCHANGED <<item, retry, onChain>>
        /\ \/ pc' = [pc EXCEPT ![k] = "failing"]
           \/ pc' = [pc EXCEPT ![k] = "signed"] /\ (retry[k] \/ signed' = [signed EXCEPT ![item[k]] = TRUE])
    BY ZenonT(60), <1>3 DEF signTransaction, Goto
  <2>2. item[k] \in Withdrawals
    BY ZenonT(60), <1>0, <2>1
  <2>3. pc' = [pc EXCEPT ![k] = "signed"] => signed'[item[k]]
    BY SMTT(60), Z3T(60), <1>0, <1>a, <2>1, <2>2 DEF StoredLinks
  <2>4. StoredLinks'
    BY SMTT(60), Z3T(60), <1>0, <1>a, <2>1, <2>2, <2>3 DEF StoredLinks
  <2> QED  BY ZenonT(60), <1>b, <2>1, <2>4
<1>4. ASSUME NEW k \in Workers, NEW accepted \in BOOLEAN, NEW answered \in BOOLEAN,
             broadcastTransaction(k, accepted, answered)
      PROVE  SentIsStored' /\ StoredLinks'
  <2>1. /\ pc[k] = "signed" /\ UNCHANGED <<item, retry, signed>>
        /\ onChain' \subseteq onChain \union {item[k]}
        /\ pc' = [pc EXCEPT ![k] = IF accepted /\ answered THEN "sent" ELSE "errored"]
    BY ZenonT(60), <1>4 DEF broadcastTransaction, Goto, queue
  <2>2. SentIsStored'
    BY ZenonT(60), <1>0, <2>1 DEF SentIsStored, StoredLinks
  <2>3. StoredLinks'
    BY SMTT(60), Z3T(60), <1>0, <2>1 DEF StoredLinks
  <2> QED  BY ZenonT(60), <2>2, <2>3
<1>5. ASSUME NEW k \in Workers,
             \/ acquireLock(k)
             \/ giveUpLock(k)
             \/ \E passed \in BOOLEAN : checkWithdrawal(k, passed)
             \/ broadcastFailed(k) \/ completeSent(k) \/ recoverFound(k) \/ recoverUncertain(k)
             \/ markQueueFailed(k) \/ failWithdrawal(k) \/ refundFailed(k) \/ crashPass(k)
      PROVE  SentIsStored' /\ StoredLinks'
  <2>1. /\ onChain' = onChain
        /\ \/ /\ UNCHANGED <<item, retry>>
              /\ \E step \in {"held", "checked", "recovering", "failing", "failed", "refunding"} :
                   pc' = [pc EXCEPT ![k] = step]
           \/ /\ pc' = [pc EXCEPT ![k] = "idle"]
              /\ item' = [item EXCEPT ![k] = NoItem]
              /\ retry' = [retry EXCEPT ![k] = FALSE]
    BY ZenonT(60), <1>5, PassMoves
  <2>2. \A l \in Workers : retry[l] \/ pc[l] = "signed" => item[l] \in Withdrawals
    BY ZenonT(60), <1>0 DEF StoredLinks
  <2>3. StoredLinks'
    <3>1. CASE UNCHANGED <<item, retry>>
      <4>1. PICK step \in {"held", "checked", "recovering", "failing", "failed", "refunding", "idle"} :
              pc' = [pc EXCEPT ![k] = step]
        BY ZenonT(60), <2>1
      <4>2. \A l \in Workers : l # k => pc'[l] = pc[l]
        BY ZenonT(60), <1>0, <4>1
      <4>3. pc'[k] = step /\ pc'[k] # "signed"
        BY ZenonT(60), <1>0, <4>1
      <4>4. pc'[k] = "idle" => ~retry'[k]
        BY ZenonT(60), <1>0, <2>1, <4>3
      <4> QED  BY ZenonT(60), <1>a, <2>2, <3>1, <4>2, <4>3, <4>4 DEF StoredLinks
    <3>2. CASE /\ pc' = [pc EXCEPT ![k] = "idle"]
               /\ item' = [item EXCEPT ![k] = NoItem]
               /\ retry' = [retry EXCEPT ![k] = FALSE]
      <4>1. \A l \in Workers : l # k => pc'[l] = pc[l] /\ item'[l] = item[l] /\ retry'[l] = retry[l]
        BY ZenonT(60), <1>0, <3>2
      <4>2. pc'[k] = "idle" /\ ~retry'[k]
        BY ZenonT(60), <1>0, <3>2
      <4> QED  BY ZenonT(60), <1>a, <2>2, <4>1, <4>2 DEF StoredLinks
    <3> QED  BY ZenonT(60), <2>1, <3>1, <3>2
  <2> QED  BY ZenonT(60), <1>b, <2>1, <2>3
<1>6. CASE \E v \in Withdrawals :
             \/ \E t \in Totals, s \in {"pending_approval", "pending"} : createWithdrawal(v, t, s)
             \/ approveWithdrawal(v)
             \/ rejectWithdrawal(v)
             \/ \E accepted \in BOOLEAN : enqueueWithdrawal(v, accepted)
             \/ lockExpires(v)
  <2>1. UNCHANGED <<passes, onChain>>
    BY ZenonT(60), <1>6 DEF createWithdrawal, approveWithdrawal, rejectWithdrawal,
       enqueueWithdrawal, lockExpires
  <2> QED  BY ZenonT(60), <1>1, <2>1
<1> QED  BY ZenonT(60), <1>2, <1>3, <1>4, <1>5, <1>6 DEF Next, PassStep

\* Every transaction the node has accepted is stored in its queue row
\* (processSigningQueueClaimed saves signed_tx_hex before it broadcasts), whatever
\* overlaps, dies or expires.
THEOREM SentIsStoredHolds == Spec => []SentIsStored
<1>1. Init => SentIsStored /\ StoredLinks
  BY ZenonT(60) DEF Init, SentIsStored, StoredLinks
<1>2. SafetyInv /\ SentIsStored /\ StoredLinks /\ [Next]_vars => SentIsStored' /\ StoredLinks'
  <2>1. UNCHANGED vars /\ SentIsStored /\ StoredLinks => SentIsStored' /\ StoredLinks'
    BY ZenonT(60) DEF vars, queue, passes, SentIsStored, StoredLinks
  <2> QED  BY ZenonT(60), <2>1, StoredSteps
<1> QED  BY <1>1, <1>2, SafetyHolds, PTL DEF Spec
=============================================================================
