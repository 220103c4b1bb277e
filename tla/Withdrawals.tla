----------------------------- MODULE Withdrawals -----------------------------
(***************************************************************************)
(* On-chain withdrawals of one user's account: the request that locks the  *)
(* balance, the admin's approval or rejection, the signing queue and the   *)
(* passes of processSigningQueue that sign, broadcast and settle them.     *)
(*                                                                         *)
(* A pass is one call of processSigningQueue.  The server starts one every *)
(* five seconds without waiting for the last, and every node runs them, so *)
(* passes overlap: Workers are the passes that can be in flight at once.   *)
(* Each action is one transaction or one statement of a pass, or one call  *)
(* to the chain's node.                                                    *)
(*                                                                         *)
(* The account has two balance rows for the token, the row of the token's  *)
(* chain and the chain-less one.  A withdrawal's total is amount + fee,    *)
(* the quantity that is locked, debited and refunded.  Signing sets no     *)
(* nonce, so signing a withdrawal again gives the same transaction, and    *)
(* onChain is a set of withdrawals.  treasury_stage and the audit rows are *)
(* written but never read here, and are left out.                          *)
(***************************************************************************)
EXTENDS Integers

CONSTANTS
  Withdrawals, Workers,
  NoWorker, NoItem,
  MaxTotal,            \* bound on amount + fee
  InitialAvailable,    \* [Rows -> Nat], the balance before any withdrawal
  MaxAttempts          \* MAX_ATTEMPTS, and the column's default max_attempts

Rows == {"chain", "global"}
Totals == 1 .. MaxTotal

ASSUME WithdrawalConstants ==
  /\ NoWorker \notin Workers /\ NoItem \notin Withdrawals
  /\ MaxTotal \in Nat /\ MaxAttempts \in Nat \ {0}
  /\ InitialAvailable \in [Rows -> Nat]

VARIABLES
  status, total,              \* withdrawals.status, amount + fee
  enqueueing,                 \* committed as 'pending', enqueueWithdrawal to come
  queueStatus, attempts, signed,   \* withdrawal_signing_queue
  lock,                       \* the Redis lock withdrawal:sign:<id>
  pc, item, retry,            \* each pass: its next step, its row, isRetryBroadcast
  onChain,                    \* withdrawals whose transaction the node accepted
  available, locked,          \* user_balances of the two rows
  spent,                      \* total ever debited from each row
  rejected, refunded, debited \* withdrawals rejected, refunded, debited so far

requests == <<status, total, enqueueing>>
queue == <<queueStatus, attempts, signed>>
passes == <<pc, item, retry>>
balances == <<available, locked, spent>>
outcomes == <<rejected, refunded, debited>>
vars == <<requests, queue, lock, passes, onChain, balances, outcomes>>

Init ==
  /\ status = [w \in Withdrawals |-> "none"]
  /\ total = [w \in Withdrawals |-> 0]
  /\ enqueueing = {}
  /\ queueStatus = [w \in Withdrawals |-> "none"]
  /\ attempts = [w \in Withdrawals |-> 0]
  /\ signed = [w \in Withdrawals |-> FALSE]
  /\ lock = [w \in Withdrawals |-> NoWorker]
  /\ pc = [k \in Workers |-> "idle"]
  /\ item = [k \in Workers |-> NoItem]
  /\ retry = [k \in Workers |-> FALSE]
  /\ onChain = {}
  /\ available = InitialAvailable
  /\ locked = [r \in Rows |-> 0]
  /\ spent = [r \in Rows |-> 0]
  /\ rejected = {} /\ refunded = {} /\ debited = {}

-----------------------------------------------------------------------------
(* The request and the admin's decision. *)

\* The row to lock: the chain's when it holds enough, else the chain-less one.
LockRow(t) == IF available["chain"] >= t THEN "chain" ELSE "global"

\* POST /withdrawals: insert and lock in one transaction, then enqueue.
createWithdrawal(w, t, s) ==
  LET r == LockRow(t) IN
  /\ status[w] = "none"
  /\ available[r] >= t
  /\ status' = [status EXCEPT ![w] = s]
  /\ total' = [total EXCEPT ![w] = t]
  /\ available' = [available EXCEPT ![r] = @ - t]
  /\ locked' = [locked EXCEPT ![r] = @ + t]
  /\ enqueueing' = IF s = "pending" THEN enqueueing \union {w} ELSE enqueueing
  /\ UNCHANGED <<queue, lock, passes, onChain, spent, outcomes>>

approveWithdrawal(w) ==
  /\ status[w] = "pending_approval"
  /\ status' = [status EXCEPT ![w] = "pending"]
  /\ enqueueing' = enqueueing \union {w}
  /\ UNCHANGED <<total, queue, lock, passes, onChain, balances, outcomes>>

Unlock_KeepsLock(w) ==
  /\ locked["chain"] >= total[w]
  /\ available' = [available EXCEPT !["chain"] = @ + total[w]]
  /\ UNCHANGED <<locked, spent>>
  /\ refunded' = refunded \union {w}

\* Back from locked to available, on the row of the withdrawal's own chain_id.
Unlock(w) ==
  /\ locked["chain"] >= total[w]
  /\ available' = [available EXCEPT !["chain"] = @ + total[w]]
  /\ locked' = [locked EXCEPT !["chain"] = @ - total[w]]
  /\ spent' = spent
  /\ refunded' = refunded \union {w}

rejectWithdrawal_AfterApproval(w) ==
  /\ status[w] \in {"pending_approval", "pending"}
  /\ status' = [status EXCEPT ![w] = "failed"]
  /\ Unlock(w)
  /\ rejected' = rejected \union {w}
  /\ UNCHANGED <<total, enqueueing, queue, lock, passes, onChain, debited>>

rejectWithdrawal(w) ==
  /\ status[w] = "pending_approval"
  /\ status' = [status EXCEPT ![w] = "failed"]
  /\ Unlock(w)
  /\ rejected' = rejected \union {w}
  /\ UNCHANGED <<total, enqueueing, queue, lock, passes, onChain, debited>>

\* One queue row per withdrawal, or none when the chain has no hot wallet, a cap
\* refuses it, or the process dies between the commit and this call.
enqueueWithdrawal(w, accepted) ==
  /\ w \in enqueueing
  /\ enqueueing' = enqueueing \ {w}
  /\ queueStatus' = IF accepted /\ status[w] = "pending" /\ queueStatus[w] = "none"
                    THEN [queueStatus EXCEPT ![w] = "pending"] ELSE queueStatus
  /\ UNCHANGED <<status, total, attempts, signed, lock, passes, onChain,
                 balances, outcomes>>

-----------------------------------------------------------------------------
(* One pass of processSigningQueue. *)

Claimable(w) ==
  /\ queueStatus[w] = "pending" \/ (queueStatus[w] = "broadcast" /\ signed[w])
  /\ attempts[w] < MaxAttempts

\* The oldest claimable row not locked by another session; any claimable row here.
claim(k, w) ==
  /\ pc[k] = "idle"
  /\ Claimable(w)
  /\ queueStatus' = [queueStatus EXCEPT ![w] = "signing"]
  /\ attempts' = [attempts EXCEPT ![w] = @ + 1]
  /\ pc' = [pc EXCEPT ![k] = "claimed"]
  /\ item' = [item EXCEPT ![k] = w]
  /\ retry' = [retry EXCEPT ![k] = queueStatus[w] = "broadcast"]
  /\ UNCHANGED <<requests, signed, lock, onChain, balances, outcomes>>

Goto(k, step) == pc' = [pc EXCEPT ![k] = step] /\ UNCHANGED <<item, retry, lock>>

\* The pass returns; releaseLock deletes the lock only while it is its own.
EndPass(k) ==
  /\ pc' = [pc EXCEPT ![k] = "idle"]
  /\ item' = [item EXCEPT ![k] = NoItem]
  /\ retry' = [retry EXCEPT ![k] = FALSE]
  /\ lock' = IF lock[item[k]] = k THEN [lock EXCEPT ![item[k]] = NoWorker] ELSE lock

acquireLock(k) ==
  /\ pc[k] = "claimed"
  /\ lock[item[k]] = NoWorker
  /\ lock' = [lock EXCEPT ![item[k]] = k]
  /\ pc' = [pc EXCEPT ![k] = "held"]
  /\ UNCHANGED <<requests, queue, item, retry, onChain, balances, outcomes>>

\* The lock was still taken after the retries: the row goes back to 'pending'.
giveUpLock(k) ==
  /\ pc[k] = "claimed"
  /\ lock[item[k]] # NoWorker
  /\ queueStatus' = [queueStatus EXCEPT ![item[k]] = "pending"]
  /\ attempts' = [attempts EXCEPT ![item[k]] = IF @ > 0 THEN @ - 1 ELSE 0]
  /\ EndPass(k)
  /\ UNCHANGED <<requests, signed, onChain, balances, outcomes>>

\* Status, caps, token, chain and signer are read, on a retry as well, and each may
\* refuse.
checkWithdrawal(k, passed) ==
  /\ pc[k] = "held"
  /\ Goto(k, IF passed /\ status[item[k]] = "pending" THEN "checked" ELSE "failing")
  /\ UNCHANGED <<requests, queue, onChain, balances, outcomes>>

signTransaction_SavedLater(k, ok) ==
  LET w == item[k] IN
  /\ pc[k] = "checked"
  /\ \/ ok /\ Goto(k, "signed")
     \/ ~retry[k] /\ ~ok /\ Goto(k, "failing")
  /\ UNCHANGED <<requests, queue, onChain, balances, outcomes>>

\* A claimed 'broadcast' row is not signed again; any other one is.
signTransaction(k, ok) ==
  LET w == item[k] IN
  /\ pc[k] = "checked"
  /\ \/ /\ retry[k] /\ ok
        /\ Goto(k, "signed")
        /\ UNCHANGED queue
     \/ /\ ~retry[k] /\ ok
        /\ queueStatus' = [queueStatus EXCEPT ![w] = "broadcast"]
        /\ signed' = [signed EXCEPT ![w] = TRUE]
        /\ Goto(k, "signed")
        /\ UNCHANGED attempts
     \/ /\ ~retry[k] /\ ~ok
        /\ Goto(k, "failing")
        /\ UNCHANGED queue
  /\ UNCHANGED <<requests, onChain, balances, outcomes>>

\* The node may take the transaction or not, and the answer may be lost.
broadcastTransaction(k, accepted, answered) ==
  /\ pc[k] = "signed"
  /\ onChain' = IF accepted THEN onChain \union {item[k]} ELSE onChain
  /\ Goto(k, IF accepted /\ answered THEN "sent" ELSE "errored")
  /\ UNCHANGED <<requests, queue, balances, outcomes>>

broadcastFailed_NotCounted(k) ==
  LET w == item[k] IN
  /\ pc[k] = "errored"
  /\ \/ /\ attempts[w] >= MaxAttempts
        /\ Goto(k, "recovering")
        /\ UNCHANGED <<queueStatus, attempts>>
     \/ /\ attempts[w] < MaxAttempts
        /\ queueStatus' = [queueStatus EXCEPT ![w] = "broadcast"]
        /\ attempts' = [attempts EXCEPT ![w] = IF @ > 0 THEN @ - 1 ELSE 0]
        /\ EndPass(k)
  /\ UNCHANGED <<requests, signed, onChain, balances, outcomes>>

\* The broadcast threw: keep the row for a retry, or try to recover at the limit.
broadcastFailed(k) ==
  LET w == item[k] IN
  /\ pc[k] = "errored"
  /\ \/ /\ attempts[w] >= MaxAttempts
        /\ Goto(k, "recovering")
        /\ UNCHANGED queueStatus
     \/ /\ attempts[w] < MaxAttempts
        /\ queueStatus' = [queueStatus EXCEPT ![w] = "broadcast"]
        /\ EndPass(k)
  /\ UNCHANGED <<requests, attempts, signed, onChain, balances, outcomes>>

\* finishWithdrawalAfterSuccessfulBroadcast: nothing to do when it is already
\* completed, no effect when the chain's row holds too little locked balance.
finishWithdrawal(w) ==
  \/ /\ status[w] = "completed"
     /\ queueStatus' = [queueStatus EXCEPT ![w] = "completed"]
     /\ UNCHANGED <<status, locked, spent, debited>>
  \/ /\ status[w] # "completed" /\ locked["chain"] >= total[w]
     /\ queueStatus' = [queueStatus EXCEPT ![w] = "completed"]
     /\ status' = [status EXCEPT ![w] = "completed"]
     /\ locked' = [locked EXCEPT !["chain"] = @ - total[w]]
     /\ spent' = [spent EXCEPT !["chain"] = @ + total[w]]
     /\ debited' = debited \union {w}
  \/ /\ status[w] # "completed" /\ locked["chain"] < total[w]
     /\ UNCHANGED <<queueStatus, status, locked, spent, debited>>

completeSent(k) ==
  /\ pc[k] = "sent"
  /\ finishWithdrawal(item[k])
  /\ EndPass(k)
  /\ UNCHANGED <<total, enqueueing, attempts, signed, onChain, available,
                 rejected, refunded>>

recoverFound_Unseen(k) ==
  /\ pc[k] = "recovering"
  /\ \/ status[item[k]] = "completed" /\ UNCHANGED <<queueStatus, status, locked, spent, debited>>
     \/ status[item[k]] # "completed" /\ finishWithdrawal(item[k])
  /\ EndPass(k)
  /\ UNCHANGED <<total, enqueueing, attempts, signed, onChain, available,
                 rejected, refunded>>

\* tryCompleteWithdrawalIfTxAlreadyOnChain: the node knows the transaction.
recoverFound(k) ==
  /\ pc[k] = "recovering"
  /\ item[k] \in onChain
  /\ \/ status[item[k]] = "completed" /\ UNCHANGED <<queueStatus, status, locked, spent, debited>>
     \/ status[item[k]] # "completed" /\ finishWithdrawal(item[k])
  /\ EndPass(k)
  /\ UNCHANGED <<total, enqueueing, attempts, signed, onChain, available,
                 rejected, refunded>>

\* The node does not know it, or the lookup failed: markQueueFailed, no refund.
recoverUncertain(k) ==
  LET w == item[k] IN
  /\ pc[k] = "recovering"
  /\ queueStatus' = [queueStatus EXCEPT ![w] =
       IF attempts[w] >= MaxAttempts THEN "broadcast_uncertain" ELSE "pending"]
  /\ EndPass(k)
  /\ UNCHANGED <<requests, attempts, signed, onChain, balances, outcomes>>

\* markQueueFailed: back to 'pending', or at the limit fail and refund in three
\* statements: the queue row, the withdrawal row, the balance transaction.
markQueueFailed(k) ==
  LET w == item[k] IN
  /\ pc[k] = "failing"
  /\ \/ /\ attempts[w] < MaxAttempts
        /\ queueStatus' = [queueStatus EXCEPT ![w] = "pending"]
        /\ EndPass(k)
     \/ /\ attempts[w] >= MaxAttempts
        /\ queueStatus' = [queueStatus EXCEPT ![w] = "failed"]
        /\ Goto(k, "failed")
  /\ UNCHANGED <<requests, attempts, signed, onChain, balances, outcomes>>

failWithdrawal(k) ==
  /\ pc[k] = "failed"
  /\ status' = [status EXCEPT ![item[k]] = "failed"]
  /\ Goto(k, "refunding")
  /\ UNCHANGED <<total, enqueueing, queue, onChain, balances, outcomes>>

\* The refund throws, and changes nothing, when the row holds too little.
refundFailed(k) ==
  /\ pc[k] = "refunding"
  /\ \/ Unlock(item[k])
     \/ locked["chain"] < total[item[k]] /\ UNCHANGED <<balances, refunded>>
  /\ EndPass(k)
  /\ UNCHANGED <<requests, queue, onChain, rejected, debited>>

\* A pass dies with its process; its lock stays until the TTL.
crashPass(k) ==
  /\ pc[k] # "idle"
  /\ pc' = [pc EXCEPT ![k] = "idle"]
  /\ item' = [item EXCEPT ![k] = NoItem]
  /\ retry' = [retry EXCEPT ![k] = FALSE]
  /\ UNCHANGED <<requests, queue, lock, onChain, balances, outcomes>>

\* WITHDRAWAL_SIGN_LOCK_TTL_MS is over, whether or not its pass still runs.
lockExpires(w) ==
  /\ lock[w] # NoWorker
  /\ lock' = [lock EXCEPT ![w] = NoWorker]
  /\ UNCHANGED <<requests, queue, passes, onChain, balances, outcomes>>

-----------------------------------------------------------------------------
PassStep(k) ==
  \/ \E w \in Withdrawals : claim(k, w)
  \/ acquireLock(k)
  \/ giveUpLock(k)
  \/ \E passed \in BOOLEAN : checkWithdrawal(k, passed)
  \/ \E ok \in BOOLEAN : signTransaction(k, ok)
  \/ \E accepted, answered \in BOOLEAN : broadcastTransaction(k, accepted, answered)
  \/ broadcastFailed(k)
  \/ completeSent(k)
  \/ recoverFound(k)
  \/ recoverUncertain(k)
  \/ markQueueFailed(k)
  \/ failWithdrawal(k)
  \/ refundFailed(k)

Next ==
  \/ \E w \in Withdrawals :
       \/ \E t \in Totals, s \in {"pending_approval", "pending"} : createWithdrawal(w, t, s)
       \/ approveWithdrawal(w)
       \/ rejectWithdrawal(w)
       \/ \E accepted \in BOOLEAN : enqueueWithdrawal(w, accepted)
       \/ lockExpires(w)
  \/ \E k \in Workers : PassStep(k) \/ crashPass(k)

Spec == Init /\ [][Next]_vars

\* Passes keep being started by the interval, every awaited call returns, and Redis
\* drops a lock when its TTL is over.
FairSpec == /\ Spec
            /\ \A k \in Workers : WF_vars(PassStep(k))
            /\ \A w \in Withdrawals : WF_vars(lockExpires(w))
-----------------------------------------------------------------------------
(* What must hold. *)

\* Every column holds a value of its type; balances are never negative.
TypeOK ==
  /\ status \in [Withdrawals -> {"none", "pending_approval", "pending", "completed", "failed"}]
  /\ total \in [Withdrawals -> Nat]
  /\ enqueueing \subseteq Withdrawals
  /\ queueStatus \in [Withdrawals -> {"none", "pending", "signing", "broadcast",
                                      "completed", "failed", "broadcast_uncertain"}]
  /\ attempts \in [Withdrawals -> 0 .. MaxAttempts]
  /\ signed \in [Withdrawals -> BOOLEAN]
  /\ lock \in [Withdrawals -> Workers \union {NoWorker}]
  /\ pc \in [Workers -> {"idle", "claimed", "held", "checked", "signed", "sent", "errored",
                         "recovering", "failing", "failed", "refunding"}]
  /\ item \in [Workers -> Withdrawals \union {NoItem}]
  /\ retry \in [Workers -> BOOLEAN]
  /\ onChain \subseteq Withdrawals
  /\ available \in [Rows -> Nat] /\ locked \in [Rows -> Nat] /\ spent \in [Rows -> Nat]
  /\ rejected \subseteq Withdrawals
  /\ refunded \subseteq Withdrawals
  /\ debited \subseteq Withdrawals

\* Nothing is created or lost on a balance row: what is available, locked and
\* debited so far adds up to the balance before any withdrawal.
FundsConserved ==
  \A r \in Rows : available[r] + locked[r] + spent[r] = InitialAvailable[r]

\* A withdrawal an admin rejected never reaches the chain, however the approval,
\* the enqueue and the passes interleave (approveWithdrawal and rejectWithdrawal
\* both re-check the status under FOR UPDATE).
RejectedNeverSent == rejected \intersect onChain = {}

\* The completion transaction runs only for a transaction the node accepted:
\* nothing is debited for a transfer that never left.
DebitedWasSent == debited \subseteq onChain

\* Every transaction the node has accepted is stored in the queue row, whichever pass
\* sent it and whether or not it died: signed_tx_hex is saved before the broadcast, so
\* a retry or an operator can always look the transaction up by its hash.
SentIsStored == \A w \in onChain : signed[w]

\* A refunded withdrawal is not on the chain: the user is never paid twice
\* ("C2: never refund balance on broadcast RPC errors until chain proves tx absent").
RefundedNeverSent == refunded \intersect onChain = {}

\* Withdrawals that are not approved, or rejected, are outside the queue; a pass
\* works on a queued withdrawal, and only finishes one the node accepted.
QueueLinks ==
  /\ \A k \in Workers : pc[k] = "idle" => item[k] = NoItem
  /\ \A k \in Workers : pc[k] # "idle" =>
       item[k] \in Withdrawals /\ queueStatus[item[k]] # "none"
  /\ \A k \in Workers : pc[k] = "sent" => item[k] \in onChain
  /\ \A w \in rejected : status[w] = "failed"
  /\ \A w \in Withdrawals : status[w] \in {"none", "pending_approval"} \/ w \in rejected =>
       queueStatus[w] = "none" /\ w \notin enqueueing /\ w \notin onChain

\* What every configuration keeps: FundsConserved, DebitedWasSent and
\* RejectedNeverSent follow from it, and every step preserves it.
SafetyInv == TypeOK /\ FundsConserved /\ DebitedWasSent /\ QueueLinks

\* A pass that broadcasts, or that claimed a 'broadcast' row, works on a stored
\* transaction; with SafetyInv this makes SentIsStored inductive.
StoredLinks ==
  \A k \in Workers : /\ pc[k] = "idle" => ~retry[k]
                     /\ retry[k] \/ pc[k] = "signed" => signed[item[k]]

\* Retries come to an end: from some point on no pass claims the withdrawal and none
\* has it in hand, although a pass that finds the lock taken gives its attempt back
\* and passes may die holding the lock.
RetriesEnd ==
  \A w \in Withdrawals : <>[](~Claimable(w) /\ \A k \in Workers : item[k] # w)
=============================================================================
