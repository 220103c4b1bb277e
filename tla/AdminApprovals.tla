--------------------------- MODULE AdminApprovals ---------------------------
(***************************************************************************)
(* The maker-checker requests of the back office, with                     *)
(* MAKER_CHECKER_ENABLED: an admin asks for an action, other admins        *)
(* approve or reject it, the last approval executes it, and an operator    *)
(* may retry the execution or force it in a break-glass session.           *)
(* (admin-approval.service, maker-checker-execute.service, the             *)
(* approval-requests routes, approveWithdrawal.)                           *)
(*                                                                         *)
(* The service reads the request's row without a lock, decides, and writes *)
(* the row by its id alone, so calls are processes: each await between two *)
(* statements is a step boundary, a statement or transaction is one step.  *)
(* A call carries the row it read.  The direct approval and credit routes  *)
(* refuse to work while the maker-checker is enabled.  Audit entries,      *)
(* treasury_stage and the attempt counters are left out.                   *)
(***************************************************************************)
EXTENDS Integers, Sequences, FiniteSets

CONSTANTS
  Requests, Admins, Withdrawals,
  Makers,         \* admins with the permission to create requests
  SuperAdmins,    \* admins who may open a break-glass session
  Thresholds,     \* the required_approvals a request may be created with
  Kinds,          \* the action types in use
  Checkers,       \* pairs (maker, checker) the roles of a global action's policy admit
  Calls,          \* handler calls in progress at the same time
  MaxEffects,     \* bound on how often one request's action is carried out
  NoWithdrawal, NoRequest, NoAdmin

Executable == {"withdrawal_approve", "manual_credit", "global_control_action"}

ASSUME ApprovalConstants ==
  /\ IsFiniteSet(Admins) /\ Makers \subseteq Admins /\ SuperAdmins \subseteq Admins
  /\ Thresholds \subseteq Nat
  /\ Kinds \subseteq Executable \union {"system_config_change"}
  /\ Checkers \subseteq Admins \X Admins
  /\ MaxEffects \in Nat
  /\ NoWithdrawal \notin Withdrawals /\ NoRequest \notin Requests
  /\ NoAdmin \notin Admins

VARIABLES
  row,          \* admin_approval_requests
  age,          \* a request's age: before maker_unlock_at, open, or overdue
  withdrawal,   \* status of the withdrawals the requests are about
  deposited,    \* requests whose tx_hash is a deposit credited by the indexer
  locked,       \* withdrawals whose Redis execution lock exists
  call,         \* the calls in progress
  applied,      \* how often each request's credit or control action took place
  consent,      \* history: the admins whose approval of a request was stored,
  forced,       \*   the requests a break-glass session approved,
  disturbed     \*   the requests on which calls overlapped or the flag's write failed

table == <<row, age>>
outside == <<withdrawal, deposited, applied>>
history == <<consent, forced, disturbed>>
vars == <<table, outside, locked, call, history>>

Statuses == {"unused", "pending", "approved", "rejected", "expired"}

Rows ==
  [kind : Kinds \union {"none"}, maker : Admins \union {NoAdmin},
   target : Withdrawals \union {NoWithdrawal}, required : Nat,
   status : Statuses, approvals : Nat, approvers : Seq(Admins),
   executed : BOOLEAN]

NoRow ==
  [kind |-> "none", maker |-> NoAdmin, target |-> NoWithdrawal, required |-> 0,
   status |-> "unused", approvals |-> 0, approvers |-> <<>>, executed |-> FALSE]

\* withdrawals.status once it was approved; a rejected one is 'failed' too, with
\* rejected_by set, and is called "rejected" here.
Approved == {"pending", "completed", "failed"}

Stages ==
  {"idle", "update", "expire", "reject", "force", "reload", "execute", "peek",
   "transact", "enqueue", "record", "catch"}

CallStates ==
  [at : Stages, op : {"none", "approve", "reject", "retry", "break_glass"},
   req : Requests \union {NoRequest}, admin : Admins \union {NoAdmin},
   seen : Rows, holds : BOOLEAN]

NoCall ==
  [at |-> "idle", op |-> "none", req |-> NoRequest, admin |-> NoAdmin,
   seen |-> NoRow, holds |-> FALSE]

TypeOK ==
  /\ row \in [Requests -> Rows]
  /\ age \in [Requests -> {"locked", "open", "overdue"}]
  /\ withdrawal \in
       [Withdrawals -> Approved \union {"pending_approval", "rejected"}]
  /\ deposited \subseteq Requests /\ locked \subseteq Withdrawals
  /\ call \in [Calls -> CallStates]
  /\ applied \in [Requests -> Nat]
  /\ consent \in [Requests -> SUBSET Admins]
  /\ forced \subseteq Requests /\ disturbed \subseteq Requests

Init ==
  /\ row = [r \in Requests |-> NoRow]
  /\ age = [r \in Requests |-> "open"]
  /\ withdrawal = [w \in Withdrawals |-> "pending_approval"]
  /\ deposited = {} /\ locked = {}
  /\ call = [c \in Calls |-> NoCall]
  /\ applied = [r \in Requests |-> 0]
  /\ consent = [r \in Requests |-> {}]
  /\ forced = {} /\ disturbed = {}

Names(approvers, a) == \E i \in DOMAIN approvers : approvers[i] = a

-----------------------------------------------------------------------------
(* Requests, and time.                                                     *)

createRequest(r, a) ==
  /\ a \in Makers
  /\ row[r].status = "unused"
  /\ \E k \in Kinds, n \in Thresholds, w \in Withdrawals \union {NoWithdrawal} :
       /\ k = "withdrawal_approve" <=> w # NoWithdrawal
       /\ row' = [row EXCEPT ![r] =
                    [kind |-> k, maker |-> a, target |-> w, required |-> n,
                     status |-> "pending", approvals |-> 0, approvers |-> <<>>,
                     executed |-> FALSE]]
       /\ age' = [age EXCEPT ![r] =
                    IF k \in {"withdrawal_approve", "manual_credit"}
                    THEN "locked" ELSE "open"]
  /\ UNCHANGED <<outside, locked, call, history>>

grow(r) ==
  /\ row[r].status # "unused"
  /\ \/ age[r] = "locked" /\ age' = [age EXCEPT ![r] = "open"]
     \/ age[r] = "open" /\ age' = [age EXCEPT ![r] = "overdue"]
  /\ UNCHANGED <<row, outside, locked, call, history>>

On(r) == {c \in Calls : call[c].req = r}

expireStalePending ==
  LET stale == {r \in Requests : row[r].status = "pending" /\ age[r] = "overdue"}
  IN /\ stale # {}
     /\ row' = [r \in Requests |->
                  IF r \in stale THEN [row[r] EXCEPT !.status = "expired"] ELSE row[r]]
     /\ disturbed' = disturbed \union {r \in stale : On(r) # {}}
     /\ UNCHANGED <<age, outside, locked, call, consent, forced>>

-----------------------------------------------------------------------------
(* The calls: first the SELECT with the checks on the row it returns.      *)

begin(c, r, a, op, stage) ==
  /\ call[c].at = "idle"
  /\ call' = [call EXCEPT ![c] =
                [at |-> stage, op |-> op, req |-> r, admin |-> a,
                 seen |-> row[r], holds |-> FALSE]]
  /\ disturbed' = IF On(r) = {} THEN disturbed ELSE disturbed \union {r}
  /\ UNCHANGED <<table, outside, locked, consent, forced>>

mayApprove_twice(r, a) ==
  /\ a # row[r].maker
  /\ age[r] # "locked"
  /\ row[r].kind = "global_control_action" => <<row[r].maker, a>> \in Checkers

mayApprove(r, a) ==
  /\ a # row[r].maker
  /\ age[r] # "locked"
  /\ ~Names(row[r].approvers, a)
  /\ row[r].kind = "global_control_action" => <<row[r].maker, a>> \in Checkers

approveRequest(c, r, a) ==
  /\ row[r].status = "pending"
  /\ \/ age[r] = "overdue" /\ begin(c, r, a, "approve", "expire")
     \/ age[r] # "overdue" /\ mayApprove(r, a) /\ begin(c, r, a, "approve", "update")

rejectRequest(c, r) ==
  /\ row[r].status = "pending"
  /\ begin(c, r, NoAdmin, "reject", "reject")

retryExecution(c, r) ==
  /\ row[r].status = "approved"
  /\ begin(c, r, NoAdmin, "retry", "execute")

breakGlassExecute(c, r, a) ==
  /\ a \in SuperAdmins
  /\ row[r].status \in {"pending", "approved"}
  /\ begin(c, r, a, "break_glass", "force")

-----------------------------------------------------------------------------
(* Then the writes, each from the row the call has seen.                   *)

ends(c) == call' = [call EXCEPT ![c] = NoCall]

\* The execution lock is released before approveWithdrawal returns or throws.
goes(c, stage) ==
  call' = [call EXCEPT ![c].at = stage, ![c].holds = @ /\ stage = "enqueue"]

\* admin_approval_no_self_approve, the trigger on every write.
noSelfApproval(new) == ~Names(new.approvers, new.maker)

approvedRow(r, seen, a) ==
  LET n == seen.approvals + 1
  IN [row[r] EXCEPT !.approvals = n, !.approvers = Append(seen.approvers, a),
                    !.status = IF n >= seen.required THEN "approved" ELSE "pending"]

storeApproval(c) ==
  LET r == call[c].req
      new == approvedRow(r, call[c].seen, call[c].admin)
  IN /\ call[c].at = "update"
     /\ noSelfApproval(new)
     /\ row' = [row EXCEPT ![r] = new]
     /\ consent' = [consent EXCEPT ![r] = @ \union {call[c].admin}]
     /\ IF new.status = "approved" /\ new.kind \in Executable
        THEN call' = [call EXCEPT ![c].at = "execute", ![c].seen = new]
        ELSE ends(c)
     /\ UNCHANGED <<age, outside, locked, forced, disturbed>>

storeStatus(c, stage, status) ==
  /\ call[c].at = stage
  /\ row' = [row EXCEPT ![call[c].req].status = status]
  /\ ends(c)
  /\ UNCHANGED <<age, outside, locked, history>>

withActor(approvers, a) ==
  IF Names(approvers, a) THEN approvers ELSE Append(approvers, a)

forcedRow(r, seen, a) ==
  [row[r] EXCEPT !.status = "approved", !.approvers = withActor(seen.approvers, a),
                 !.approvals = IF @ > row[r].required THEN @ ELSE row[r].required]

storeForced(c) ==
  LET r == call[c].req
      new == forcedRow(r, call[c].seen, call[c].admin)
  IN /\ call[c].at = "force"
     /\ \/ /\ call[c].seen.status = "approved"
           /\ goes(c, "reload") /\ UNCHANGED <<row, forced>>
        \/ /\ call[c].seen.status # "approved" /\ noSelfApproval(new)
           /\ row' = [row EXCEPT ![r] = new]
           /\ forced' = forced \union {r}
           /\ goes(c, "reload")
        \/ /\ call[c].seen.status # "approved" /\ ~noSelfApproval(new)
           /\ ends(c) /\ UNCHANGED <<row, forced>>
     /\ UNCHANGED <<age, outside, locked, consent, disturbed>>

reload(c) ==
  /\ call[c].at = "reload"
  /\ call' = [call EXCEPT ![c].seen = row[call[c].req], ![c].at = "execute"]
  /\ UNCHANGED <<table, outside, locked, history>>

-----------------------------------------------------------------------------
(* executeMakerCheckerIfFullyApproved on the row the call has seen.        *)

\* An error: approveRequest catches it and writes the flag, the other routes answer 500.
throws(c) == IF call[c].op = "approve" THEN goes(c, "catch") ELSE ends(c)

unlock(c) ==
  locked' = IF call[c].holds THEN locked \ {call[c].seen.target} ELSE locked

executable_again(seen) == seen.status = "approved"

\* The trigger keeps the maker out of approved_by, so lastAp is never the maker.
executable(seen) == seen.status = "approved" /\ ~seen.executed

nothingToExecute(c) ==
  /\ call[c].at = "execute"
  /\ ~executable(call[c].seen) \/ call[c].seen.kind \notin Executable
  /\ ends(c)
  /\ UNCHANGED <<table, outside, locked, history>>

executeCredit(c) ==
  LET r == call[c].req
  IN /\ call[c].at = "execute" /\ executable(call[c].seen)
     /\ call[c].seen.kind \in {"manual_credit", "global_control_action"}
     /\ \/ /\ call[c].seen.kind = "manual_credit" /\ r \in deposited
           /\ UNCHANGED applied
        \/ /\ call[c].seen.kind = "manual_credit" => r \notin deposited
           /\ applied[r] < MaxEffects
           /\ applied' = [applied EXCEPT ![r] = @ + 1]
     /\ goes(c, "record")
     /\ UNCHANGED <<table, withdrawal, deposited, locked, history>>

\* setNxEx of the execution lock; a Redis error is logged and the lock skipped.
lockWithdrawal(c) ==
  LET w == call[c].seen.target
  IN /\ call[c].at = "execute" /\ executable(call[c].seen)
     /\ call[c].seen.kind = "withdrawal_approve"
     /\ \/ /\ w \notin locked /\ locked' = locked \union {w}
           /\ call' = [call EXCEPT ![c].at = "transact", ![c].holds = TRUE]
        \/ /\ w \in locked /\ goes(c, "peek") /\ UNCHANGED locked
        \/ goes(c, "transact") /\ UNCHANGED locked
     /\ UNCHANGED <<table, outside, history>>

peek_any(c) ==
  /\ call[c].at = "peek"
  /\ IF withdrawal[call[c].seen.target] \in {"pending", "pending_approval"}
     THEN goes(c, "record") ELSE throws(c)
  /\ UNCHANGED <<table, outside, locked, history>>

peek(c) ==
  /\ call[c].at = "peek"
  /\ IF withdrawal[call[c].seen.target] = "pending" THEN goes(c, "record") ELSE throws(c)
  /\ UNCHANGED <<table, outside, locked, history>>

approveWithdrawal(c) ==
  LET w == call[c].seen.target
  IN /\ call[c].at = "transact"
     /\ \/ /\ withdrawal[w] = "pending_approval"
           /\ withdrawal' = [withdrawal EXCEPT ![w] = "pending"]
           /\ goes(c, "enqueue") /\ UNCHANGED locked
        \/ /\ withdrawal[w] # "pending_approval"
           /\ throws(c) /\ unlock(c) /\ UNCHANGED withdrawal
     /\ UNCHANGED <<table, deposited, applied, history>>

\* A hot wallet cap is an error; any other refusal to enqueue is only logged.
enqueueWithdrawal(c) ==
  /\ call[c].at = "enqueue"
  /\ goes(c, "record") \/ throws(c)
  /\ unlock(c)
  /\ UNCHANGED <<table, outside, history>>

recordExecuted(c) ==
  /\ call[c].at = "record"
  /\ row' = [row EXCEPT ![call[c].req].executed = TRUE]
  /\ ends(c)
  /\ UNCHANGED <<age, outside, locked, history>>

recordFailed(c) ==
  /\ call[c].at = "catch"
  /\ row' = [row EXCEPT ![call[c].req].executed = FALSE]
  /\ ends(c)
  /\ UNCHANGED <<age, outside, locked, history>>

-----------------------------------------------------------------------------
(* Faults and the rest of the system.                                      *)

\* A statement fails, or the payload is refused.  What an approval executes is
\* in a try block; only a lost action_executed = TRUE leaves an effect unmarked.
statementFails(c) ==
  /\ call[c].at # "idle"
  /\ IF call[c].at \in {"execute", "peek", "transact", "enqueue", "record"}
     THEN throws(c) ELSE ends(c)
  /\ unlock(c)
  /\ disturbed' = disturbed \union {r \in {call[c].req} : call[c].at = "record"}
  /\ UNCHANGED <<table, outside, consent, forced>>

crash ==
  /\ \E c \in Calls : call[c].at # "idle"
  /\ call' = [c \in Calls |-> NoCall]
  /\ disturbed' = disturbed \union {call[c].req : c \in {d \in Calls : call[d].at = "record"}}
  /\ UNCHANGED <<table, outside, locked, consent, forced>>

lockExpires(w) ==
  /\ w \in locked /\ locked' = locked \ {w}
  /\ UNCHANGED <<table, outside, call, history>>

rejectWithdrawal(w) ==
  /\ withdrawal[w] = "pending_approval"
  /\ withdrawal' = [withdrawal EXCEPT ![w] = "rejected"]
  /\ UNCHANGED <<table, deposited, applied, locked, call, history>>

\* The signing worker ends an approved withdrawal; of passes that overlap the
\* last one decides (module Withdrawals).
finishWithdrawal(w) ==
  /\ withdrawal[w] \in {"pending", "failed"}
  /\ withdrawal' = [withdrawal EXCEPT ![w] = "completed"]
  /\ UNCHANGED <<table, deposited, applied, locked, call, history>>

failWithdrawal(w) ==
  /\ withdrawal[w] \in {"pending", "completed"}
  /\ withdrawal' = [withdrawal EXCEPT ![w] = "failed"]
  /\ UNCHANGED <<table, deposited, applied, locked, call, history>>

\* The deposit a manual credit is about is credited (module Deposits, which also has
\* the tracker that marks a credited one failed; that is left out here).
depositCredited(r) ==
  /\ row[r].kind = "manual_credit" /\ r \notin deposited
  /\ deposited' = deposited \union {r}
  /\ UNCHANGED <<table, withdrawal, applied, locked, call, history>>

callStep(c) ==
  \/ storeApproval(c)
  \/ storeStatus(c, "expire", "expired")
  \/ storeStatus(c, "reject", "rejected")
  \/ storeForced(c)
  \/ reload(c)
  \/ nothingToExecute(c)
  \/ executeCredit(c)
  \/ lockWithdrawal(c)
  \/ peek(c)
  \/ approveWithdrawal(c)
  \/ enqueueWithdrawal(c)
  \/ recordExecuted(c)
  \/ recordFailed(c)
  \/ statementFails(c)

Next ==
  \/ \E r \in Requests, a \in Admins : createRequest(r, a)
  \/ \E r \in Requests : grow(r) \/ depositCredited(r)
  \/ expireStalePending
  \/ \E c \in Calls, r \in Requests :
       \/ \E a \in Admins : approveRequest(c, r, a) \/ breakGlassExecute(c, r, a)
       \/ rejectRequest(c, r)
       \/ retryExecution(c, r)
  \/ \E c \in Calls : callStep(c)
  \/ crash
  \/ \E w \in Withdrawals :
       \/ lockExpires(w) \/ rejectWithdrawal(w)
       \/ finishWithdrawal(w) \/ failWithdrawal(w)

Spec == Init /\ [][Next]_vars

-----------------------------------------------------------------------------
Quorate(r) ==
  r \in forced \/ Cardinality(consent[r] \ {row[r].maker}) >= row[r].required

(* approveRequest writes count and list from a read without a lock, and    *)
(* late writes overwrite newer ones; still, no credit, control action or   *)
(* withdrawal approval happens unless the required number of admins other  *)
(* than the maker approved that request, or a break-glass session did.     *)
QuorumBehindEffect ==
  /\ \A r \in Requests : applied[r] > 0 => Quorate(r)
  /\ \A w \in Withdrawals : withdrawal[w] \in Approved =>
       \E r \in Requests : row[r].target = w /\ Quorate(r)

Done(r) ==
  \/ applied[r] > 0
  \/ r \in deposited
  \/ /\ row[r].target # NoWithdrawal
     /\ withdrawal[row[r].target] \in Approved

(* action_executed = TRUE is the truth, whatever overlaps: the credit was  *)
(* applied or the deposit credited by the indexer, or the withdrawal was   *)
(* approved, if only by the call that held the execution lock.             *)
ExecutedMeansDone == \A r \in Requests : row[r].executed => Done(r)

(* On a request whose calls came one after the other, and on which no      *)
(* action_executed = TRUE was lost, that flag keeps a retry or a           *)
(* break-glass session from a second credit, a rejected or expired request *)
(* has no effect, and an effect has left its mark on the row.              *)
UndisturbedRequestRunsOnce ==
  \A r \in Requests \ disturbed :
    /\ applied[r] <= 1
    /\ row[r].status \in {"rejected", "expired"} => applied[r] = 0
    /\ applied[r] > 0 /\ On(r) = {} => row[r].executed

-----------------------------------------------------------------------------
(* What makes them inductive: a row, and each copy a call has read, names  *)
(* as many different admins as it counts, all of whom did approve.         *)

Justified(x, approving) ==
  /\ x.approvals = Len(x.approvers)
  /\ \A i, j \in DOMAIN x.approvers : i # j => x.approvers[i] # x.approvers[j]
  /\ \A i \in DOMAIN x.approvers : x.approvers[i] \in approving \ {x.maker}
  /\ x.status = "approved" => x.approvals >= x.required

Backed(r, x) == r \in forced \/ Justified(x, consent[r])

SameRequest(x, y) ==
  /\ x.kind = y.kind /\ x.maker = y.maker
  /\ x.target = y.target /\ x.required = y.required

RowInv(r) ==
  /\ row[r].status = "unused" => row[r] = NoRow /\ applied[r] = 0
  /\ row[r].kind = "withdrawal_approve" <=> row[r].target # NoWithdrawal
  /\ Backed(r, row[r])

CallInv(c) ==
  LET r == call[c].req
  IN /\ r \in Requests /\ row[r].status # "unused"
     /\ SameRequest(call[c].seen, row[r]) /\ Backed(r, call[c].seen)
     /\ call[c].at \in {"update", "force"} => call[c].admin \in Admins
     /\ call[c].at = "update" =>
          /\ call[c].admin # call[c].seen.maker
          /\ ~Names(call[c].seen.approvers, call[c].admin)
     /\ call[c].at \in {"peek", "transact", "enqueue", "record"} => Quorate(r)
     /\ call[c].at \in {"peek", "transact", "enqueue"} =>
          call[c].seen.kind = "withdrawal_approve"
     /\ call[c].at \in {"enqueue", "record"} => Done(r)

(* A stale copy of a request's row is as well backed as the row itself, so *)
(* whichever call writes last, count, list and effect stay justified.      *)
ApprovalInv ==
  /\ TypeOK
  /\ \A r \in Requests : RowInv(r)
  /\ \A c \in Calls : call[c].at # "idle" => CallInv(c)
  /\ QuorumBehindEffect
  /\ ExecutedMeansDone

\* What the one call on an undisturbed request knows of it.
Current(c) ==
  LET r == call[c].req
  IN /\ call[c].at # "reload" => call[c].seen = row[r]
     /\ call[c].at \in {"update", "expire", "reject"} => row[r].status = "pending"
     /\ call[c].op = "approve" /\ call[c].at # "record" => applied[r] = 0
     /\ call[c].at = "catch" => call[c].op = "approve"

Serial(r) ==
  /\ \A c, d \in On(r) : c = d
  /\ \A c \in On(r) : Current(c)
  /\ applied[r] <= 1
  /\ applied[r] > 0 =>
       /\ row[r].status = "approved"
       /\ row[r].executed \/ \E c \in On(r) : call[c].at = "record"

(* While a request is undisturbed one call at a time is at work on it, and *)
(* the copy that call decides from is the row.                             *)
SerialInv ==
  /\ \A c \in Calls : call[c].at = "idle" => call[c].req = NoRequest
  /\ \A r \in Requests \ disturbed : Serial(r)

=============================================================================
