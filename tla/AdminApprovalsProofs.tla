------------------------ MODULE AdminApprovalsProofs ------------------------
(***************************************************************************)
(* ApprovalInv is inductive for any requests, admins, thresholds, roles    *)
(* and number of overlapping calls.  Every step lets the facts the         *)
(* invariant rests on only grow (Grows): approvals given, requests forced, *)
(* effects.  So what a call has read stays justified whoever writes in     *)
(* between, and a step is left to show what it changes itself.             *)
(***************************************************************************)
EXTENDS AdminApprovals, FiniteSetTheorems, TLAPS

\* More admins approving keep a row justified.
LEMMA JustifiedGrows ==
  ASSUME NEW x, NEW A, NEW B, A \subseteq B, Justified(x, A)
  PROVE  Justified(x, B)
BY ZenonT(60) DEF Justified

\* A justified row that is approved has as many approving admins as it requires.
LEMMA JustifiedQuorum ==
  ASSUME NEW x \in Rows, NEW A, IsFiniteSet(A), Justified(x, A), x.status = "approved"
  PROVE  Cardinality(A \ {x.maker}) >= x.required
<1> DEFINE T == A \ {x.maker}
           n == Len(x.approvers)
<1>1. x.approvers \in Seq(Admins) /\ x.required \in Nat /\ x.approvals \in Nat
  BY ZenonT(60) DEF Rows
<1>2. n \in Nat /\ DOMAIN x.approvers = 1 .. n
  BY SMTT(60), Z3T(60), <1>1
<1>3. x.approvers \in [1 .. n -> T]
  BY SMTT(60), Z3T(60), <1>1, <1>2 DEF Justified
<1>4. IsFiniteSet(T) /\ Cardinality(T) \in Nat
  BY ZenonT(60), FS_RemoveElement, FS_CardinalityType
<1>5. IsFiniteSet(1 .. n) /\ Cardinality(1 .. n) = n
  BY SMTT(60), Z3T(60), <1>2, FS_Interval
<1>6. ~(Cardinality(T) < n)
  <2> SUFFICES ASSUME Cardinality(T) < n PROVE FALSE
    BY ZenonT(60)
  <2>0. Cardinality(T) < Cardinality(1 .. n)
    BY ZenonT(60), <1>5
  <2> DEFINE S == 1 .. n
             f == x.approvers
  <2>2. f \in [S -> T] /\ IsFiniteSet(S) /\ IsFiniteSet(T) /\ Cardinality(T) < Cardinality(S)
    BY ZenonT(60), <2>0, <1>3, <1>4, <1>5
  <2> HIDE DEF S, T, f
  <2>3. \E i, j \in S : i # j /\ f[i] = f[j]
    BY SMTT(60), Z3T(60), <2>2, FS_PigeonHole
  <2>1. \E i, j \in 1 .. n : i # j /\ x.approvers[i] = x.approvers[j]
    BY ZenonT(60), <2>3 DEF S, f
  <2> QED
    BY ZenonT(60), <2>1, <1>2 DEF Justified
<1>7. n >= x.required
  BY ZenonT(60) DEF Justified
<1> QED
  BY SMTT(60), Z3T(60), <1>1, <1>2, <1>4, <1>6, <1>7

\* What no step takes back.
Grows ==
  /\ \A r \in Requests : row[r].status # "unused" =>
       row'[r].status # "unused" /\ SameRequest(row'[r], row[r])
  /\ \A r \in Requests : consent[r] \subseteq consent'[r] /\ applied[r] <= applied'[r]
  /\ forced \subseteq forced' /\ deposited \subseteq deposited'
  /\ \A w \in Withdrawals : withdrawal[w] \in Approved =>
       withdrawal'[w] \in Approved

\* Consents are finite sets of admins.
LEMMA ConsentFinite ==
  ASSUME TypeOK, NEW r \in Requests
  PROVE  IsFiniteSet(consent[r]) /\ IsFiniteSet(consent[r] \ {row[r].maker})
<1>1. consent[r] \in SUBSET Admins /\ consent[r] \ {row[r].maker} \in SUBSET Admins
  BY ZenonT(60) DEF TypeOK
<1> QED
  BY ZenonT(60), <1>1, FS_Subset, ApprovalConstants

\* A quorum once reached stays.
LEMMA QuorateStays ==
  ASSUME TypeOK, TypeOK', Grows, NEW r \in Requests, row[r].status # "unused", Quorate(r)
  PROVE  Quorate(r)'
<1>1. row'[r].maker = row[r].maker /\ row'[r].required = row[r].required
  BY ZenonT(60) DEF Grows, SameRequest
<1>2. CASE r \in forced
  BY ZenonT(60), <1>2 DEF Grows, Quorate
<1>3. CASE r \notin forced
  <2> DEFINE S == consent[r] \ {row[r].maker}
             T == consent'[r] \ {row[r].maker}
  <2>1. S \in SUBSET T
    BY ZenonT(60) DEF Grows
  <2>2. IsFiniteSet(T)
    <3>1. T \in SUBSET Admins
      BY ZenonT(60) DEF TypeOK
    <3> QED
      BY ZenonT(60), <3>1, FS_Subset, ApprovalConstants
  <2>3. Cardinality(S) <= Cardinality(T) /\ Cardinality(S) \in Nat /\ Cardinality(T) \in Nat
    BY ZenonT(60), <2>1, <2>2, FS_Subset, FS_CardinalityType
  <2>4. Cardinality(S) >= row[r].required /\ row[r].required \in Nat
    BY ZenonT(60), <1>3 DEF Quorate, TypeOK, Rows
  <2>5. Cardinality(T) >= row[r].required
    BY SMTT(60), Z3T(60), <2>3, <2>4
  <2> QED
    BY ZenonT(60), <2>5, <1>1 DEF Quorate
<1> QED
  BY ZenonT(60), <1>2, <1>3

\* What was done stays done, and what was justified stays so.
LEMMA DoneStays ==
  ASSUME TypeOK, TypeOK', Grows, NEW r \in Requests, row[r].status # "unused", Done(r)
  PROVE  Done(r)'
<1>1. row'[r].target = row[r].target /\ applied[r] \in Nat /\ applied'[r] \in Nat
      /\ applied[r] <= applied'[r]
  BY ZenonT(60) DEF Grows, SameRequest, TypeOK
<1>2. row[r].target \in Withdrawals \union {NoWithdrawal}
  BY ZenonT(60) DEF TypeOK, Rows
<1>3. CASE applied[r] > 0
  BY SMTT(60), Z3T(60), <1>1, <1>3 DEF Done
<1>4. CASE r \in deposited
  BY ZenonT(60), <1>4 DEF Done, Grows
<1>5. CASE /\ row[r].target # NoWithdrawal
           /\ withdrawal[row[r].target] \in Approved
  BY ZenonT(60), <1>1, <1>2, <1>5 DEF Done, Grows
<1> QED
  BY ZenonT(60), <1>3, <1>4, <1>5 DEF Done

LEMMA BackedStays ==
  ASSUME Grows, NEW r \in Requests, NEW x, Backed(r, x)
  PROVE  r \in forced' \/ Justified(x, consent'[r])
BY ZenonT(60), JustifiedGrows DEF Grows, Backed

\* A call that does not move keeps its part of the invariant.
LEMMA OtherCall ==
  ASSUME TypeOK, TypeOK', Grows, NEW c \in Calls, call'[c] = call[c], CallInv(c)
  PROVE  CallInv(c)'
<1> DEFINE r == call[c].req
<1>1. r \in Requests /\ row[r].status # "unused" /\ call'[c].req = r
  BY ZenonT(60) DEF CallInv
<1>2. Quorate(r) => Quorate(r)'
  BY ZenonT(60), <1>1, QuorateStays
<1>3. Done(r) => Done(r)'
  BY ZenonT(60), <1>1, DoneStays
<1>4. Backed(r, call[c].seen)'
  BY ZenonT(60), <1>1, BackedStays DEF CallInv, Backed
<1>5. row'[r].status # "unused" /\ SameRequest(call[c].seen, row[r])'
  BY ZenonT(60), <1>1 DEF CallInv, Grows, SameRequest
<1> QED
  BY ZenonT(60), <1>1, <1>2, <1>3, <1>4, <1>5 DEF CallInv

\* So does a row no one writes.
LEMMA OtherRow ==
  ASSUME Grows, NEW r \in Requests, row'[r] = row[r], RowInv(r),
         row[r].status = "unused" => applied'[r] = applied[r]
  PROVE  RowInv(r)'
<1>1. Backed(r, row[r])'
  BY ZenonT(60), BackedStays DEF RowInv, Backed
<1> QED
  BY ZenonT(60), <1>1 DEF RowInv

-----------------------------------------------------------------------------
(* A step has to account for the rows, calls, effects and flags it changes. *)

Accounted ==
  /\ \A r \in Requests :
       (row'[r] = row[r] /\ applied'[r] = applied[r]) \/ RowInv(r)'
  /\ \A c \in Calls : call'[c].at = "idle" \/ call'[c] = call[c] \/ CallInv(c)'
  /\ \A r \in Requests : applied'[r] = applied[r] \/ Quorate(r)'
  /\ \A w \in Withdrawals : withdrawal'[w] \in Approved =>
       \/ withdrawal[w] \in Approved
       \/ \E r \in Requests : row'[r].target = w /\ Quorate(r)'
  /\ \A r \in Requests : row'[r].executed => row[r].executed \/ Done(r)'

LEMMA AccountedStep ==
  ASSUME ApprovalInv, TypeOK', Grows, Accounted
  PROVE  ApprovalInv'
<1>1. \A r \in Requests : RowInv(r)'
  BY ZenonT(60), OtherRow DEF ApprovalInv, Accounted
<1>2. \A c \in Calls : call'[c].at # "idle" => CallInv(c)'
  BY ZenonT(60), OtherCall DEF ApprovalInv, Accounted
<1>3. \A r \in Requests : row[r].status = "unused" => row[r] = NoRow /\ applied[r] = 0
  BY ZenonT(60) DEF ApprovalInv, RowInv
<1>4. ASSUME NEW r \in Requests, applied'[r] > 0
      PROVE  Quorate(r)'
  <2>1. CASE applied'[r] = applied[r]
    <3>1. row[r].status # "unused" /\ Quorate(r)
      BY SMTT(60), Z3T(60), <1>3, <1>4, <2>1 DEF ApprovalInv, QuorumBehindEffect
    <3> QED
      BY ZenonT(60), <3>1, QuorateStays DEF ApprovalInv
  <2> QED
    BY ZenonT(60), <2>1 DEF Accounted
<1>5. ASSUME NEW w \in Withdrawals, withdrawal'[w] \in Approved
      PROVE  \E r \in Requests : row'[r].target = w /\ Quorate(r)'
  <2>1. CASE withdrawal[w] \in Approved
    <3>1. PICK r \in Requests : row[r].target = w /\ Quorate(r)
      BY ZenonT(60), <2>1 DEF ApprovalInv, QuorumBehindEffect
    <3>2. row[r].status # "unused"
      BY SMTT(60), Z3T(60), <3>1, <1>3, ApprovalConstants DEF NoRow
    <3>3. row'[r].target = w
      BY ZenonT(60), <3>1, <3>2 DEF Grows, SameRequest
    <3> QED
      BY ZenonT(60), <3>1, <3>2, <3>3, QuorateStays DEF ApprovalInv
  <2> QED
    BY ZenonT(60), <1>5, <2>1 DEF Accounted
<1>6. ASSUME NEW r \in Requests, row'[r].executed
      PROVE  Done(r)'
  <2>1. CASE row[r].executed
    <3>1. row[r].status # "unused"
      BY SMTT(60), Z3T(60), <2>1, <1>3 DEF NoRow
    <3> QED
      BY ZenonT(60), <2>1, <3>1, DoneStays DEF ApprovalInv, ExecutedMeansDone
  <2> QED
    BY ZenonT(60), <1>6, <2>1 DEF Accounted
<1> QED
  BY ZenonT(60), <1>1, <1>2, <1>4, <1>5, <1>6 DEF ApprovalInv, QuorumBehindEffect, ExecutedMeansDone

\* A step that only moves calls accounts for those calls.
LEMMA CallsOnly ==
  ASSUME ApprovalInv, UNCHANGED <<row, age, outside, consent, forced>>,
         call' \in [Calls -> CallStates],
         locked' \subseteq Withdrawals, disturbed' \subseteq Requests,
         \A c \in Calls : call'[c].at = "idle" \/ call'[c] = call[c] \/ CallInv(c)'
  PROVE  ApprovalInv'
<1>1. TypeOK'
  BY ZenonT(60) DEF ApprovalInv, TypeOK, outside
<1>2. Grows
  BY SMTT(60), Z3T(60) DEF Grows, outside, SameRequest, ApprovalInv, TypeOK
<1>3. Accounted
  BY ZenonT(60) DEF Accounted, outside
<1> QED
  BY ZenonT(60), <1>1, <1>2, <1>3, AccountedStep

\* The call's record keeps its type.
LEMMA GoesType ==
  ASSUME TypeOK, NEW c \in Calls, NEW stage \in Stages, goes(c, stage)
  PROVE  call' \in [Calls -> CallStates] /\ call'[c].at = stage
         /\ call'[c].seen = call[c].seen /\ call'[c].req = call[c].req
         /\ call'[c].admin = call[c].admin
         /\ \A d \in Calls : d # c => call'[d] = call[d]
BY ZenonT(60) DEF TypeOK, CallStates, goes

LEMMA EndsType ==
  ASSUME TypeOK, NEW c \in Calls, ends(c)
  PROVE  call' \in [Calls -> CallStates] /\ call'[c].at = "idle"
         /\ \A d \in Calls : d # c => call'[d] = call[d]
<1>1. NoCall \in CallStates
  BY SMTT(60), Z3T(60) DEF NoCall, CallStates, NoRow, Rows, Stages, Statuses
<1> QED
  BY ZenonT(60), <1>1 DEF TypeOK, ends, NoCall

LEMMA ThrowsType ==
  ASSUME TypeOK, NEW c \in Calls, throws(c)
  PROVE  call' \in [Calls -> CallStates] /\ call'[c].at \in {"idle", "catch"}
         /\ (call'[c].at = "catch" => call'[c].seen = call[c].seen /\ call'[c].req = call[c].req
                                      /\ call'[c].admin = call[c].admin)
         /\ \A d \in Calls : d # c => call'[d] = call[d]
<1>1. CASE goes(c, "catch")
  BY ZenonT(60), <1>1, GoesType DEF Stages
<1>2. CASE ends(c)
  BY ZenonT(60), <1>2, EndsType
<1> QED
  BY ZenonT(60), <1>1, <1>2 DEF throws

\* What a call may execute has its quorum.
LEMMA ExecutableQuorate ==
  ASSUME TypeOK, NEW c \in Calls, CallInv(c), executable(call[c].seen)
  PROVE  Quorate(call[c].req)
<1> DEFINE r == call[c].req
           x == call[c].seen
<1>1. r \in Requests /\ x \in Rows /\ x.status = "approved" /\ SameRequest(x, row[r])
  BY ZenonT(60) DEF CallInv, executable, TypeOK, CallStates
<1>2. CASE r \in forced
  BY ZenonT(60), <1>2 DEF Quorate
<1>3. CASE Justified(x, consent[r])
  <2>1. Cardinality(consent[r] \ {x.maker}) >= x.required
    BY ZenonT(60), <1>1, <1>3, ConsentFinite, JustifiedQuorum
  <2> QED
    BY ZenonT(60), <1>1, <2>1 DEF Quorate, SameRequest
<1> QED
  BY ZenonT(60), <1>2, <1>3 DEF CallInv, Backed

-----------------------------------------------------------------------------
(* The steps that only move calls.                                         *)

\* A call begins with a copy of the row, which is as good as the row.
LEMMA BeginInductive ==
  ASSUME ApprovalInv, NEW c \in Calls, NEW r \in Requests, NEW a \in Admins \union {NoAdmin},
         NEW op \in {"none", "approve", "reject", "retry", "break_glass"},
         NEW stage \in {"update", "expire", "reject", "force", "execute"},
         begin(c, r, a, op, stage), row[r].status # "unused",
         stage \in {"update", "force"} => a \in Admins,
         stage = "update" => a # row[r].maker /\ ~Names(row[r].approvers, a)
  PROVE  ApprovalInv'
<1>1. call' \in [Calls -> CallStates]
  BY ZenonT(60) DEF begin, ApprovalInv, TypeOK, CallStates, Stages
<1>2. call'[c] = [at |-> stage, op |-> op, req |-> r, admin |-> a, seen |-> row[r], holds |-> FALSE]
      /\ \A d \in Calls : d # c => call'[d] = call[d]
  BY ZenonT(60) DEF begin, ApprovalInv, TypeOK
<1>3. UNCHANGED <<row, age, outside, consent, forced, locked>> /\ disturbed' \subseteq Requests
  BY ZenonT(60) DEF begin, table, ApprovalInv, TypeOK
<1>4. RowInv(r)
  BY ZenonT(60) DEF ApprovalInv
<1>5. CallInv(c)'
  BY SMTT(60), Z3T(60), <1>2, <1>3, <1>4 DEF CallInv, RowInv, Backed, SameRequest
<1> QED
  BY ZenonT(60), <1>1, <1>2, <1>3, <1>5, CallsOnly DEF ApprovalInv, TypeOK

\* The four routes.
LEMMA RoutesInductive ==
  ASSUME ApprovalInv, NEW c \in Calls, NEW r \in Requests,
         \/ \E a \in Admins : approveRequest(c, r, a) \/ breakGlassExecute(c, r, a)
         \/ rejectRequest(c, r)
         \/ retryExecution(c, r)
  PROVE  ApprovalInv'
<1>1. ASSUME NEW a \in Admins, approveRequest(c, r, a)
      PROVE  ApprovalInv'
  <2>1. CASE begin(c, r, a, "approve", "expire")
    BY ZenonT(60), <1>1, <2>1, BeginInductive DEF approveRequest
  <2>2. CASE mayApprove(r, a) /\ begin(c, r, a, "approve", "update")
    BY ZenonT(60), <1>1, <2>2, BeginInductive DEF approveRequest, mayApprove
  <2> QED
    BY ZenonT(60), <1>1, <2>1, <2>2 DEF approveRequest
<1>2. ASSUME NEW a \in Admins, breakGlassExecute(c, r, a)
      PROVE  ApprovalInv'
  BY ZenonT(60), <1>2, BeginInductive DEF breakGlassExecute
<1>3. CASE rejectRequest(c, r)
  BY ZenonT(60), <1>3, BeginInductive DEF rejectRequest
<1>4. CASE retryExecution(c, r)
  BY ZenonT(60), <1>4, BeginInductive DEF retryExecution
<1> QED
  BY ZenonT(60), <1>1, <1>2, <1>3, <1>4

\* A call that ends, throws, or only goes on to a stage that claims no more.
LEMMA QuietCall ==
  ASSUME ApprovalInv, NEW c \in Calls, call[c].at # "idle",
         throws(c) \/ ends(c),
         UNCHANGED <<row, age, outside, consent, forced>>,
         locked' \subseteq Withdrawals, disturbed' \subseteq Requests
  PROVE  ApprovalInv'
<1>1. /\ call' \in [Calls -> CallStates] /\ call'[c].at \in {"idle", "catch"}
      /\ call'[c].at = "catch" => call'[c].seen = call[c].seen /\ call'[c].req = call[c].req
      /\ \A d \in Calls : d # c => call'[d] = call[d]
  BY ZenonT(60), ThrowsType, EndsType DEF ApprovalInv
<1>2. CallInv(c)
  BY ZenonT(60) DEF ApprovalInv
<1>3. call'[c].at = "catch" => CallInv(c)'
  BY ZenonT(60), <1>1, <1>2 DEF CallInv, Backed, SameRequest
<1> QED
  BY ZenonT(60), <1>1, <1>3, CallsOnly

LEMMA UnlockType ==
  ASSUME TypeOK, NEW c \in Calls, unlock(c)
  PROVE  locked' \subseteq Withdrawals
BY ZenonT(60) DEF unlock, TypeOK

\* Reading the row again, the lock, and the answers of approveWithdrawal.
LEMMA CallStepsInductive ==
  ASSUME ApprovalInv, NEW c \in Calls,
         \/ reload(c) \/ nothingToExecute(c) \/ lockWithdrawal(c) \/ peek(c)
         \/ enqueueWithdrawal(c) \/ statementFails(c)
  PROVE  ApprovalInv'
<1> USE DEF table
<1> DEFINE r == call[c].req
<1>0. call[c].at # "idle" /\ CallInv(c) /\ TypeOK /\ locked \subseteq Withdrawals /\ disturbed \subseteq Requests
  BY ZenonT(60) DEF reload, nothingToExecute, lockWithdrawal, peek, enqueueWithdrawal, statementFails, ApprovalInv, TypeOK
<1>1. CASE reload(c)
  <2>1. r \in Requests /\ row[r] \in Rows
    BY ZenonT(60), <1>0 DEF CallInv, TypeOK
  <2>2. /\ call' \in [Calls -> CallStates]
        /\ call'[c].seen = row[r] /\ call'[c].req = r /\ call'[c].at = "execute"
        /\ \A d \in Calls : d # c => call'[d] = call[d]
    BY SMTT(60), Z3T(60), <1>0, <1>1, <2>1 DEF reload, TypeOK, CallStates, Stages
  <2>3. RowInv(r)
    BY ZenonT(60), <2>1 DEF ApprovalInv
  <2>4. UNCHANGED <<row, age, outside, consent, forced, locked, disturbed>>
    BY ZenonT(60), <1>1 DEF reload, history
  <2>5. CallInv(c)'
    BY ZenonT(60), <1>0, <2>2, <2>3, <2>4 DEF CallInv, RowInv, Backed, SameRequest
  <2> QED
    BY ZenonT(60), <1>0, <2>2, <2>4, <2>5, CallsOnly
<1>2. CASE nothingToExecute(c)
  BY ZenonT(60), <1>0, <1>2, QuietCall DEF nothingToExecute, history
<1>3. CASE lockWithdrawal(c)
  <2>1. UNCHANGED <<row, age, outside, consent, forced, disturbed>>
        /\ call[c].at = "execute" /\ executable(call[c].seen)
        /\ call[c].seen.kind = "withdrawal_approve"
    BY ZenonT(60), <1>3 DEF lockWithdrawal, history
  <2>2. call[c].seen.target \in Withdrawals
    <3>1. r \in Requests /\ call[c].seen.kind = row[r].kind /\ call[c].seen.target = row[r].target
      BY ZenonT(60), <1>0 DEF CallInv, SameRequest
    <3>2. row[r].target \in Withdrawals \union {NoWithdrawal}
      BY ZenonT(60), <1>0, <3>1 DEF TypeOK, Rows
    <3>3. row[r].kind = "withdrawal_approve" <=> row[r].target # NoWithdrawal
      BY ZenonT(60), <3>1 DEF ApprovalInv, RowInv
    <3> QED
      BY ZenonT(60), <2>1, <3>1, <3>2, <3>3
  <2>3. locked' \subseteq Withdrawals
    BY ZenonT(60), <1>0, <1>3, <2>2 DEF lockWithdrawal
  <2>4. /\ call' \in [Calls -> CallStates]
        /\ call'[c].at \in {"transact", "peek"}
        /\ call'[c].seen = call[c].seen /\ call'[c].req = r
        /\ \A d \in Calls : d # c => call'[d] = call[d]
    <3>1. CASE goes(c, "transact")
      BY ZenonT(60), <1>0, <3>1, GoesType DEF Stages
    <3>3. CASE goes(c, "peek")
      BY ZenonT(60), <1>0, <3>3, GoesType DEF Stages
    <3>2. CASE call' = [call EXCEPT ![c].at = "transact", ![c].holds = TRUE]
      <4> DEFINE new == [call[c] EXCEPT !.at = "transact", !.holds = TRUE]
      <4>1. call \in [Calls -> CallStates]
        BY ZenonT(60), <1>0 DEF TypeOK
      <4>2. call' = [call EXCEPT ![c] = new]
        BY ZenonT(60), <3>2, <4>1
      <4>3. new \in CallStates /\ new.at = "transact" /\ new.seen = call[c].seen /\ new.req = r
        BY ZenonT(60), <4>1 DEF CallStates, Stages
      <4> QED
        BY ZenonT(60), <4>1, <4>2, <4>3
    <3> QED
      BY ZenonT(60), <1>3, <3>1, <3>2, <3>3 DEF lockWithdrawal
  <2>5. Quorate(r)
    BY ZenonT(60), <1>0, <2>1, ExecutableQuorate
  <2>6. CallInv(c)'
    BY ZenonT(60), <1>0, <2>1, <2>4, <2>5 DEF CallInv, Backed, SameRequest, Quorate
  <2> QED
    BY ZenonT(60), <1>0, <2>1, <2>3, <2>4, <2>6, CallsOnly
<1>4. CASE peek(c)
  <2>1. UNCHANGED <<row, age, outside, consent, forced, locked, disturbed>> /\ call[c].at = "peek"
    BY ZenonT(60), <1>4 DEF peek, history
  <2>2. CASE throws(c)
    BY ZenonT(60), <1>0, <2>1, <2>2, QuietCall
  <2>3. CASE withdrawal[call[c].seen.target] = "pending" /\ goes(c, "record")
    <3>1. Done(r)
      BY ZenonT(60), <1>0, <2>1, <2>3 DEF CallInv, SameRequest, Done, ApprovalInv, RowInv, Approved
    <3>2. /\ call' \in [Calls -> CallStates]
          /\ call'[c].at = "record" /\ call'[c].seen = call[c].seen /\ call'[c].req = r
          /\ \A d \in Calls : d # c => call'[d] = call[d]
      BY ZenonT(60), <1>0, <2>3, GoesType DEF Stages
    <3>3. CallInv(c)'
      BY ZenonT(60), <1>0, <2>1, <3>1, <3>2 DEF CallInv, Backed, SameRequest, Quorate, Done, outside
    <3> QED
      BY ZenonT(60), <1>0, <2>1, <3>2, <3>3, CallsOnly
  <2> QED
    BY ZenonT(60), <1>4, <2>2, <2>3 DEF peek
<1>5. CASE enqueueWithdrawal(c)
  <2>1. UNCHANGED <<row, age, outside, consent, forced, disturbed>> /\ call[c].at = "enqueue"
        /\ locked' \subseteq Withdrawals
    BY ZenonT(60), <1>0, <1>5, UnlockType DEF enqueueWithdrawal, history
  <2>2. CASE throws(c)
    BY ZenonT(60), <1>0, <2>1, <2>2, QuietCall
  <2>3. CASE goes(c, "record")
    <3>2. /\ call' \in [Calls -> CallStates]
          /\ call'[c].at = "record" /\ call'[c].seen = call[c].seen /\ call'[c].req = r
          /\ \A d \in Calls : d # c => call'[d] = call[d]
      BY ZenonT(60), <1>0, <2>3, GoesType DEF Stages
    <3>3. CallInv(c)'
      BY ZenonT(60), <1>0, <2>1, <3>2 DEF CallInv, Backed, SameRequest, Quorate, Done, outside
    <3> QED
      BY ZenonT(60), <1>0, <2>1, <3>2, <3>3, CallsOnly
  <2> QED
    BY ZenonT(60), <1>5, <2>2, <2>3 DEF enqueueWithdrawal
<1>6. CASE statementFails(c)
  <2>1. UNCHANGED <<row, age, outside, consent, forced>> /\ locked' \subseteq Withdrawals
        /\ (throws(c) \/ ends(c))
    BY ZenonT(60), <1>0, <1>6, UnlockType DEF statementFails
  <2>2. disturbed' \subseteq Requests
    BY ZenonT(60), <1>0, <1>6 DEF statementFails, CallInv
  <2> QED
    BY ZenonT(60), <1>0, <2>1, <2>2, QuietCall
<1> QED
  BY ZenonT(60), <1>1, <1>2, <1>3, <1>4, <1>5, <1>6

-----------------------------------------------------------------------------
(* The steps that write a row.                                             *)

\* A write accounts for the new row's approvers, flag and the calls it moves.
LEMMA WriteRow ==
  ASSUME ApprovalInv, NEW r \in Requests, NEW new \in Rows,
         row' = [row EXCEPT ![r] = new], row[r].status # "unused", new.status # "unused",
         SameRequest(new, row[r]),
         consent' \in [Requests -> SUBSET Admins], \A q \in Requests : consent[q] \subseteq consent'[q],
         forced \subseteq forced', forced' \subseteq Requests,
         UNCHANGED <<age, outside, locked, disturbed>>,
         r \in forced' \/ Justified(new, consent'[r]),
         new.executed => row[r].executed \/ Done(r),
         call' \in [Calls -> CallStates],
         \A c \in Calls : call'[c].at = "idle" \/ call'[c] = call[c] \/ CallInv(c)'
  PROVE  ApprovalInv'
<1>1. row \in [Requests -> Rows] /\ row' \in [Requests -> Rows]
      /\ row'[r] = new /\ \A q \in Requests : q # r => row'[q] = row[q]
  BY ZenonT(60) DEF ApprovalInv, TypeOK
<1>2. TypeOK'
  BY ZenonT(60), <1>1 DEF ApprovalInv, TypeOK, outside
<1>3. Grows
  <2>1. \A q \in Requests : row[q].status # "unused" =>
          row'[q].status # "unused" /\ SameRequest(row'[q], row[q])
    BY ZenonT(60), <1>1 DEF SameRequest
  <2> QED
    BY SMTT(60), Z3T(60), <2>1 DEF Grows, outside, ApprovalInv, TypeOK
<1>4. RowInv(r)'
  <2>1. RowInv(r)
    BY ZenonT(60) DEF ApprovalInv
  <2> QED
    BY ZenonT(60), <1>1, <2>1 DEF RowInv, Backed, SameRequest
<1>5. Done(r) => Done(r)'
  BY ZenonT(60), <1>2, <1>3, DoneStays DEF ApprovalInv
<1>6. Accounted
  BY ZenonT(60), <1>1, <1>4, <1>5 DEF Accounted, outside
<1> QED
  BY ZenonT(60), <1>2, <1>3, <1>6, AccountedStep

\* Status changes and the executed flag, by a call that ends.
LEMMA MarksInductive ==
  ASSUME ApprovalInv, NEW c \in Calls,
         \/ storeStatus(c, "expire", "expired") \/ storeStatus(c, "reject", "rejected")
         \/ recordExecuted(c) \/ recordFailed(c)
  PROVE  ApprovalInv'
<1> DEFINE r == call[c].req
<1>1. CallInv(c) /\ TypeOK /\ r \in Requests /\ row[r] \in Rows /\ row[r].status # "unused" /\ RowInv(r)
  <2>1. call[c].at # "idle"
    BY ZenonT(60) DEF storeStatus, recordExecuted, recordFailed
  <2> QED
    BY ZenonT(60), <2>1 DEF ApprovalInv, CallInv, TypeOK
<1>2. /\ call' \in [Calls -> CallStates] /\ call'[c].at = "idle"
      /\ \A d \in Calls : d # c => call'[d] = call[d]
  BY ZenonT(60), <1>1, EndsType DEF storeStatus, recordExecuted, recordFailed
<1>3. UNCHANGED <<age, outside, locked, disturbed, consent, forced>>
  BY ZenonT(60) DEF storeStatus, recordExecuted, recordFailed, history
<1>4. ASSUME NEW st \in {"expired", "rejected"}, row' = [row EXCEPT ![r].status = st]
      PROVE  ApprovalInv'
  <2> DEFINE new == [row[r] EXCEPT !.status = st]
  <2>1. new \in Rows /\ new.status = st /\ SameRequest(new, row[r]) /\ new.executed = row[r].executed
        /\ new.approvals = row[r].approvals /\ new.approvers = row[r].approvers
    BY ZenonT(60), <1>1 DEF Rows, Statuses, SameRequest
  <2>2. row' = [row EXCEPT ![r] = new]
    BY ZenonT(60), <1>1, <1>4 DEF TypeOK
  <2>3. r \in forced' \/ Justified(new, consent'[r])
    BY ZenonT(60), <1>1, <1>3, <2>1 DEF RowInv, Backed, Justified, SameRequest
  <2> HIDE DEF new
  <2>4. consent \in [Requests -> SUBSET Admins] /\ forced \subseteq Requests
    BY ZenonT(60), <1>1 DEF TypeOK
  <2> QED
    BY ZenonT(60), <1>1, <1>2, <1>3, <2>1, <2>2, <2>3, <2>4, WriteRow
<1>5. ASSUME NEW b \in BOOLEAN, row' = [row EXCEPT ![r].executed = b], b => Done(r)
      PROVE  ApprovalInv'
  <2> DEFINE new == [row[r] EXCEPT !.executed = b]
  <2>1. new \in Rows /\ new.status = row[r].status /\ SameRequest(new, row[r]) /\ new.executed = b
        /\ new.approvals = row[r].approvals /\ new.approvers = row[r].approvers
    BY ZenonT(60), <1>1 DEF Rows, SameRequest
  <2>2. row' = [row EXCEPT ![r] = new]
    BY ZenonT(60), <1>1, <1>5 DEF TypeOK
  <2>3. r \in forced' \/ Justified(new, consent'[r])
    BY ZenonT(60), <1>1, <1>3, <2>1 DEF RowInv, Backed, Justified, SameRequest
  <2> HIDE DEF new
  <2>4. consent \in [Requests -> SUBSET Admins] /\ forced \subseteq Requests
    BY ZenonT(60), <1>1 DEF TypeOK
  <2>5. new.executed => row[r].executed \/ Done(r)
    BY ZenonT(60), <1>5, <2>1
  <2> QED
    BY ZenonT(60), <1>1, <1>2, <1>3, <2>1, <2>2, <2>3, <2>4, <2>5, WriteRow
<1>6. CASE storeStatus(c, "expire", "expired")
  BY ZenonT(60), <1>4, <1>6 DEF storeStatus
<1>7. CASE storeStatus(c, "reject", "rejected")
  BY ZenonT(60), <1>4, <1>7 DEF storeStatus
<1>8. CASE recordExecuted(c)
  BY ZenonT(60), <1>1, <1>5, <1>8 DEF recordExecuted, CallInv
<1>9. CASE recordFailed(c)
  BY ZenonT(60), <1>5, <1>9 DEF recordFailed
<1> QED
  BY ZenonT(60), <1>6, <1>7, <1>8, <1>9

\* An approval is written from what the call has read.
LEMMA StoreApprovalInductive ==
  ASSUME ApprovalInv, NEW c \in Calls, storeApproval(c)
  PROVE  ApprovalInv'
<1> DEFINE r == call[c].req
           a == call[c].admin
           x == call[c].seen
           new == approvedRow(r, x, a)
<1>1. /\ CallInv(c) /\ TypeOK /\ r \in Requests /\ row[r] \in Rows /\ row[r].status # "unused"
      /\ a \in Admins /\ x \in Rows /\ SameRequest(x, row[r]) /\ Backed(r, x)
      /\ a # x.maker /\ ~Names(x.approvers, a)
  <2>1. call[c].at = "update"
    BY ZenonT(60) DEF storeApproval
  <2> QED
    BY ZenonT(60), <2>1 DEF ApprovalInv, CallInv, TypeOK, CallStates
<1>2. x.approvals \in Nat /\ x.approvers \in Seq(Admins) /\ x.required \in Nat
  BY ZenonT(60), <1>1 DEF Rows
<1>3. /\ new \in Rows /\ SameRequest(new, row[r]) /\ new.executed = row[r].executed
      /\ new.approvals = x.approvals + 1 /\ new.approvers = Append(x.approvers, a)
      /\ new.status = IF x.approvals + 1 >= x.required THEN "approved" ELSE "pending"
  <2> DEFINE st == IF x.approvals + 1 >= x.required THEN "approved" ELSE "pending"
             s == Append(x.approvers, a)
             n == x.approvals + 1
  <2>1. st \in Statuses /\ s \in Seq(Admins) /\ n \in Nat
    BY SMTT(60), Z3T(60), <1>1, <1>2 DEF Statuses
  <2>2. new = [row[r] EXCEPT !.approvals = n, !.approvers = s, !.status = st]
    BY ZenonT(60) DEF approvedRow
  <2> HIDE DEF st, s, n
  <2>3. new \in Rows /\ SameRequest(new, row[r]) /\ new.executed = row[r].executed
        /\ new.approvals = n /\ new.approvers = s /\ new.status = st
    BY ZenonT(60), <1>1, <2>1, <2>2 DEF Rows, SameRequest
  <2> QED
    BY ZenonT(60), <2>3 DEF st, s, n
<1> HIDE DEF new
<1>4. /\ row' = [row EXCEPT ![r] = new]
      /\ consent' = [consent EXCEPT ![r] = @ \union {a}]
      /\ UNCHANGED <<age, outside, locked, forced, disturbed>>
      /\ ends(c) \/ call' = [call EXCEPT ![c].at = "execute", ![c].seen = new]
  BY ZenonT(60) DEF storeApproval, new
<1>5. /\ consent' \in [Requests -> SUBSET Admins] /\ consent'[r] = consent[r] \union {a}
      /\ \A q \in Requests : consent[q] \subseteq consent'[q]
      /\ forced \subseteq Requests
  BY ZenonT(60), <1>1, <1>4 DEF TypeOK
<1>6. r \in forced' \/ Justified(new, consent'[r])
  <2>1. SUFFICES ASSUME r \notin forced PROVE Justified(new, consent'[r])
    BY ZenonT(60), <1>4
  <2>2. Justified(x, consent[r])
    BY ZenonT(60), <1>1, <2>1 DEF Backed
  <2>3. /\ Len(new.approvers) = Len(x.approvers) + 1
        /\ DOMAIN new.approvers = 1 .. Len(x.approvers) + 1
        /\ DOMAIN x.approvers = 1 .. Len(x.approvers)
        /\ new.approvers[Len(x.approvers) + 1] = a
        /\ \A i \in 1 .. Len(x.approvers) : new.approvers[i] = x.approvers[i]
    BY SMTT(60), Z3T(60), <1>1, <1>2, <1>3
  <2>4. \A i \in DOMAIN x.approvers : x.approvers[i] # a
    BY ZenonT(60), <1>1 DEF Names
  <2>5. \A i, j \in DOMAIN new.approvers : i # j => new.approvers[i] # new.approvers[j]
    <3> SUFFICES ASSUME NEW i \in 1 .. Len(x.approvers) + 1, NEW j \in 1 .. Len(x.approvers) + 1, i < j
                 PROVE  new.approvers[i] # new.approvers[j]
      BY SMTT(60), Z3T(60), <2>3
    <3>1. Len(x.approvers) \in Nat
      BY SMTT(60), Z3T(60), <1>2
    <3>2. i \in DOMAIN x.approvers /\ new.approvers[i] = x.approvers[i]
      BY SMTT(60), Z3T(60), <2>3, <3>1
    <3>3. CASE j = Len(x.approvers) + 1
      BY ZenonT(60), <2>3, <2>4, <3>2, <3>3
    <3>4. CASE j # Len(x.approvers) + 1
      <4>1. j \in DOMAIN x.approvers /\ new.approvers[j] = x.approvers[j]
        BY SMTT(60), Z3T(60), <2>3, <3>1, <3>4
      <4> QED
        BY SMTT(60), Z3T(60), <2>2, <3>2, <4>1 DEF Justified
    <3> QED
      BY ZenonT(60), <3>3, <3>4
  <2>6. \A i \in DOMAIN new.approvers : new.approvers[i] \in consent'[r] \ {new.maker}
    <3> SUFFICES ASSUME NEW i \in 1 .. Len(x.approvers) + 1
                 PROVE  new.approvers[i] \in consent'[r] \ {new.maker}
      BY ZenonT(60), <2>3
    <3>1. new.maker = x.maker
      BY ZenonT(60), <1>1, <1>3 DEF SameRequest
    <3>2. CASE i = Len(x.approvers) + 1
      BY ZenonT(60), <1>1, <1>5, <2>3, <3>1, <3>2
    <3>3. CASE i # Len(x.approvers) + 1
      <4>1. i \in DOMAIN x.approvers /\ new.approvers[i] = x.approvers[i]
        BY SMTT(60), Z3T(60), <1>2, <2>3, <3>3
      <4> QED
        BY ZenonT(60), <1>5, <2>2, <3>1, <4>1 DEF Justified
    <3> QED
      BY ZenonT(60), <3>2, <3>3
  <2>7. new.approvals = Len(new.approvers) /\ (new.status = "approved" => new.approvals >= new.required)
    BY ZenonT(60), <1>1, <1>2, <1>3, <2>2, <2>3 DEF Justified, SameRequest
  <2> QED
    BY ZenonT(60), <2>5, <2>6, <2>7 DEF Justified
<1>7. call' \in [Calls -> CallStates]
      /\ \A d \in Calls : call'[d].at = "idle" \/ call'[d] = call[d] \/ CallInv(d)'
  <2>1. CASE ends(c)
    BY ZenonT(60), <1>1, <2>1, EndsType
  <2>2. CASE call' = [call EXCEPT ![c].at = "execute", ![c].seen = new]
    <3>1. /\ call' \in [Calls -> CallStates] /\ call'[c].at = "execute"
          /\ call'[c].seen = new /\ call'[c].req = r
          /\ \A d \in Calls : d # c => call'[d] = call[d]
      BY SMTT(60), Z3T(60), <1>1, <1>3, <2>2 DEF TypeOK, CallStates
    <3>2. row'[r] = new /\ new.status # "unused"
      BY ZenonT(60), <1>1, <1>3, <1>4 DEF TypeOK
    <3>3. CallInv(c)'
      BY ZenonT(60), <1>1, <1>6, <3>1, <3>2 DEF CallInv, Backed, SameRequest
    <3> QED
      BY ZenonT(60), <3>1, <3>3
  <2> QED
    BY ZenonT(60), <1>4, <2>1, <2>2
<1>8. new.status # "unused"
  BY ZenonT(60), <1>3
<1> QED
  BY ZenonT(60), <1>1, <1>3, <1>4, <1>5, <1>6, <1>7, <1>8, WriteRow

\* A break-glass session approves a request, which is then in forced.
LEMMA StoreForcedInductive ==
  ASSUME ApprovalInv, NEW c \in Calls, storeForced(c)
  PROVE  ApprovalInv'
<1> DEFINE r == call[c].req
           a == call[c].admin
           x == call[c].seen
           new == forcedRow(r, x, a)
<1>1. /\ CallInv(c) /\ TypeOK /\ r \in Requests /\ row[r] \in Rows /\ row[r].status # "unused"
      /\ a \in Admins /\ x \in Rows /\ call[c].at = "force"
  <2>1. call[c].at = "force"
    BY ZenonT(60) DEF storeForced
  <2> QED
    BY ZenonT(60), <2>1 DEF ApprovalInv, CallInv, TypeOK, CallStates
<1>2. UNCHANGED <<age, outside, locked, consent, disturbed>> /\ locked \subseteq Withdrawals
      /\ disturbed \subseteq Requests /\ consent \in [Requests -> SUBSET Admins] /\ forced \subseteq Requests
  BY ZenonT(60), <1>1 DEF storeForced, TypeOK
<1>3. CASE goes(c, "reload") /\ UNCHANGED <<row, forced>>
  <2>1. /\ call' \in [Calls -> CallStates]
        /\ call'[c].at = "reload" /\ call'[c].seen = x /\ call'[c].req = r
        /\ \A d \in Calls : d # c => call'[d] = call[d]
    BY ZenonT(60), <1>1, <1>3, GoesType DEF Stages
  <2>2. CallInv(c)'
    BY ZenonT(60), <1>1, <1>2, <1>3, <2>1 DEF CallInv, Backed, SameRequest
  <2> QED
    BY ZenonT(60), <1>2, <1>3, <2>1, <2>2, CallsOnly
<1>4. CASE ends(c) /\ UNCHANGED <<row, forced>>
  BY ZenonT(60), <1>1, <1>2, <1>4, QuietCall
<1>5. CASE goes(c, "reload") /\ row' = [row EXCEPT ![r] = new] /\ forced' = forced \union {r}
  <2>1. row[r].approvals \in Nat /\ row[r].required \in Nat
        /\ withActor(x.approvers, a) \in Seq(Admins)
    BY SMTT(60), Z3T(60), <1>1 DEF Rows, withActor
  <2>2. new \in Rows /\ SameRequest(new, row[r]) /\ new.executed = row[r].executed
        /\ new.status = "approved"
    BY ZenonT(60), <1>1, <2>1 DEF forcedRow, Rows, Statuses, SameRequest
  <2> HIDE DEF new
  <2>3. /\ call' \in [Calls -> CallStates]
        /\ call'[c].at = "reload" /\ call'[c].seen = x /\ call'[c].req = r
        /\ \A d \in Calls : d # c => call'[d] = call[d]
    BY ZenonT(60), <1>1, <1>5, GoesType DEF Stages
  <2>4. row'[r] = new /\ r \in forced'
    BY ZenonT(60), <1>1, <1>5 DEF TypeOK
  <2>5. CallInv(c)'
    BY ZenonT(60), <1>1, <2>2, <2>3, <2>4 DEF CallInv, Backed, SameRequest
  <2> QED
    BY ZenonT(60), <1>1, <1>2, <1>5, <2>2, <2>3, <2>4, <2>5, WriteRow
<1> QED
  BY ZenonT(60), <1>3, <1>4, <1>5 DEF storeForced

\* A new request, time and the sweep of overdue requests.
LEMMA RequestsInductive ==
  ASSUME ApprovalInv,
         \/ \E r \in Requests, a \in Admins : createRequest(r, a)
         \/ \E r \in Requests : grow(r)
         \/ expireStalePending
  PROVE  ApprovalInv'
<1>0. TypeOK /\ row \in [Requests -> Rows] /\ \A r \in Requests : RowInv(r)
  BY ZenonT(60) DEF ApprovalInv, TypeOK
<1>1. ASSUME NEW r \in Requests, NEW a \in Admins, createRequest(r, a)
      PROVE  ApprovalInv'
  <2>1. PICK k \in Kinds, n \in Thresholds, w \in Withdrawals \union {NoWithdrawal} :
          /\ k = "withdrawal_approve" <=> w # NoWithdrawal
          /\ row' = [row EXCEPT ![r] =
                       [kind |-> k, maker |-> a, target |-> w, required |-> n, status |-> "pending",
                        approvals |-> 0, approvers |-> <<>>, executed |-> FALSE]]
          /\ age' = [age EXCEPT ![r] = IF k \in {"withdrawal_approve", "manual_credit"}
                                       THEN "locked" ELSE "open"]
    BY ZenonT(60), <1>1 DEF createRequest
  <2> DEFINE new == [kind |-> k, maker |-> a, target |-> w, required |-> n, status |-> "pending",
                     approvals |-> 0, approvers |-> <<>>, executed |-> FALSE]
  <2>2. /\ new \in Rows /\ new.kind = k /\ new.target = w /\ new.status = "pending"
        /\ new.approvals = 0 /\ new.approvers = <<>> /\ new.executed = FALSE
    <3>1. n \in Nat /\ <<>> \in Seq(Admins) /\ "pending" \in Statuses
      BY SMTT(60), Z3T(60), ApprovalConstants DEF Statuses
    <3> QED
      BY ZenonT(60), <3>1 DEF Rows
  <2>3. row' = [row EXCEPT ![r] = new]
    BY ZenonT(60), <2>1
  <2> HIDE DEF new
  <2>4. UNCHANGED <<outside, locked, call, history>> /\ row[r].status = "unused"
    BY ZenonT(60), <1>1 DEF createRequest
  <2>5. row' \in [Requests -> Rows] /\ row'[r] = new /\ \A q \in Requests : q # r => row'[q] = row[q]
    BY ZenonT(60), <1>0, <2>2, <2>3
  <2>6. TypeOK'
    BY ZenonT(60), <1>0, <2>1, <2>4, <2>5 DEF TypeOK, outside, history
  <2>7. Grows
    <3>1. \A q \in Requests : row[q].status # "unused" =>
            row'[q].status # "unused" /\ SameRequest(row'[q], row[q])
      BY ZenonT(60), <2>4, <2>5 DEF SameRequest
    <3> QED
      BY SMTT(60), Z3T(60), <1>0, <2>4, <3>1 DEF Grows, outside, history, TypeOK
  <2>8. RowInv(r)'
    <3>1. Len(new.approvers) = 0 /\ DOMAIN new.approvers = {}
      BY SMTT(60), Z3T(60), <2>2
    <3>2. Justified(new, consent'[r])
      BY ZenonT(60), <2>2, <3>1 DEF Justified
    <3> QED
      BY ZenonT(60), <2>1, <2>2, <2>5, <3>2 DEF RowInv, Backed
  <2>9. Accounted
    BY ZenonT(60), <2>2, <2>4, <2>5, <2>8 DEF Accounted, outside, history
  <2> QED
    BY ZenonT(60), <2>6, <2>7, <2>9, AccountedStep
<1>2. ASSUME NEW r \in Requests, grow(r)
      PROVE  ApprovalInv'
  <2>1. UNCHANGED <<row, outside, locked, call, history>> /\ TypeOK'
    BY ZenonT(60), <1>0, <1>2 DEF grow, TypeOK, outside, history
  <2>2. Grows
    BY SMTT(60), Z3T(60), <1>0, <2>1 DEF Grows, outside, history, SameRequest, TypeOK
  <2>3. Accounted
    BY ZenonT(60), <2>1 DEF Accounted, outside, history
  <2> QED
    BY ZenonT(60), <2>1, <2>2, <2>3, AccountedStep
<1>3. CASE expireStalePending
  <2> DEFINE stale == {r \in Requests : row[r].status = "pending" /\ age[r] = "overdue"}
  <2>1. /\ row' = [r \in Requests |-> IF r \in stale THEN [row[r] EXCEPT !.status = "expired"] ELSE row[r]]
        /\ UNCHANGED <<age, outside, locked, call, consent, forced>>
        /\ disturbed' \subseteq Requests
    BY ZenonT(60), <1>0, <1>3 DEF expireStalePending, TypeOK
  <2>2. ASSUME NEW r \in Requests
        PROVE  /\ row'[r] \in Rows /\ SameRequest(row'[r], row[r]) /\ row'[r].executed = row[r].executed
               /\ row'[r].approvals = row[r].approvals /\ row'[r].approvers = row[r].approvers
               /\ row'[r] = row[r] \/ (row'[r].status = "expired" /\ row[r].status = "pending")
    <3>1. CASE r \in stale
      BY ZenonT(60), <1>0, <2>1, <3>1 DEF Rows, Statuses, SameRequest
    <3>2. CASE r \notin stale
      BY ZenonT(60), <1>0, <2>1, <3>2 DEF SameRequest
    <3> QED
      BY ZenonT(60), <3>1, <3>2
  <2> HIDE DEF stale
  <2>3. TypeOK'
    BY ZenonT(60), <1>0, <2>1, <2>2 DEF TypeOK, outside
  <2>4. Grows
    BY SMTT(60), Z3T(60), <1>0, <2>1, <2>2 DEF Grows, outside, TypeOK
  <2>5. \A r \in Requests : row'[r] = row[r] \/ RowInv(r)'
    BY SMTT(60), Z3T(60), <1>0, <2>1, <2>2 DEF RowInv, Backed, Justified, SameRequest
  <2>6. Accounted
    BY ZenonT(60), <2>1, <2>2, <2>5 DEF Accounted, outside
  <2> QED
    BY ZenonT(60), <2>3, <2>4, <2>6, AccountedStep
<1> QED
  BY ZenonT(60), <1>1, <1>2, <1>3

-----------------------------------------------------------------------------
(* The effects, and the rest of the system.                                *)

LEMMA CreditInductive ==
  ASSUME ApprovalInv, NEW c \in Calls, executeCredit(c)
  PROVE  ApprovalInv'
<1>0. PICK r \in Requests : r = call[c].req
  BY ZenonT(60) DEF executeCredit, ApprovalInv, CallInv
<1>1. CallInv(c) /\ TypeOK /\ r \in Requests /\ row[r].status # "unused" /\ applied[r] \in Nat
      /\ call[c].at = "execute" /\ executable(call[c].seen) /\ goes(c, "record")
      /\ UNCHANGED <<row, age, withdrawal, deposited, locked, history>>
  BY ZenonT(60), <1>0 DEF executeCredit, ApprovalInv, CallInv, TypeOK, table
<1>2. Quorate(r)
  BY ZenonT(60), <1>0, <1>1, ExecutableQuorate
<1>3. /\ call' \in [Calls -> CallStates]
      /\ call'[c].at = "record" /\ call'[c].seen = call[c].seen /\ call'[c].req = r
      /\ \A d \in Calls : d # c => call'[d] = call[d]
  BY ZenonT(60), <1>0, <1>1, GoesType DEF Stages
<1>4. \/ r \in deposited /\ applied' = applied
      \/ applied' = [applied EXCEPT ![r] = @ + 1]
  BY ZenonT(60), <1>0 DEF executeCredit
<1>5. /\ applied' \in [Requests -> Nat] /\ \A q \in Requests : applied[q] <= applied'[q]
      /\ \A q \in Requests : q # r => applied'[q] = applied[q]
      /\ r \in deposited \/ applied'[r] > 0
  BY SMTT(60), Z3T(60), <1>1, <1>4 DEF TypeOK
<1>6. TypeOK'
  BY ZenonT(60), <1>1, <1>3, <1>5 DEF TypeOK, history
<1>7. Grows
  BY ZenonT(60), <1>1, <1>5 DEF Grows, history, SameRequest
<1>8. Quorate(r)' /\ Done(r)'
  <2>1. Quorate(r)'
    BY ZenonT(60), <1>1, <1>2, <1>6, <1>7, QuorateStays
  <2>2. Done(r)'
    BY ZenonT(60), <1>1, <1>5 DEF Done
  <2> QED
    BY ZenonT(60), <2>1, <2>2
<1>9. CallInv(c)'
  BY ZenonT(60), <1>0, <1>1, <1>3, <1>8 DEF CallInv, Backed, SameRequest, history
<1>10. RowInv(r)'
  BY ZenonT(60), <1>1, <1>7, OtherRow DEF ApprovalInv
<1>11. Accounted
  BY ZenonT(60), <1>1, <1>3, <1>5, <1>8, <1>9, <1>10 DEF Accounted
<1> QED
  BY ZenonT(60), <1>6, <1>7, <1>11, AccountedStep

LEMMA ApproveWithdrawalInductive ==
  ASSUME ApprovalInv, NEW c \in Calls, approveWithdrawal(c)
  PROVE  ApprovalInv'
<1>0. PICK r \in Requests : r = call[c].req
  BY ZenonT(60) DEF approveWithdrawal, ApprovalInv, CallInv
<1>4. PICK w : w = call[c].seen.target
  BY ZenonT(60)
<1>1. CallInv(c) /\ TypeOK /\ r \in Requests /\ row[r].status # "unused" /\ RowInv(r)
      /\ call[c].at = "transact" /\ UNCHANGED <<row, age, deposited, applied, history>>
      /\ locked \subseteq Withdrawals /\ disturbed \subseteq Requests
  BY ZenonT(60), <1>0 DEF approveWithdrawal, ApprovalInv, CallInv, TypeOK, table
<1>2. CASE throws(c) /\ unlock(c) /\ UNCHANGED withdrawal
  BY ZenonT(60), <1>1, <1>2, UnlockType, QuietCall DEF outside, history
<1>3. CASE withdrawal[w] = "pending_approval" /\ withdrawal' = [withdrawal EXCEPT ![w] = "pending"]
           /\ goes(c, "enqueue") /\ UNCHANGED locked
  <2>1. row[r].target = w /\ w \in Withdrawals
    <3>1. row[r].target = w /\ row[r].kind = "withdrawal_approve" /\ w # NoWithdrawal
      BY ZenonT(60), <1>0, <1>4, <1>1 DEF CallInv, SameRequest, RowInv
    <3> QED
      BY ZenonT(60), <1>1, <3>1 DEF TypeOK, Rows
  <2>2. /\ call' \in [Calls -> CallStates]
        /\ call'[c].at = "enqueue" /\ call'[c].seen = call[c].seen /\ call'[c].req = r
        /\ \A d \in Calls : d # c => call'[d] = call[d]
    BY ZenonT(60), <1>0, <1>1, <1>3, GoesType DEF Stages
  <2>3. withdrawal'[w] = "pending" /\ \A v \in Withdrawals : v # w => withdrawal'[v] = withdrawal[v]
    BY ZenonT(60), <1>1, <1>3, <2>1 DEF TypeOK
  <2>4. TypeOK'
    BY ZenonT(60), <1>1, <1>3, <2>2 DEF TypeOK, history, Approved
  <2>5. Grows
    BY SMTT(60), Z3T(60), <1>1, <2>3 DEF Grows, history, SameRequest, TypeOK, Approved
  <2>6. Quorate(r)'
    BY ZenonT(60), <1>0, <1>1, <2>4, <2>5, QuorateStays DEF CallInv
  <2>7. Done(r)'
    BY ZenonT(60), <1>1, <2>1, <2>3, ApprovalConstants DEF Done, Approved
  <2>8. CallInv(c)'
    BY ZenonT(60), <1>0, <1>1, <2>2, <2>6, <2>7 DEF CallInv, Backed, SameRequest, history
  <2>9. Accounted
    BY ZenonT(60), <1>1, <2>1, <2>2, <2>3, <2>6, <2>8 DEF Accounted
  <2> QED
    BY ZenonT(60), <2>4, <2>5, <2>9, AccountedStep
<1> QED
  BY ZenonT(60), <1>4, <1>2, <1>3 DEF approveWithdrawal

\* A crash, the lock's expiry, and what happens elsewhere.
LEMMA SurroundingsInductive ==
  ASSUME ApprovalInv,
         \/ crash
         \/ \E w \in Withdrawals : lockExpires(w) \/ rejectWithdrawal(w) \/ finishWithdrawal(w) \/ failWithdrawal(w)
         \/ \E r \in Requests : depositCredited(r)
  PROVE  ApprovalInv'
<1> USE DEF table
<1>0. TypeOK /\ locked \subseteq Withdrawals /\ disturbed \subseteq Requests /\ call \in [Calls -> CallStates]
  BY ZenonT(60) DEF ApprovalInv, TypeOK
<1>1. CASE crash
  <2>1. NoCall \in CallStates /\ NoCall.at = "idle"
    BY SMTT(60), Z3T(60) DEF NoCall, CallStates, NoRow, Rows, Stages, Statuses
  <2>2. \A c \in Calls : call[c].at = "record" => call[c].req \in Requests
    BY ZenonT(60) DEF ApprovalInv, CallInv
  <2>3. disturbed' \subseteq Requests /\ call' \in [Calls -> CallStates]
        /\ \A c \in Calls : call'[c].at = "idle"
    BY ZenonT(60), <1>0, <1>1, <2>1, <2>2 DEF crash
  <2> QED
    BY ZenonT(60), <1>0, <1>1, <2>3, CallsOnly DEF crash
<1>2. ASSUME NEW w \in Withdrawals, lockExpires(w)
      PROVE  ApprovalInv'
  BY ZenonT(60), <1>0, <1>2, CallsOnly DEF lockExpires, history
<1>3. ASSUME NEW w \in Withdrawals, rejectWithdrawal(w) \/ finishWithdrawal(w) \/ failWithdrawal(w)
      PROVE  ApprovalInv'
  <2>1. /\ UNCHANGED <<row, age, deposited, applied, locked, call, history>>
        /\ withdrawal' \in
             [Withdrawals -> Approved \union {"pending_approval", "rejected"}]
        /\ \A v \in Withdrawals : withdrawal'[v] \in Approved <=>
             withdrawal[v] \in Approved
    BY ZenonT(60), <1>0, <1>3 DEF rejectWithdrawal, finishWithdrawal, failWithdrawal, Approved, TypeOK
  <2>2. TypeOK'
    BY ZenonT(60), <1>0, <2>1 DEF TypeOK, history
  <2>3. Grows
    BY SMTT(60), Z3T(60), <1>0, <2>1 DEF Grows, history, SameRequest, TypeOK
  <2>4. Accounted
    BY ZenonT(60), <2>1 DEF Accounted
  <2> QED
    BY ZenonT(60), <2>2, <2>3, <2>4, AccountedStep
<1>4. ASSUME NEW r \in Requests, depositCredited(r)
      PROVE  ApprovalInv'
  <2>1. UNCHANGED <<row, age, withdrawal, applied, locked, call, history>>
        /\ deposited' = deposited \union {r}
    BY ZenonT(60), <1>4 DEF depositCredited
  <2>2. TypeOK'
    BY ZenonT(60), <1>0, <2>1 DEF TypeOK, history
  <2>3. Grows
    BY SMTT(60), Z3T(60), <1>0, <2>1 DEF Grows, history, SameRequest, TypeOK
  <2>4. Accounted
    BY ZenonT(60), <2>1 DEF Accounted
  <2> QED
    BY ZenonT(60), <2>2, <2>3, <2>4, AccountedStep
<1> QED
  BY ZenonT(60), <1>1, <1>2, <1>3, <1>4

-----------------------------------------------------------------------------
(* The theorems.                                                           *)

LEMMA InitHolds == Init => ApprovalInv
<1> SUFFICES ASSUME Init PROVE ApprovalInv
  BY ZenonT(60)
<1>1. NoCall \in CallStates /\ NoCall.at = "idle" /\ NoRow \in Rows
  BY SMTT(60), Z3T(60) DEF NoCall, CallStates, NoRow, Rows, Stages, Statuses
<1>2. TypeOK
  BY ZenonT(60), <1>1 DEF Init, TypeOK
<1>3. \A r \in Requests : RowInv(r)
  BY SMTT(60), Z3T(60) DEF Init, RowInv, NoRow, Backed, Justified
<1>4. \A c \in Calls : call[c].at = "idle"
  BY ZenonT(60), <1>1 DEF Init
<1>5. QuorumBehindEffect /\ ExecutedMeansDone
  BY SMTT(60), Z3T(60) DEF Init, QuorumBehindEffect, ExecutedMeansDone, NoRow, Approved
<1> QED
  BY ZenonT(60), <1>2, <1>3, <1>4, <1>5 DEF ApprovalInv

\* Every step of the service, the execution and their surroundings keeps the
\* invariant, although each call writes what it decided from an old read.
THEOREM ApprovalInvHolds == Spec => []ApprovalInv
<1>1. Init => ApprovalInv
  BY ZenonT(60), InitHolds
<1>2. ApprovalInv /\ [Next]_vars => ApprovalInv'
  <2> SUFFICES ASSUME ApprovalInv, [Next]_vars PROVE ApprovalInv'
    BY ZenonT(60)
  <2>1. CASE UNCHANGED vars
    BY ZenonT(60), <2>1, CallsOnly DEF vars, table, outside, history, ApprovalInv, TypeOK
  <2>2. ASSUME NEW c \in Calls, callStep(c)
        PROVE  ApprovalInv'
    BY ZenonT(60), <2>2, StoreApprovalInductive, MarksInductive, StoreForcedInductive,
       CallStepsInductive, CreditInductive, ApproveWithdrawalInductive DEF callStep
  <2>3. CASE \E c \in Calls, r \in Requests :
               \/ \E a \in Admins : approveRequest(c, r, a) \/ breakGlassExecute(c, r, a)
               \/ rejectRequest(c, r)
               \/ retryExecution(c, r)
    BY ZenonT(60), <2>3, RoutesInductive
  <2> QED
    BY ZenonT(60), <2>1, <2>2, <2>3, RequestsInductive, SurroundingsInductive DEF Next
<1> QED
  BY <1>1, <1>2, PTL DEF Spec

\* No credit, control action or withdrawal approval without the required
\* approvals of admins other than the maker, or a break-glass session.
THEOREM QuorumHolds == Spec => []QuorumBehindEffect
BY ApprovalInvHolds, PTL DEF ApprovalInv

\* action_executed = TRUE is only ever written for an action that took place.
THEOREM ExecutedIsDone == Spec => []ExecutedMeansDone
BY ApprovalInvHolds, PTL DEF ApprovalInv

-----------------------------------------------------------------------------
(* Requests whose calls came one after the other.                          *)

\* Nothing that concerns the request changes.
LEMMA SerialFrame ==
  ASSUME NEW r, Serial(r), row'[r] = row[r], applied'[r] = applied[r],
         \A d \in Calls : call'[d].req = r \/ call[d].req = r => call'[d] = call[d]
  PROVE  Serial(r)'
<1>1. On(r)' = On(r) /\ \A d \in On(r) : call'[d] = call[d] /\ call[d].req = r
  BY ZenonT(60) DEF On
<1>2. \A d \in On(r) : Current(d)'
  BY SMTT(60), Z3T(60), <1>1 DEF Serial, Current
<1> QED
  BY ZenonT(60), <1>1, <1>2 DEF Serial

\* What the only call on a request knows.
LEMMA OnlyCall ==
  ASSUME SerialInv, NEW r \in Requests \ disturbed, NEW c \in Calls, call[c].req = r
  PROVE  /\ Current(c) /\ applied[r] <= 1
         /\ applied[r] > 0 => row[r].status = "approved"
         /\ applied[r] > 0 => row[r].executed \/ call[c].at = "record"
<1>1. Serial(r) /\ c \in On(r)
  BY ZenonT(60) DEF SerialInv, On
<1>2. \A d \in On(r) : d = c
  BY ZenonT(60), <1>1 DEF Serial
<1> QED
  BY ZenonT(60), <1>1, <1>2 DEF Serial

\* A step of a call changes that call and its request alone.
LEMMA CallMoves ==
  ASSUME SerialInv, NEW c \in Calls, NEW r \in Requests, call[c].req = r,
         disturbed \subseteq disturbed',
         \A q \in Requests : q # r => row'[q] = row[q] /\ applied'[q] = applied[q],
         \A d \in Calls : d # c => call'[d] = call[d],
         call'[c].req \in {r, NoRequest},
         call'[c].at = "idle" => call'[c].req = NoRequest,
         r \notin disturbed' =>
           /\ call'[c].req = r => Current(c)'
           /\ applied'[r] <= 1
           /\ applied'[r] > 0 => row'[r].status = "approved"
           /\ applied'[r] > 0 =>
                row'[r].executed \/ (call'[c].req = r /\ call'[c].at = "record")
  PROVE  SerialInv'
<1>1. \A d \in Calls : call'[d].at = "idle" => call'[d].req = NoRequest
  BY ZenonT(60) DEF SerialInv
<1>2. ASSUME NEW q \in Requests \ disturbed', q # r
      PROVE  Serial(q)'
  <2>1. Serial(q) /\ q # NoRequest
    BY ZenonT(60), ApprovalConstants DEF SerialInv
  <2>2. \A d \in Calls : call'[d].req = q \/ call[d].req = q => call'[d] = call[d]
    BY ZenonT(60), <1>2, <2>1
  <2> QED
    BY ZenonT(60), <1>2, <2>1, <2>2, SerialFrame
<1>3. ASSUME r \notin disturbed'
      PROVE  Serial(r)'
  <2>1. \A d \in On(r)' : d = c /\ call'[c].req = r
    <3>1. Serial(r) /\ c \in On(r)
      BY ZenonT(60), <1>3 DEF SerialInv, On
    <3>2. \A d \in On(r) : d = c
      BY ZenonT(60), <3>1 DEF Serial
    <3> QED
      BY SMTT(60), Z3T(60), <3>2 DEF On
  <2>2. call'[c].req = r => c \in On(r)'
    BY ZenonT(60) DEF On
  <2> QED
    BY ZenonT(60), <1>3, <2>1, <2>2 DEF Serial
<1> QED
  BY ZenonT(60), <1>1, <1>2, <1>3 DEF SerialInv

\* The call's record after each kind of step.
LEMMA GoesCall ==
  ASSUME TypeOK, NEW c \in Calls, NEW stage, goes(c, stage)
  PROVE  /\ call'[c].at = stage /\ call'[c].seen = call[c].seen
         /\ call'[c].req = call[c].req /\ call'[c].op = call[c].op
         /\ \A d \in Calls : d # c => call'[d] = call[d]
BY ZenonT(60) DEF TypeOK, CallStates, goes

LEMMA EndsCall ==
  ASSUME TypeOK, NEW c \in Calls, ends(c)
  PROVE  /\ call'[c].at = "idle" /\ call'[c].req = NoRequest
         /\ \A d \in Calls : d # c => call'[d] = call[d]
BY ZenonT(60) DEF TypeOK, ends, NoCall

LEMMA ThrowsCall ==
  ASSUME TypeOK, NEW c \in Calls, throws(c)
  PROVE  /\ \A d \in Calls : d # c => call'[d] = call[d]
         /\ \/ call'[c].at = "idle" /\ call'[c].req = NoRequest
            \/ /\ call'[c].at = "catch" /\ call'[c].seen = call[c].seen
               /\ call'[c].req = call[c].req /\ call'[c].op = call[c].op
               /\ call[c].op = "approve"
<1>1. CASE call[c].op = "approve"
  BY SMTT(60), Z3T(60), <1>1, GoesCall DEF throws
<1>2. CASE call[c].op # "approve"
  BY ZenonT(60), <1>2, EndsCall DEF throws
<1> QED
  BY ZenonT(60), <1>1, <1>2

\* A call that ends or moves on, and leaves rows and effects alone.
LEMMA MovesSerial ==
  ASSUME ApprovalInv, SerialInv, NEW c \in Calls, call[c].at \notin {"idle", "reload"},
         \A d \in Calls : d # c => call'[d] = call[d],
         \/ call'[c].at = "idle" /\ call'[c].req = NoRequest
         \/ /\ call'[c].at \in {"transact", "enqueue", "peek", "record", "reload", "catch"}
            /\ call'[c].at = "catch" => call[c].op = "approve"
            /\ call'[c].seen = call[c].seen /\ call'[c].req = call[c].req
            /\ call'[c].op = call[c].op,
         UNCHANGED <<row, applied>>, disturbed \subseteq disturbed',
         call[c].at = "record" => call[c].req \in disturbed'
  PROVE  SerialInv'
<1>0. PICK r \in Requests : r = call[c].req
  BY ZenonT(60) DEF ApprovalInv, CallInv
<1>1. TypeOK /\ r # NoRequest
  BY ZenonT(60), ApprovalConstants DEF ApprovalInv
<1>2. call'[c].req \in {r, NoRequest} /\ (call'[c].at = "idle" => call'[c].req = NoRequest)
  BY ZenonT(60), <1>0
<1>4. ASSUME r \notin disturbed'
      PROVE  /\ call'[c].req = r => Current(c)'
             /\ applied[r] <= 1
             /\ applied[r] > 0 => row[r].status = "approved"
             /\ applied[r] > 0 => row[r].executed
  <2>1. /\ Current(c) /\ applied[r] <= 1 /\ call[c].at # "record"
        /\ applied[r] > 0 => row[r].status = "approved"
        /\ applied[r] > 0 => row[r].executed \/ call[c].at = "record"
    BY ZenonT(60), <1>0, <1>4, OnlyCall
  <2>2. ASSUME call'[c].req = r
        PROVE  Current(c)'
    BY ZenonT(60), <1>0, <1>1, <2>1, <2>2 DEF Current
  <2> QED
    BY ZenonT(60), <2>1, <2>2
<1>5. row' = row /\ applied' = applied
  BY ZenonT(60)
<1> QED
  BY ZenonT(60), <1>0, <1>2, <1>4, <1>5, CallMoves

LEMMA QuietSerial ==
  ASSUME ApprovalInv, SerialInv, NEW c \in Calls, call[c].at \notin {"idle", "reload"},
         \/ ends(c)
         \/ throws(c)
         \/ \E stage \in {"transact", "enqueue", "peek", "record", "reload"} : goes(c, stage),
         UNCHANGED <<row, applied>>, disturbed \subseteq disturbed',
         call[c].at = "record" => call[c].req \in disturbed'
  PROVE  SerialInv'
<1>1. TypeOK
  BY ZenonT(60) DEF ApprovalInv
<1>2. \A d \in Calls : d # c => call'[d] = call[d]
  BY ZenonT(60), <1>1, EndsCall, ThrowsCall, GoesCall
<1>3. \/ call'[c].at = "idle" /\ call'[c].req = NoRequest
      \/ /\ call'[c].at \in {"transact", "enqueue", "peek", "record", "reload", "catch"}
         /\ call'[c].at = "catch" => call[c].op = "approve"
         /\ call'[c].seen = call[c].seen /\ call'[c].req = call[c].req
         /\ call'[c].op = call[c].op
  BY ZenonT(60), <1>1, EndsCall, ThrowsCall, GoesCall
<1> QED
  BY ZenonT(60), <1>2, <1>3, MovesSerial

\* The SELECT of a call: a second call on the same request disturbs it.
LEMMA BeginSerial ==
  ASSUME ApprovalInv, SerialInv, NEW c \in Calls, NEW r \in Requests, NEW a, NEW op,
         NEW stage \in {"update", "expire", "reject", "force", "execute"},
         begin(c, r, a, op, stage),
         op = "approve" \/ stage \in {"update", "expire", "reject"} => row[r].status = "pending"
  PROVE  SerialInv'
<1>1. /\ call'[c] = [at |-> stage, op |-> op, req |-> r, admin |-> a,
                     seen |-> row[r], holds |-> FALSE]
      /\ \A d \in Calls : d # c => call'[d] = call[d]
  BY ZenonT(60) DEF begin, ApprovalInv, TypeOK
<1>2. /\ call[c].at = "idle" /\ row' = row /\ applied' = applied
      /\ disturbed' = IF On(r) = {} THEN disturbed ELSE disturbed \union {r}
  BY ZenonT(60) DEF begin, table, outside
<1>3. call[c].req = NoRequest /\ NoRequest \notin Requests
  BY ZenonT(60), <1>2, ApprovalConstants DEF SerialInv
<1>4. /\ call'[c].at = stage /\ call'[c].op = op /\ call'[c].req = r
      /\ call'[c].seen = row[r]
  BY SMTT(60), Z3T(60), <1>1
<1>5. \A d \in Calls : call'[d].at = "idle" => call'[d].req = NoRequest
  BY ZenonT(60), <1>1, <1>4 DEF SerialInv
<1>6. ASSUME NEW q \in Requests \ disturbed', q # r
      PROVE  Serial(q)'
  <2>1. Serial(q) /\ q # NoRequest
    BY ZenonT(60), <1>2, <1>3, <1>6 DEF SerialInv
  <2>2. \A d \in Calls : call'[d].req = q \/ call[d].req = q => call'[d] = call[d]
    BY ZenonT(60), <1>1, <1>3, <1>4, <1>6, <2>1
  <2> QED
    BY ZenonT(60), <1>2, <1>6, <2>1, <2>2, SerialFrame
<1>7. ASSUME r \notin disturbed'
      PROVE  Serial(r)'
  <2>1. On(r) = {} /\ Serial(r)
    BY ZenonT(60), <1>2, <1>7 DEF SerialInv
  <2>2. On(r)' = {c}
    BY SMTT(60), Z3T(60), <1>1, <1>4, <2>1 DEF On
  <2>3. /\ applied[r] <= 1
        /\ applied[r] > 0 => row[r].status = "approved"
        /\ applied[r] > 0 => row[r].executed
        /\ applied[r] \in Nat
    BY ZenonT(60), <2>1 DEF Serial, ApprovalInv, TypeOK
  <2>4. row[r].status = "pending" => applied[r] = 0
    BY SMTT(60), Z3T(60), <2>3
  <2>5. Current(c)'
    BY ZenonT(60), <1>2, <1>4, <2>4 DEF Current
  <2> QED
    BY ZenonT(60), <1>2, <2>2, <2>3, <2>5 DEF Serial
<1> QED
  BY ZenonT(60), <1>5, <1>6, <1>7 DEF SerialInv

LEMMA RoutesSerial ==
  ASSUME ApprovalInv, SerialInv, NEW c \in Calls, NEW r \in Requests,
         \/ \E a \in Admins : approveRequest(c, r, a) \/ breakGlassExecute(c, r, a)
         \/ rejectRequest(c, r)
         \/ retryExecution(c, r)
  PROVE  SerialInv'
<1>1. ASSUME NEW a \in Admins, approveRequest(c, r, a)
      PROVE  SerialInv'
  BY ZenonT(60), <1>1, BeginSerial DEF approveRequest
<1>2. ASSUME NEW a \in Admins, breakGlassExecute(c, r, a)
      PROVE  SerialInv'
  BY ZenonT(60), <1>2, BeginSerial DEF breakGlassExecute
<1>3. CASE rejectRequest(c, r)
  BY ZenonT(60), <1>3, BeginSerial DEF rejectRequest
<1>4. CASE retryExecution(c, r)
  BY ZenonT(60), <1>4, BeginSerial DEF retryExecution
<1> QED
  BY ZenonT(60), <1>1, <1>2, <1>3, <1>4

\* The writes of a call's row: an approval, a final status, a forced approval.
LEMMA WritesSerial ==
  ASSUME ApprovalInv, SerialInv, NEW c \in Calls,
         \/ storeApproval(c)
         \/ storeStatus(c, "expire", "expired")
         \/ storeStatus(c, "reject", "rejected")
         \/ storeForced(c)
         \/ recordExecuted(c)
         \/ recordFailed(c)
  PROVE  SerialInv'
<1>0. PICK r \in Requests : r = call[c].req
  BY ZenonT(60) DEF ApprovalInv, CallInv, storeApproval, storeStatus, storeForced,
     recordExecuted, recordFailed
<1>1. TypeOK /\ r # NoRequest /\ row \in [Requests -> Rows] /\ applied[r] \in Nat
      /\ row[r] \in Rows /\ call \in [Calls -> CallStates]
  BY ZenonT(60), ApprovalConstants DEF ApprovalInv, TypeOK
<1>2. ASSUME r \notin disturbed
      PROVE  /\ Current(c) /\ applied[r] <= 1
             /\ applied[r] > 0 => row[r].status = "approved"
             /\ applied[r] > 0 => row[r].executed \/ call[c].at = "record"
  BY ZenonT(60), <1>0, <1>2, OnlyCall
<1>3. ASSUME NEW new \in Rows, row' = [row EXCEPT ![r] = new], applied' = applied,
             disturbed' = disturbed,
             \A d \in Calls : d # c => call'[d] = call[d],
             \/ call'[c].at = "idle" /\ call'[c].req = NoRequest
             \/ /\ call'[c].at \in {"execute", "reload"} /\ call'[c].req = r
                /\ call'[c].at = "execute" => call'[c].seen = new
                /\ r \notin disturbed /\ call'[c].op = "approve" => applied[r] = 0,
             r \notin disturbed /\ applied[r] > 0 => new.status = "approved" /\ new.executed
      PROVE  SerialInv'
  <2>1. row'[r] = new /\ \A q \in Requests : q # r => row'[q] = row[q]
    BY ZenonT(60), <1>1, <1>3
  <2>2. ASSUME r \notin disturbed, call'[c].req = r
        PROVE  Current(c)'
    BY ZenonT(60), <1>1, <1>3, <2>1, <2>2 DEF Current
  <2>3. r \notin disturbed => applied'[r] <= 1
    BY ZenonT(60), <1>2, <1>3
  <2>4. call'[c].req \in {r, NoRequest} /\ (call'[c].at = "idle" => call'[c].req = NoRequest)
    BY ZenonT(60), <1>3
  <2>5. \A q \in Requests : q # r => row'[q] = row[q] /\ applied'[q] = applied[q]
    BY ZenonT(60), <1>3, <2>1
  <2>6. r \notin disturbed =>
          /\ applied'[r] > 0 => row'[r].status = "approved"
          /\ applied'[r] > 0 => row'[r].executed
    BY ZenonT(60), <1>3, <2>1
  <2> QED
    BY ZenonT(60), <1>0, <1>3, <2>2, <2>3, <2>4, <2>5, <2>6, CallMoves
<1>4. CASE storeApproval(c)
  <2> DEFINE new == approvedRow(r, call[c].seen, call[c].admin)
  <2>1. new \in Rows
    <3>1. call[c].at = "update" /\ call[c].seen \in Rows /\ call[c].admin \in Admins
      BY ZenonT(60), <1>0, <1>1, <1>4 DEF storeApproval, ApprovalInv, CallInv, CallStates
    <3>2. call[c].seen.approvals + 1 \in Nat
          /\ Append(call[c].seen.approvers, call[c].admin) \in Seq(Admins)
      BY SMTT(60), Z3T(60), <3>1 DEF Rows
    <3> QED
      BY ZenonT(60), <1>1, <3>2 DEF approvedRow, Rows, Statuses
  <2>2. /\ row' = [row EXCEPT ![r] = new] /\ applied' = applied /\ disturbed' = disturbed
        /\ call[c].at = "update"
        /\ call' = [call EXCEPT ![c].at = "execute", ![c].seen = new] \/ ends(c)
    BY ZenonT(60), <1>0, <1>4 DEF storeApproval, outside
  <2> HIDE DEF new
  <2>3. r \notin disturbed => applied[r] = 0
    BY SMTT(60), Z3T(60), <1>0, <1>1, <1>2, <2>2 DEF Current
  <2>4. CASE call' = [call EXCEPT ![c].at = "execute", ![c].seen = new]
    <3>1. /\ call'[c].at = "execute" /\ call'[c].seen = new /\ call'[c].req = r
          /\ \A d \in Calls : d # c => call'[d] = call[d]
      BY ZenonT(60), <1>0, <1>1, <2>4 DEF CallStates
    <3>2. r \notin disturbed => ~(applied[r] > 0)
      BY SMTT(60), Z3T(60), <2>3
    <3> QED
      BY ZenonT(60), <1>3, <2>1, <2>2, <2>3, <3>1, <3>2
  <2>5. CASE ends(c)
    <3>2. r \notin disturbed => ~(applied[r] > 0)
      BY SMTT(60), Z3T(60), <2>3
    <3> QED
      BY ZenonT(60), <1>1, <1>3, <2>1, <2>2, <2>5, <3>2, EndsCall
  <2> QED
    BY ZenonT(60), <2>2, <2>4, <2>5
<1>5. ASSUME NEW stage \in {"expire", "reject"}, NEW status \in {"expired", "rejected"},
             storeStatus(c, stage, status)
      PROVE  SerialInv'
  <2> DEFINE new == [row[r] EXCEPT !.status = status]
  <2>1. new \in Rows
    BY ZenonT(60), <1>1, <1>5 DEF Rows, Statuses
  <2>2. /\ row' = [row EXCEPT ![r] = new] /\ applied' = applied /\ disturbed' = disturbed
        /\ call[c].at = stage /\ ends(c)
    BY ZenonT(60), <1>0, <1>5 DEF storeStatus, outside, history
  <2> HIDE DEF new
  <2>3. r \notin disturbed => ~(applied[r] > 0)
    BY ZenonT(60), <1>0, <1>1, <1>2, <1>5, <2>2 DEF Current
  <2> QED
    BY ZenonT(60), <1>1, <1>3, <2>1, <2>2, <2>3, EndsCall
<1>6. CASE storeForced(c)
  <2> DEFINE new == forcedRow(r, call[c].seen, call[c].admin)
  <2>1. new \in Rows
    <3>1. call[c].at = "force" /\ call[c].seen \in Rows /\ call[c].admin \in Admins
      BY ZenonT(60), <1>0, <1>1, <1>6 DEF storeForced, ApprovalInv, CallInv, CallStates
    <3>2. row[r].approvals \in Nat /\ row[r].required \in Nat
          /\ withActor(call[c].seen.approvers, call[c].admin) \in Seq(Admins)
      BY SMTT(60), Z3T(60), <1>1, <3>1 DEF Rows, withActor
    <3> QED
      BY ZenonT(60), <1>1, <3>2 DEF forcedRow, Rows, Statuses
  <2>2. /\ applied' = applied /\ disturbed' = disturbed /\ call[c].at = "force"
        /\ \/ row' = row /\ (goes(c, "reload") \/ ends(c))
           \/ /\ call[c].seen.status # "approved"
              /\ row' = [row EXCEPT ![r] = new] /\ goes(c, "reload")
    BY ZenonT(60), <1>0, <1>6 DEF storeForced, outside
  <2> HIDE DEF new
  <2>3. CASE row' = row /\ (goes(c, "reload") \/ ends(c))
    BY ZenonT(60), <2>2, <2>3, QuietSerial
  <2>4. CASE call[c].seen.status # "approved"
             /\ row' = [row EXCEPT ![r] = new] /\ goes(c, "reload")
    <3>1. r \notin disturbed => ~(applied[r] > 0) /\ applied[r] = 0
      BY SMTT(60), Z3T(60), <1>0, <1>1, <1>2, <2>2, <2>4 DEF Current
    <3>2. /\ call'[c].at = "reload" /\ call'[c].req = r
          /\ \A d \in Calls : d # c => call'[d] = call[d]
      BY ZenonT(60), <1>0, <1>1, <2>4, GoesCall
    <3>3. call'[c].at \in {"execute", "reload"} /\ call'[c].at # "execute"
      BY ZenonT(60), <3>2
    <3> QED
      BY ZenonT(60), <1>3, <2>1, <2>2, <2>4, <3>1, <3>2, <3>3
  <2> QED
    BY ZenonT(60), <2>2, <2>3, <2>4
<1>7. CASE recordExecuted(c)
  <2> DEFINE new == [row[r] EXCEPT !.executed = TRUE]
  <2>1. new \in Rows /\ new.executed /\ new.status = row[r].status
    BY ZenonT(60), <1>1 DEF Rows
  <2>2. /\ row' = [row EXCEPT ![r] = new] /\ applied' = applied /\ disturbed' = disturbed
        /\ ends(c)
    BY ZenonT(60), <1>0, <1>7 DEF recordExecuted, outside, history
  <2> HIDE DEF new
  <2> QED
    BY ZenonT(60), <1>1, <1>2, <1>3, <2>1, <2>2, EndsCall
<1>8. CASE recordFailed(c)
  <2> DEFINE new == [row[r] EXCEPT !.executed = FALSE]
  <2>1. new \in Rows
    BY ZenonT(60), <1>1 DEF Rows
  <2>2. /\ row' = [row EXCEPT ![r] = new] /\ applied' = applied /\ disturbed' = disturbed
        /\ call[c].at = "catch" /\ ends(c)
    BY ZenonT(60), <1>0, <1>8 DEF recordFailed, outside, history
  <2> HIDE DEF new
  <2>3. r \notin disturbed => ~(applied[r] > 0)
    BY SMTT(60), Z3T(60), <1>0, <1>1, <1>2, <2>2 DEF Current
  <2> QED
    BY ZenonT(60), <1>1, <1>3, <2>1, <2>2, <2>3, EndsCall
<1> QED
  BY ZenonT(60), <1>4, <1>5, <1>6, <1>7, <1>8

\* The other steps of a call: an effect is marked by the call at "record".
LEMMA CallStepsSerial ==
  ASSUME ApprovalInv, SerialInv, NEW c \in Calls,
         \/ reload(c)
         \/ nothingToExecute(c)
         \/ executeCredit(c)
         \/ lockWithdrawal(c)
         \/ peek(c)
         \/ approveWithdrawal(c)
         \/ enqueueWithdrawal(c)
         \/ statementFails(c)
  PROVE  SerialInv'
<1> USE DEF table, outside, history
<1>0. PICK r \in Requests : r = call[c].req
  BY ZenonT(60) DEF ApprovalInv, CallInv, reload, nothingToExecute, executeCredit,
     lockWithdrawal, peek, approveWithdrawal, enqueueWithdrawal, statementFails
<1>1. TypeOK /\ r # NoRequest /\ applied \in [Requests -> Nat] /\ call \in [Calls -> CallStates]
  BY ZenonT(60), ApprovalConstants DEF ApprovalInv, TypeOK
<1>2. ASSUME r \notin disturbed
      PROVE  /\ Current(c) /\ applied[r] <= 1
             /\ applied[r] > 0 => row[r].status = "approved"
             /\ applied[r] > 0 => row[r].executed \/ call[c].at = "record"
  BY ZenonT(60), <1>0, <1>2, OnlyCall
<1>3. CASE reload(c)
  <2>1. /\ call[c].at = "reload" /\ row' = row /\ applied' = applied /\ disturbed' = disturbed
        /\ call' = [call EXCEPT ![c].seen = row[r], ![c].at = "execute"]
    BY ZenonT(60), <1>0, <1>3 DEF reload
  <2>2. /\ call'[c].at = "execute" /\ call'[c].seen = row[r] /\ call'[c].req = r
        /\ call'[c].op = call[c].op
        /\ \A d \in Calls : d # c => call'[d] = call[d]
    BY ZenonT(60), <1>0, <1>1, <2>1 DEF CallStates
  <2>3. r \notin disturbed' => Current(c)'
    BY ZenonT(60), <1>0, <1>2, <2>1, <2>2 DEF Current
  <2>4. /\ call'[c].req \in {r, NoRequest} /\ call'[c].at # "idle" /\ call[c].at # "record"
        /\ \A q \in Requests : q # r => row'[q] = row[q] /\ applied'[q] = applied[q]
    BY ZenonT(60), <2>1, <2>2
  <2> QED
    BY ZenonT(60), <1>0, <1>2, <2>1, <2>2, <2>3, <2>4, CallMoves
<1>4. CASE nothingToExecute(c)
  BY ZenonT(60), <1>4, QuietSerial DEF nothingToExecute
<1>5. CASE executeCredit(c)
  <2>1. /\ call[c].at = "execute" /\ executable(call[c].seen) /\ goes(c, "record")
        /\ applied' = applied \/ applied' = [applied EXCEPT ![r] = @ + 1]
        /\ row' = row /\ disturbed' = disturbed
    BY ZenonT(60), <1>0, <1>5 DEF executeCredit
  <2>2. /\ call'[c].at = "record" /\ call'[c].seen = call[c].seen /\ call'[c].req = r
        /\ call'[c].op = call[c].op
        /\ \A d \in Calls : d # c => call'[d] = call[d]
    BY ZenonT(60), <1>0, <1>1, <2>1, GoesCall
  <2>3. \A q \in Requests : q # r => row'[q] = row[q] /\ applied'[q] = applied[q]
    BY ZenonT(60), <1>1, <2>1
  <2>4. ASSUME r \notin disturbed
        PROVE  /\ call[c].seen = row[r] /\ row[r].status = "approved" /\ applied[r] = 0
               /\ applied'[r] <= 1
    <3>1. call[c].seen = row[r] /\ row[r].status = "approved" /\ ~row[r].executed
      BY ZenonT(60), <1>0, <1>2, <2>1, <2>4 DEF Current, executable
    <3>2. applied[r] = 0
      BY SMTT(60), Z3T(60), <1>1, <1>2, <2>1, <2>4, <3>1
    <3> QED
      BY SMTT(60), Z3T(60), <1>1, <2>1, <3>1, <3>2
  <2>5. r \notin disturbed => Current(c)'
    BY ZenonT(60), <1>0, <2>1, <2>2, <2>4 DEF Current
  <2>6. call'[c].req \in {r, NoRequest} /\ call'[c].at # "idle"
    BY ZenonT(60), <2>2
  <2> QED
    BY ZenonT(60), <1>0, <2>1, <2>2, <2>3, <2>4, <2>5, <2>6, CallMoves
<1>6. CASE lockWithdrawal(c)
  <2>1. call[c].at = "execute" /\ row' = row /\ applied' = applied /\ disturbed' = disturbed
    BY ZenonT(60), <1>6 DEF lockWithdrawal
  <2>2. CASE call' = [call EXCEPT ![c].at = "transact", ![c].holds = TRUE]
    <3>1. /\ call'[c].at = "transact" /\ call'[c].seen = call[c].seen
          /\ call'[c].req = call[c].req /\ call'[c].op = call[c].op
          /\ \A d \in Calls : d # c => call'[d] = call[d]
      BY ZenonT(60), <1>1, <2>2 DEF CallStates
    <3> QED
      BY ZenonT(60), <2>1, <3>1, MovesSerial
  <2>3. CASE goes(c, "peek") \/ goes(c, "transact")
    BY ZenonT(60), <2>1, <2>3, QuietSerial
  <2> QED
    BY ZenonT(60), <1>6, <2>2, <2>3 DEF lockWithdrawal
<1>7. CASE peek(c)
  BY ZenonT(60), <1>7, QuietSerial DEF peek
<1>8. CASE approveWithdrawal(c)
  <2>1. /\ call[c].at = "transact" /\ row' = row /\ applied' = applied /\ disturbed' = disturbed
        /\ goes(c, "enqueue") \/ throws(c)
    BY ZenonT(60), <1>8 DEF approveWithdrawal
  <2> QED
    BY ZenonT(60), <2>1, QuietSerial
<1>9. CASE enqueueWithdrawal(c)
  BY ZenonT(60), <1>9, QuietSerial DEF enqueueWithdrawal
<1>10. CASE statementFails(c)
  <2>1. /\ call[c].at # "idle" /\ row' = row /\ applied' = applied
        /\ throws(c) \/ ends(c)
        /\ disturbed' = disturbed \union {q \in {call[c].req} : call[c].at = "record"}
    BY ZenonT(60), <1>10 DEF statementFails
  <2>2. CASE call[c].at = "reload"
    <3>1. ends(c) /\ disturbed \subseteq disturbed'
      BY ZenonT(60), <1>10, <2>1, <2>2 DEF statementFails
    <3>2. /\ call'[c].at = "idle" /\ call'[c].req = NoRequest
          /\ \A d \in Calls : d # c => call'[d] = call[d]
      BY ZenonT(60), <1>1, <3>1, EndsCall
    <3>3. \A q \in Requests : q # r => row'[q] = row[q] /\ applied'[q] = applied[q]
      BY ZenonT(60), <2>1
    <3>4. r \notin disturbed' =>
            /\ applied'[r] <= 1
            /\ applied'[r] > 0 => row'[r].status = "approved"
            /\ applied'[r] > 0 => row'[r].executed
      BY ZenonT(60), <1>2, <2>1, <2>2, <3>1
    <3> QED
      BY ZenonT(60), <1>0, <1>1, <3>1, <3>2, <3>3, <3>4, CallMoves
  <2>3. CASE call[c].at # "reload"
    BY ZenonT(60), <2>1, <2>3, QuietSerial
  <2> QED
    BY ZenonT(60), <2>2, <2>3
<1> QED
  BY ZenonT(60), <1>3, <1>4, <1>5, <1>6, <1>7, <1>8, <1>9, <1>10

\* New requests, the sweep of overdue ones, and a crash of the process.
LEMMA RestSerial ==
  ASSUME ApprovalInv, SerialInv,
         \/ \E r \in Requests, a \in Admins : createRequest(r, a)
         \/ expireStalePending
         \/ crash
         \/ UNCHANGED <<row, applied, call, disturbed>>
  PROVE  SerialInv'
<1> USE DEF table, outside, history
<1>0. TypeOK /\ row \in [Requests -> Rows] /\ applied \in [Requests -> Nat]
      /\ NoRequest \notin Requests
  BY ZenonT(60), ApprovalConstants DEF ApprovalInv, TypeOK
<1>1. ASSUME call' = call, disturbed \subseteq disturbed', applied' = applied,
             \A r \in Requests \ disturbed' :
               row'[r] = row[r] \/ (On(r) = {} /\ applied[r] = 0)
      PROVE  SerialInv'
  <2>1. ASSUME NEW r \in Requests \ disturbed'
        PROVE  Serial(r)'
    <3>1. Serial(r)
      BY ZenonT(60), <1>1 DEF SerialInv
    <3>2. CASE row'[r] = row[r]
      BY ZenonT(60), <1>1, <3>1, <3>2, SerialFrame
    <3>3. CASE On(r) = {} /\ applied[r] = 0
      <4>1. On(r)' = {} /\ applied'[r] = 0
        BY ZenonT(60), <1>1, <3>3 DEF On
      <4> QED
        BY SMTT(60), Z3T(60), <4>1 DEF Serial
    <3> QED
      BY ZenonT(60), <1>1, <3>2, <3>3
  <2> QED
    BY ZenonT(60), <1>1, <2>1 DEF SerialInv
<1>2. ASSUME NEW r \in Requests, NEW a \in Admins, createRequest(r, a)
      PROVE  SerialInv'
  <2>1. /\ row[r].status = "unused" /\ call' = call /\ disturbed' = disturbed
        /\ applied' = applied
        /\ \A q \in Requests : q # r => row'[q] = row[q]
    BY ZenonT(60), <1>0, <1>2 DEF createRequest
  <2>2. applied[r] = 0
    BY ZenonT(60), <2>1 DEF ApprovalInv, RowInv
  <2>3. \A c \in Calls : call[c].req # r
    BY ZenonT(60), <1>0, <2>1 DEF ApprovalInv, CallInv, SerialInv
  <2> QED
    BY ZenonT(60), <1>1, <2>1, <2>2, <2>3 DEF On
<1>3. CASE expireStalePending
  <2> DEFINE stale == {r \in Requests : row[r].status = "pending" /\ age[r] = "overdue"}
  <2>1. /\ call' = call /\ applied' = applied
        /\ disturbed' = disturbed \union {r \in stale : On(r) # {}}
        /\ \A r \in Requests \ stale : row'[r] = row[r]
    BY ZenonT(60), <1>3 DEF expireStalePending
  <2>2. \A r \in stale \ disturbed : applied[r] = 0
    BY SMTT(60), Z3T(60), <1>0 DEF SerialInv, Serial
  <2>3. \A r \in stale \ disturbed' : On(r) = {} /\ applied[r] = 0
    BY ZenonT(60), <2>1, <2>2
  <2> HIDE DEF stale
  <2> QED
    BY ZenonT(60), <1>1, <2>1, <2>3
<1>4. CASE crash
  <2>1. /\ \A c \in Calls : call'[c] = NoCall
        /\ disturbed' = disturbed \union
             {call[c].req : c \in {d \in Calls : call[d].at = "record"}}
        /\ row' = row /\ applied' = applied
    BY ZenonT(60), <1>4 DEF crash
  <2>2. \A c \in Calls : call'[c].req = NoRequest
    BY SMTT(60), Z3T(60), <2>1 DEF NoCall
  <2>3. ASSUME NEW r \in Requests \ disturbed'
        PROVE  Serial(r)'
    <3>1. Serial(r) /\ \A c \in On(r) : call[c].at # "record"
      BY ZenonT(60), <2>1 DEF SerialInv, On
    <3>2. On(r)' = {}
      BY ZenonT(60), <1>0, <2>2 DEF On
    <3> QED
      BY ZenonT(60), <2>1, <3>1, <3>2 DEF Serial
  <2> QED
    BY ZenonT(60), <2>2, <2>3 DEF SerialInv
<1>5. CASE UNCHANGED <<row, applied, call, disturbed>>
  BY ZenonT(60), <1>1, <1>5
<1> QED
  BY ZenonT(60), <1>2, <1>3, <1>4, <1>5

\* The strengthening that speaks of requests whose calls did not overlap.
THEOREM SerialInvHolds == Spec => []SerialInv
<1>1. Init => SerialInv
  <2> SUFFICES ASSUME Init PROVE SerialInv
    BY ZenonT(60)
  <2>1. \A c \in Calls : call[c].req = NoRequest
    BY ZenonT(60) DEF Init, NoCall
  <2>2. \A r \in Requests : On(r) = {} /\ applied[r] = 0
    BY ZenonT(60), <2>1, ApprovalConstants DEF On, Init
  <2> QED
    BY SMTT(60), Z3T(60), <2>1, <2>2 DEF SerialInv, Serial
<1>2. ApprovalInv /\ SerialInv /\ [Next]_vars => SerialInv'
  <2> SUFFICES ASSUME ApprovalInv, SerialInv, [Next]_vars PROVE SerialInv'
    BY ZenonT(60)
  <2>1. ASSUME NEW c \in Calls, callStep(c)
        PROVE  SerialInv'
    BY ZenonT(60), <2>1, WritesSerial, CallStepsSerial DEF callStep
  <2>2. CASE \E c \in Calls, r \in Requests :
               \/ \E a \in Admins : approveRequest(c, r, a) \/ breakGlassExecute(c, r, a)
               \/ rejectRequest(c, r)
               \/ retryExecution(c, r)
    BY ZenonT(60), <2>2, RoutesSerial
  <2>3. CASE UNCHANGED vars
    BY ZenonT(60), <2>3, RestSerial DEF vars, table, outside, history
  <2>4. ASSUME \/ \E r \in Requests : grow(r) \/ depositCredited(r)
               \/ \E w \in Withdrawals :
                    lockExpires(w) \/ rejectWithdrawal(w) \/ finishWithdrawal(w) \/ failWithdrawal(w)
        PROVE  SerialInv'
    <3>1. UNCHANGED <<row, applied, call, disturbed>>
      BY ZenonT(60), <2>4 DEF grow, depositCredited, lockExpires, rejectWithdrawal, finishWithdrawal, failWithdrawal,
         table, outside, history
    <3> QED
      BY ZenonT(60), <3>1, RestSerial
  <2> QED
    BY ZenonT(60), <2>1, <2>2, <2>3, <2>4, RestSerial DEF Next
<1> QED
  BY <1>1, <1>2, ApprovalInvHolds, PTL DEF Spec

\* One credit at most, none behind a rejected or expired request, and none that
\* left no mark, on every request whose calls came one after the other.
THEOREM UndisturbedRunsOnce == Spec => []UndisturbedRequestRunsOnce
<1>1. ApprovalInv /\ SerialInv => UndisturbedRequestRunsOnce
  BY SMTT(60), Z3T(60) DEF ApprovalInv, TypeOK, SerialInv, Serial, UndisturbedRequestRunsOnce
<1> QED
  BY <1>1, ApprovalInvHolds, SerialInvHolds, PTL

=============================================================================
