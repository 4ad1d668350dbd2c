---------------------------- MODULE Approvals_proofs ----------------------------
(***************************************************************************)
(* Theorem about Approvals: for any number of requests, reviewers and      *)
(* runs, no guarded action is taken without a timely human approval.       *)
(***************************************************************************)
EXTENDS Approvals, TLAPS

\* Every step of requests, reviews, expiry, guards and crashes keeps what the
\* guards rely on.
LEMMA ApprovalStep ==
    ASSUME ApprovalInv, [Next]_vars PROVE ApprovalInv'
<1> USE ApprovalsAssumption DEF requestVars, reviewVars, runVars
<1>0. TypeOK /\ UsableInTime /\ ReviewedVisible /\ AskedHidden /\ BasisInTime
      /\ NoActionWithoutReview
  BY DEF ApprovalInv
<1>1. ASSUME NEW r \in Requests, NEW a \in Actions, CreateApproval(r, a)
      PROVE  ApprovalInv'
  <2>0. /\ \A q \in Requests : q # r => status'[q] = status[q] /\ about'[q] = about[q]
        /\ status[r] = "none" /\ status' \in [Requests -> Statuses]
    BY <1>0, <1>1 DEF CreateApproval, TypeOK, Statuses
  <2>1. TypeOK'
    BY <2>0, <1>0, <1>1 DEF CreateApproval, TypeOK, Statuses
  <2>2. UsableInTime'
    BY <2>0, <1>0, <1>1 DEF CreateApproval, UsableInTime, Visible, TypeOK, Statuses
  <2>3. ReviewedVisible'
    BY <2>0, <1>0, <1>1 DEF CreateApproval, ReviewedVisible, Visible, TypeOK, Statuses
  <2>4. AskedHidden'
    BY <2>0, <1>0, <1>1 DEF CreateApproval, AskedHidden, ReviewedVisible, Visible, TypeOK, Statuses
  <2>5. BasisInTime'
    BY <2>0, <1>0, <1>1 DEF CreateApproval, BasisInTime, UsableInTime, AskedHidden, Visible, TypeOK
  <2>6. NoActionWithoutReview'
    BY <2>0, <1>0, <1>1 DEF CreateApproval, NoActionWithoutReview, BasisInTime, UsableInTime, AskedHidden, Visible, Acted, TypeOK
  <2> QED
    BY <2>1, <2>2, <2>3, <2>4, <2>5, <2>6 DEF ApprovalInv
<1>2. ASSUME NEW r \in Requests, Lapse(r)
      PROVE  ApprovalInv'
  <2>1. TypeOK'
    BY <1>0, <1>2 DEF Lapse, TypeOK, Statuses
  <2>2. UsableInTime'
    BY <1>0, <1>2 DEF Lapse, UsableInTime, Visible, TypeOK, Statuses
  <2>3. ReviewedVisible'
    BY <1>0, <1>2 DEF Lapse, ReviewedVisible, Visible, TypeOK, Statuses
  <2>4. AskedHidden'
    BY <1>0, <1>2 DEF Lapse, AskedHidden, ReviewedVisible, Visible, TypeOK, Statuses
  <2>5. BasisInTime'
    BY <1>0, <1>2 DEF Lapse, BasisInTime, UsableInTime, AskedHidden, Visible, TypeOK
  <2>6. NoActionWithoutReview'
    BY <1>0, <1>2 DEF Lapse, NoActionWithoutReview, BasisInTime, UsableInTime, AskedHidden, Visible, Acted, TypeOK
  <2> QED
    BY <2>1, <2>2, <2>3, <2>4, <2>5, <2>6 DEF ApprovalInv
<1>3. CASE CheckExpiredApprovals
  <2>1. TypeOK'
    BY <1>0, <1>3 DEF CheckExpiredApprovals, Lapsed, TypeOK, Statuses
  <2>2. UsableInTime'
    BY <1>0, <1>3 DEF CheckExpiredApprovals, Lapsed, UsableInTime, Visible, TypeOK, Statuses
  <2>3. ReviewedVisible'
    BY <1>0, <1>3 DEF CheckExpiredApprovals, Lapsed, ReviewedVisible, Visible, TypeOK, Statuses
  <2>4. AskedHidden'
    BY <1>0, <1>3 DEF CheckExpiredApprovals, Lapsed, AskedHidden, ReviewedVisible, Visible, TypeOK, Statuses
  <2>5. BasisInTime'
    BY <1>0, <1>3 DEF CheckExpiredApprovals, Lapsed, BasisInTime, UsableInTime, AskedHidden, Visible, TypeOK
  <2>6. NoActionWithoutReview'
    BY <1>0, <1>3 DEF CheckExpiredApprovals, Lapsed, NoActionWithoutReview, BasisInTime, UsableInTime, AskedHidden, Visible, Acted, TypeOK
  <2> QED
    BY <2>1, <2>2, <2>3, <2>4, <2>5, <2>6 DEF ApprovalInv
<1>4. ASSUME NEW v \in Reviewers, NEW r \in Requests, ReviewRead(v, r)
      PROVE  ApprovalInv'
  <2>1. TypeOK'
    BY <1>0, <1>4 DEF ReviewRead, TypeOK, Statuses
  <2>2. UsableInTime'
    BY <1>0, <1>4 DEF ReviewRead, UsableInTime, Visible, TypeOK, Statuses
  <2>3. ReviewedVisible'
    BY <1>0, <1>4 DEF ReviewRead, ReviewedVisible, Visible, TypeOK, Statuses
  <2>4. AskedHidden'
    BY <1>0, <1>4 DEF ReviewRead, AskedHidden, ReviewedVisible, Visible, TypeOK, Statuses
  <2>5. BasisInTime'
    BY <1>0, <1>4 DEF ReviewRead, BasisInTime, UsableInTime, AskedHidden, Visible, TypeOK
  <2>6. NoActionWithoutReview'
    BY <1>0, <1>4 DEF ReviewRead, NoActionWithoutReview, BasisInTime, UsableInTime, AskedHidden, Visible, Acted, TypeOK
  <2> QED
    BY <2>1, <2>2, <2>3, <2>4, <2>5, <2>6 DEF ApprovalInv
<1>5. ASSUME NEW v \in Reviewers, ReviewCommit(v)
      PROVE  ApprovalInv'
  <2>1. TypeOK'
    BY <1>0, <1>5 DEF ReviewCommit, TypeOK, Statuses
  <2>2. UsableInTime'
    BY <1>0, <1>5 DEF ReviewCommit, UsableInTime, ReviewedVisible, Visible, TypeOK, Statuses
  <2>3. ReviewedVisible'
    BY <1>0, <1>5 DEF ReviewCommit, ReviewedVisible, Visible, TypeOK, Statuses
  <2>4. AskedHidden'
    BY <1>0, <1>5 DEF ReviewCommit, AskedHidden, ReviewedVisible, Visible, TypeOK, Statuses
  <2>5. BasisInTime'
    BY <1>0, <1>5 DEF ReviewCommit, BasisInTime, UsableInTime, AskedHidden, Visible, TypeOK
  <2>6. NoActionWithoutReview'
    BY <1>0, <1>5 DEF ReviewCommit, NoActionWithoutReview, BasisInTime, UsableInTime, AskedHidden, Visible, Acted, TypeOK
  <2> QED
    BY <2>1, <2>2, <2>3, <2>4, <2>5, <2>6 DEF ApprovalInv
<1>6. ASSUME NEW v \in Reviewers, ReviewAbort(v)
      PROVE  ApprovalInv'
  <2>1. TypeOK'
    BY <1>0, <1>6 DEF ReviewAbort, TypeOK, Statuses
  <2>2. UsableInTime'
    BY <1>0, <1>6 DEF ReviewAbort, UsableInTime, Visible, TypeOK, Statuses
  <2>3. ReviewedVisible'
    BY <1>0, <1>6 DEF ReviewAbort, ReviewedVisible, Visible, TypeOK, Statuses
  <2>4. AskedHidden'
    BY <1>0, <1>6 DEF ReviewAbort, AskedHidden, ReviewedVisible, Visible, TypeOK, Statuses
  <2>5. BasisInTime'
    BY <1>0, <1>6 DEF ReviewAbort, BasisInTime, UsableInTime, AskedHidden, Visible, TypeOK
  <2>6. NoActionWithoutReview'
    BY <1>0, <1>6 DEF ReviewAbort, NoActionWithoutReview, BasisInTime, UsableInTime, AskedHidden, Visible, Acted, TypeOK
  <2> QED
    BY <2>1, <2>2, <2>3, <2>4, <2>5, <2>6 DEF ApprovalInv
<1>7. ASSUME NEW g \in Runs, GuardReuse(g)
      PROVE  ApprovalInv'
  <2>1. TypeOK'
    BY <1>0, <1>7 DEF GuardReuse, ExistingApproval, TypeOK, Statuses
  <2>2. UsableInTime'
    BY <1>0, <1>7 DEF GuardReuse, ExistingApproval, UsableInTime, Visible, TypeOK, Statuses
  <2>3. ReviewedVisible'
    BY <1>0, <1>7 DEF GuardReuse, ExistingApproval, ReviewedVisible, Visible, TypeOK, Statuses
  <2>4. AskedHidden'
    BY <1>0, <1>7 DEF GuardReuse, ExistingApproval, AskedHidden, ReviewedVisible, Visible, TypeOK, Statuses
  <2>5. BasisInTime'
    BY <1>0, <1>7 DEF GuardReuse, ExistingApproval, BasisInTime, UsableInTime, AskedHidden, Visible, TypeOK
  <2>6. NoActionWithoutReview'
    BY <1>0, <1>7 DEF GuardReuse, ExistingApproval, NoActionWithoutReview, BasisInTime, UsableInTime, AskedHidden, Visible, Acted, TypeOK
  <2> QED
    BY <2>1, <2>2, <2>3, <2>4, <2>5, <2>6 DEF ApprovalInv
<1>8. ASSUME NEW g \in Runs, GuardFull(g)
      PROVE  ApprovalInv'
  <2>1. TypeOK'
    BY <1>0, <1>8 DEF GuardFull, TypeOK, Statuses
  <2>2. UsableInTime'
    BY <1>0, <1>8 DEF GuardFull, UsableInTime, Visible, TypeOK, Statuses
  <2>3. ReviewedVisible'
    BY <1>0, <1>8 DEF GuardFull, ReviewedVisible, Visible, TypeOK, Statuses
  <2>4. AskedHidden'
    BY <1>0, <1>8 DEF GuardFull, AskedHidden, ReviewedVisible, Visible, TypeOK, Statuses
  <2>5. BasisInTime'
    BY <1>0, <1>8 DEF GuardFull, BasisInTime, UsableInTime, AskedHidden, Visible, TypeOK
  <2>6. NoActionWithoutReview'
    BY <1>0, <1>8 DEF GuardFull, NoActionWithoutReview, BasisInTime, UsableInTime, AskedHidden, Visible, Acted, TypeOK
  <2> QED
    BY <2>1, <2>2, <2>3, <2>4, <2>5, <2>6 DEF ApprovalInv
<1>9. ASSUME NEW g \in Runs, GuardRefuse(g)
      PROVE  ApprovalInv'
  <2>1. TypeOK'
    BY <1>0, <1>9 DEF GuardRefuse, TypeOK, Statuses
  <2>2. UsableInTime'
    BY <1>0, <1>9 DEF GuardRefuse, UsableInTime, Visible, TypeOK, Statuses
  <2>3. ReviewedVisible'
    BY <1>0, <1>9 DEF GuardRefuse, ReviewedVisible, Visible, TypeOK, Statuses
  <2>4. AskedHidden'
    BY <1>0, <1>9 DEF GuardRefuse, AskedHidden, ReviewedVisible, Visible, TypeOK, Statuses
  <2>5. BasisInTime'
    BY <1>0, <1>9 DEF GuardRefuse, BasisInTime, UsableInTime, AskedHidden, Visible, TypeOK
  <2>6. NoActionWithoutReview'
    BY <1>0, <1>9 DEF GuardRefuse, NoActionWithoutReview, BasisInTime, UsableInTime, AskedHidden, Visible, Acted, TypeOK
  <2> QED
    BY <2>1, <2>2, <2>3, <2>4, <2>5, <2>6 DEF ApprovalInv
<1>10. ASSUME NEW g \in Runs, NEW r \in Requests, GuardAsk(g, r)
      PROVE  ApprovalInv'
  <2>0. /\ \A q \in Requests : q # r => status'[q] = status[q] /\ about'[q] = about[q]
        /\ status[r] = "none" /\ status' \in [Requests -> Statuses]
    BY <1>0, <1>10 DEF GuardAsk, TypeOK, Statuses
  <2>1. TypeOK'
    BY <2>0, <1>0, <1>10 DEF GuardAsk, TypeOK, Statuses
  <2>2. UsableInTime'
    BY <2>0, <1>0, <1>10 DEF GuardAsk, UsableInTime, Visible, TypeOK, Statuses
  <2>3. ReviewedVisible'
    BY <2>0, <1>0, <1>10 DEF GuardAsk, ReviewedVisible, Visible, TypeOK, Statuses
  <2>4. AskedHidden'
    BY <2>0, <1>0, <1>10 DEF GuardAsk, AskedHidden, ReviewedVisible, Visible, TypeOK, Statuses
  <2>5. BasisInTime'
    BY <2>0, <1>0, <1>10 DEF GuardAsk, BasisInTime, UsableInTime, AskedHidden, Visible, TypeOK
  <2>6. NoActionWithoutReview'
    BY <2>0, <1>0, <1>10 DEF GuardAsk, NoActionWithoutReview, BasisInTime, UsableInTime, AskedHidden, Visible, Acted, TypeOK
  <2> QED
    BY <2>1, <2>2, <2>3, <2>4, <2>5, <2>6 DEF ApprovalInv
<1>11. ASSUME NEW g \in Runs, RunCommit(g)
      PROVE  ApprovalInv'
  <2>1. TypeOK'
    BY <1>0, <1>11 DEF RunCommit, TypeOK, Statuses
  <2>2. UsableInTime'
    BY <1>0, <1>11 DEF RunCommit, UsableInTime, Visible, TypeOK, Statuses
  <2>3. ReviewedVisible'
    BY <1>0, <1>11 DEF RunCommit, ReviewedVisible, Visible, TypeOK, Statuses
  <2>4. AskedHidden'
    BY <1>0, <1>11 DEF RunCommit, AskedHidden, ReviewedVisible, Visible, TypeOK, Statuses
  <2>5. BasisInTime'
    BY <1>0, <1>11 DEF RunCommit, BasisInTime, UsableInTime, AskedHidden, Visible, TypeOK
  <2>6. NoActionWithoutReview'
    BY <1>0, <1>11 DEF RunCommit, NoActionWithoutReview, BasisInTime, UsableInTime, AskedHidden, Visible, Acted, TypeOK
  <2> QED
    BY <2>1, <2>2, <2>3, <2>4, <2>5, <2>6 DEF ApprovalInv
<1>12. ASSUME NEW g \in Runs, RunCrash(g)
      PROVE  ApprovalInv'
  <2>1. TypeOK'
    BY <1>0, <1>12 DEF RunCrash, TypeOK, Statuses
  <2>2. UsableInTime'
    BY <1>0, <1>12 DEF RunCrash, UsableInTime, AskedHidden, Visible, TypeOK, Statuses
  <2>3. ReviewedVisible'
    BY <1>0, <1>12 DEF RunCrash, ReviewedVisible, AskedHidden, Visible, TypeOK, Statuses
  <2>4. AskedHidden'
    BY <1>0, <1>12 DEF RunCrash, AskedHidden, ReviewedVisible, Visible, TypeOK, Statuses
  <2>5. BasisInTime'
    BY <1>0, <1>12 DEF RunCrash, BasisInTime, UsableInTime, AskedHidden, Visible, TypeOK
  <2>6. NoActionWithoutReview'
    BY <1>0, <1>12 DEF RunCrash, NoActionWithoutReview, BasisInTime, UsableInTime, AskedHidden, Visible, Acted, TypeOK
  <2> QED
    BY <2>1, <2>2, <2>3, <2>4, <2>5, <2>6 DEF ApprovalInv
<1>13. CASE UNCHANGED vars
  BY <1>0, <1>13 DEF vars, ApprovalInv, TypeOK, UsableInTime, ReviewedVisible, AskedHidden,
     BasisInTime, NoActionWithoutReview, Visible, Acted
<1> QED
  BY <1>1, <1>2, <1>3, <1>4, <1>5, <1>6, <1>7, <1>8, <1>9, <1>10, <1>11, <1>12, <1>13 DEF Next, Review, Guard

\* Whatever interleaving of reviews, expiry, runs and crashes: an action of an
\* agent without full autonomy rests on a request about that action which was
\* approved before it expired.
THEOREM ActionsAreReviewed == Spec => []NoActionWithoutReview
<1>1. Init => ApprovalInv
  BY ApprovalsAssumption
     DEF Init, ApprovalInv, TypeOK, UsableInTime, ReviewedVisible, AskedHidden, BasisInTime,
         NoActionWithoutReview, Visible, Acted, Statuses
<1>2. ApprovalInv /\ [Next]_vars => ApprovalInv'
  BY ApprovalStep
<1>3. ApprovalInv => NoActionWithoutReview
  BY DEF ApprovalInv
<1> QED
  BY <1>1, <1>2, <1>3, PTL DEF Spec
================================================================================
