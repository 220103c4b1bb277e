CONSTANTS
    a1 = a1
    a2 = a2
    a3 = a3
    c1 = c1
    c2 = c2
    Requests = {"r1"}
    Admins = {a1, a2, a3}
    Withdrawals = {"w1"}
    Makers = {a1}
    SuperAdmins = {a1, a3}
    Thresholds = {1, 2}
    Kinds = {"withdrawal_approve", "manual_credit", "global_control_action", "system_config_change"}
    Checkers <- MCCheckers
    Calls = {c1, c2}
    MaxEffects = 2
    NoWithdrawal = NoWithdrawal
    NoRequest = NoRequest
    NoAdmin = NoAdmin

SPECIFICATION Spec

SYMMETRY Symmetry

INVARIANTS
    QuorumBehindEffect
    ExecutedMeansDone
    UndisturbedRequestRunsOnce

CHECK_DEADLOCK FALSE
