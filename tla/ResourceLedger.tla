--------------------------- MODULE ResourceLedger ---------------------------
(***************************************************************************)
(* What one IMB session promises its client about resources and fences,    *)
(* without saying how: the lifecycle of docs/architecture.md section 7 as  *)
(* a client relies on it.                                                  *)
(*                                                                         *)
(*   - an ID is issued once and is never issued again;                     *)
(*   - a resource that a pending command named cannot be destroyed;        *)
(*   - a fence is retired only after the GPU finished its command;         *)
(*   - closing the session releases everything it owned.                   *)
(*                                                                         *)
(* BridgeSession implements this module (LedgerSpec there).                *)
(***************************************************************************)
EXTENDS Naturals, Tables

VARIABLES
    open,       \* the session still answers requests
    live,       \* IDs of the resources the client may use
    issued,     \* how many resource IDs have been issued: 1..issued
    pending,    \* fence -> the resources its command named, until the fence is retired
    fenced,     \* how many fence IDs have been issued: 1..fenced
    finished    \* fences whose command the GPU has finished, for better or worse

ledgerVars == <<open, live, issued, pending, fenced, finished>>

LedgerInit ==
    /\ open = TRUE
    /\ live = {}
    /\ issued = 0
    /\ pending = EmptyTable
    /\ fenced = 0
    /\ finished = {}

Free(r) == \A f \in DOMAIN pending : r \notin pending[f]

Create ==
    /\ open
    /\ issued' = issued + 1
    /\ live' = live \cup {issued + 1}
    /\ UNCHANGED <<open, pending, fenced, finished>>

Destroy(r) ==
    /\ open
    /\ Free(r)
    /\ live' = live \ {r}
    /\ UNCHANGED <<open, issued, pending, fenced, finished>>

Submit(rs) ==
    /\ open
    /\ fenced' = fenced + 1
    /\ pending' = Put(pending, fenced + 1, rs)
    /\ UNCHANGED <<open, live, issued, finished>>

Finish(f) ==
    /\ f \notin finished
    /\ finished' = finished \cup {f}
    /\ UNCHANGED <<open, live, issued, pending, fenced>>

Retire(f) ==
    /\ open
    /\ f \in finished
    /\ pending' = Drop(pending, f)
    /\ UNCHANGED <<open, live, issued, fenced, finished>>

Close ==
    /\ open
    /\ open' = FALSE
    /\ live' = {}
    /\ pending' = EmptyTable
    /\ UNCHANGED <<issued, fenced, finished>>

LedgerNext ==
    \/ Create
    \/ \E r \in live : Destroy(r)
    \/ \E rs \in SUBSET live : Submit(rs)
    \/ \E f \in 1..fenced : Finish(f)
    \/ \E f \in DOMAIN pending : Retire(f)
    \/ Close

LedgerSpec == LedgerInit /\ [][LedgerNext]_ledgerVars

=============================================================================
