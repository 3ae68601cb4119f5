----------------------------- MODULE CostLedger -----------------------------
(***************************************************************************)
(* The cost ledger's per-request rows (CostLedger in                       *)
(* backend/src/llm_routing/ledger.py): at most MaxTracked of them, the one *)
(* written longest ago given up first.  Prices and token counts follow the *)
(* calls; the process totals and the tier shares are sums of them.         *)
(***************************************************************************)
EXTENDS Naturals, Sequences

CONSTANTS
    Callers,        \* request ids
    MaxTracked      \* MAX_TRACKED_REQUESTS

Usages == [calls : Nat, hits : Nat]
NoUsage == [calls |-> 0, hits |-> 0]
Ledgers == Seq([caller : Callers, usage : Usages])

\* The position of a caller's row; a ledger holds one at most (it is a dict).
Position(ledger, caller) == CHOOSE i \in DOMAIN ledger : ledger[i].caller = caller
Tracked(ledger, caller) == \E i \in DOMAIN ledger : ledger[i].caller = caller

\* summary: the usage of a request, zero when its row is not (or no longer) kept.
Usage(ledger, caller) ==
    IF Tracked(ledger, caller) THEN ledger[Position(ledger, caller)].usage ELSE NoUsage

\* The other rows, in their order.
Rest(ledger, caller) ==
    IF Tracked(ledger, caller)
    THEN [j \in 1..(Len(ledger) - 1) |->
             IF j < Position(ledger, caller) THEN ledger[j] ELSE ledger[j + 1]]
    ELSE ledger

\* Mutant of Bounded: an eviction one row early.
MutBounded(ledger) == IF Len(ledger) >= MaxTracked THEN Tail(ledger) ELSE ledger

\* popitem(last=False) until the bound holds again; a write adds one row at most.
Bounded(ledger) == IF Len(ledger) > MaxTracked THEN Tail(ledger) ELSE ledger

\* record_call and record_cache_hit: the caller's row is created or moved to the
\* end of the order, then its counters grow.
Write(ledger, caller, usage) ==
    Bounded(Append(Rest(ledger, caller), [caller |-> caller, usage |-> usage]))

Plus(usage, calls, hits) == [calls |-> usage.calls + calls, hits |-> usage.hits + hits]

RecordCall(ledger, caller) == Write(ledger, caller, Plus(Usage(ledger, caller), 1, 0))
RecordCacheHit(ledger, caller) == Write(ledger, caller, Plus(Usage(ledger, caller), 0, 1))
=============================================================================
