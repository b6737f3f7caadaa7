--------------------------- MODULE UncalledHelpers ---------------------------
(* The two parts of pkg/resolver and pkg/models that no handler calls in this *)
(* version, side by side over one handle: a call that falls back to a source  *)
(* component, and goroutines that ask for country names, while the file is    *)
(* reloaded and queries fail under both.                                      *)
EXTENDS SourceFallback, CountryCache

vars == <<fallback, cache, handle>>

Init == FallbackInit /\ CacheInit /\ Opened

CacheMoves(p) == CacheStep(p) /\ UNCHANGED fallback

FallbackMoves == FallbackStep /\ UNCHANGED cache

Next ==
    \/ FallbackMoves
    \/ \E p \in Callers :
          CacheMoves(p) \/ \E i \in Ids : GetCountryByID(p, i) /\ UNCHANGED fallback
    \/ Reload /\ UNCHANGED <<fallback, cache>>

(* Goroutines run and queries answer or fail; nobody has to call or reload.  *)
Spec ==
    /\ Init /\ [][Next]_vars
    /\ WF_vars(FallbackMoves)
    /\ \A p \in Callers : WF_vars(CacheMoves(p))

-----------------------------------------------------------------------------
TypeOK == FallbackTypeOK /\ CacheTypeOK /\ HandleTypeOK

(* Every call of either returns.                                             *)
HelpersReturn ==
    /\ <>(at = "returned")
    /\ \A p \in Callers : []<>(where[p] \in {"idle", "returned"})
=============================================================================
