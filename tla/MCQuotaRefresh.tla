--------------------------- MODULE MCQuotaRefresh ---------------------------
(* Model checking of QuotaRefresh. The constants are in the cfg files: two *)
(* credentials, so that a list can fail half-way, two handlers at once and *)
(* a single token, so that dispatchers wait for it.                        *)
EXTENDS QuotaRefresh
=============================================================================
