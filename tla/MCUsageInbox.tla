---------------------------- MODULE MCUsageInbox ----------------------------
(* Model checking of UsageInbox. The small constants are in the cfg files: *)
(* three rows and batches of two, so that a row waits behind a batch full  *)
(* of rows that fail, two attempts, a clock that lets both deletes fire,   *)
(* and one kill.                                                           *)
EXTENDS UsageInbox

(* batches that are blocked as a whole, in part and not at all, each in    *)
(* front of a row of another kind                                          *)
MCPayloads == {
    <<"unknown", "unknown", "known">>,
    <<"unknown", "known", "bad">>,
    <<"bad", "known", "unknown">>,
    <<"known", "known", "unknown">>}
=============================================================================
