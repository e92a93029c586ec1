----------------------------- MODULE MCOnceBox -----------------------------
(* Three threads, so that one wins the race, one loses it and one comes     *)
(* later; two closures' values; and one address more than there are         *)
(* threads, so that every thread can build a box while one is stored.       *)
EXTENDS OnceBox
=============================================================================
