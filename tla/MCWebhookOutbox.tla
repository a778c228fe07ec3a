---------------------------- MODULE MCWebhookOutbox ----------------------------
(* Small instances of WebhookOutbox. *)
EXTENDS WebhookOutbox, TLC

CONSTANTS h1, h2, s1, s2, r1, r2, r3

Symmetry == Permutations(Hubs) \union Permutations(Rows)
===============================================================================
