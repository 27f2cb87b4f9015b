----------------------------- MODULE MCTransport -----------------------------
(* Transport for TLC, with the time constants of the source. *)
EXTENDS Transport

MCSecond == 32
MCBudget == 600 * MCSecond

(* At once, a second, and the socket timeout. *)
MCLatencies == {0, MCSecond, 120 * MCSecond}

(* No usable header, no wait, a long wait, and one beyond the budget. *)
MCRetryAfters == {NoDelay, 0, 60 * MCSecond, 700 * MCSecond}
=============================================================================
