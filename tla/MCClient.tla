------------------------------ MODULE MCClient ------------------------------
(* A small instance of Client for TLC: the parts that share state, in pairs. *)
EXTENDS Client, TLC

Focus(parts, n) == [uses |-> parts, gestures |-> n]

MCFocuses == {Focus({"session"}, 5), Focus({"chat"}, 4), Focus({"session", "chat"}, 3),
              Focus({"session", "library"}, 4), Focus({"chat", "attach", "library"}, 3),
              Focus({"attach", "bell"}, 4)}
=============================================================================
