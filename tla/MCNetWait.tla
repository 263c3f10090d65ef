------------------------------- MODULE MCNetWait -------------------------------
(* Waits of two ticks, slices of one or two, two DHCP attempts. *)
EXTENDS NetWait

Scenario(e, l, r) == [early |-> e, lossy |-> l, remote |-> r]

\* The quiet network, and everything at once.
QuietAndAll == { Scenario(FALSE, FALSE, FALSE), Scenario(TRUE, TRUE, TRUE) }

OnlyLossy == { Scenario(FALSE, TRUE, FALSE) }
OnlyEarly == { Scenario(TRUE, FALSE, FALSE) }
OnlyRemote == { Scenario(FALSE, FALSE, TRUE) }
================================================================================
