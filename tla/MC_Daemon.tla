------------------------------- MODULE MC_Daemon -------------------------------
(* Configurations with no unit, with one, and with more enabled entries    *)
(* than the limit, one of which has no profile.                            *)
EXTENDS Daemon

Entry(e, p) == [enabled |-> e, profile |-> p]
MCConfigs == {<<>>,
              <<Entry(FALSE, TRUE), Entry(TRUE, TRUE)>>,
              <<Entry(TRUE, TRUE), Entry(TRUE, FALSE), Entry(TRUE, TRUE)>>}
=============================================================================
