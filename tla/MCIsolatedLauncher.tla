------------------------- MODULE MCIsolatedLauncher -------------------------
(* One or two launchers of a copy with one executable.                      *)
EXTENDS IsolatedLauncher, TLC

CONSTANTS launcher1, launcher2, domain, private, client

Two == {launcher1, launcher2}
One == {launcher1}
MCProfiles == {domain, private}
MCExecutables == {client}
=============================================================================
