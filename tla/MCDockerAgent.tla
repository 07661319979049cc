--------------------------- MODULE MCDockerAgent ---------------------------
(* Small instances of DockerAgent for TLC.                                    *)
EXTENDS DockerAgent

CONSTANTS r1, p1, s1, d1, x1

None == {}
OneRunner == {r1}
OnePreparer == {p1}
OneStopper == {s1}
OneRemover == {d1}
OneDestroyer == {x1}

OtherError == {"other"}

=============================================================================
