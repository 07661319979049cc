--------------------------- MODULE MCSystemAgent ---------------------------
(* Small instances of SystemAgent for TLC.                                    *)
EXTENDS SystemAgent, TLC

CONSTANTS r1, r2, p1, s1, d1

None == {}
OneRunner == {r1}
TwoRunners == {r1, r2}
OnePreparer == {p1}
OneStopper == {s1}
OneRemover == {d1}

PullError == {"ErrPull"}
OtherError == {"other"}
TwoErrors == {"ErrPull", "ErrModel"}

\* Runners are told apart only by their calls.
RunnerSymmetry == Permutations({r1, r2})
=============================================================================
