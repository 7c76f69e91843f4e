--------------------------- MODULE MCFirmwareUpdate ---------------------------
(* Small instances of FirmwareUpdate for TLC. *)
EXTENDS FirmwareUpdate, TLC

CONSTANTS t1, t2, u1, i1

TwoTasks == {t1, t2}
OneUrl == {u1}
OneImage == {i1}
NegativeError == {-1}
BothErrors == {-1, 0}
TaskSymmetry == Permutations(Tasks)

AllFaults == {"side", "ipc", "reopen", "prepare", "popen"}
FaultsButReopen == AllFaults \ {"reopen"}
=============================================================================
