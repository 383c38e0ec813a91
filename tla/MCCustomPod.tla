---------------------------- MODULE MCCustomPod ----------------------------
(* A pod of two invitees, and lists that normalizeInvites turns down.      *)
EXTENDS CustomPod

CONSTANTS c, a1, a2

MCInviteLists == {<<a2, a1>>, <<a1, a1>>, <<a2, c>>}
=============================================================================
