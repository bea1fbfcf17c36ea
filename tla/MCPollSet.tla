------------------------------ MODULE MCPollSet ------------------------------
(***************************************************************************)
(* PollSet on four descriptors: the fourth makes the array of three double.*)
(***************************************************************************)
EXTENDS PollSet

MCFds == {0, 3, 4, 5}
MCFlags == {"POLLIN", "POLLHUP"}

=============================================================================
