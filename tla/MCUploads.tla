------------------------------ MODULE MCUploads ------------------------------
(* A batch of three attachments, the first of two parts, uploaded two at a
time, with the cleanup of the SDK; and a Library operation, a poll and a post of
the lifecycle that meet in one connection and its cleanup. *)
EXTENDS Uploads

CONSTANTS batch, create, wait, heartbeat

MCCalls == {create}
MCPolls == {wait}
MCPosts == {heartbeat}
MCGroups == {{batch, Closer}, {create, wait, heartbeat, Closer}}
MCSizes == <<2, 1, 1>>
=============================================================================
