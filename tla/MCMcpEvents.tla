---------------------------- MODULE MCMcpEvents ----------------------------
(* Channels of one or two messages, so that every receiver can lag, and one
   filter more than the acks' channel holds.  Errors, none, and errors again,
   so that a clear can be late. *)
EXTENDS McpEvents

MCClear == {1}
MCFilters == {{"error_update"}, {"file_change", "unknown"}}
=============================================================================
