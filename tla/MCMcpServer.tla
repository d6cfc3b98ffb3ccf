---------------------------- MODULE MCMcpServer ----------------------------
\* Frames of every kind of content, at, below and above the limit.
EXTENDS McpServer

Request == [object |-> TRUE, valid |-> TRUE, id |-> 7, method |-> "tools/call",
            params |-> TRUE, tool |-> "patchwitness_capture", arguments |-> TRUE,
            fields |-> TRUE, checks |-> "true"]

Contents ==
    {Blank, Garbage, Request,
     [Request EXCEPT !.id = NoId],
     [Request EXCEPT !.valid = FALSE, !.id = NoId],
     [Request EXCEPT !.object = FALSE, !.id = NoId],
     [Request EXCEPT !.checks = "other", !.fields = FALSE],
     [Request EXCEPT !.checks = "false"],
     [Request EXCEPT !.method = "tools/list"],
     [Request EXCEPT !.method = "unknown"],
     [Request EXCEPT !.params = FALSE],
     [Request EXCEPT !.tool = ""],
     [Request EXCEPT !.tool = "patchwitness_verify", !.fields = FALSE]}

MCFrame ==
    {[size |-> 2, content |-> c] : c \in Contents}
    \cup {[size |-> n, content |-> Request] : n \in 3..5}
=============================================================================
