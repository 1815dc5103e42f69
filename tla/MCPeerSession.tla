---------------------------- MODULE MCPeerSession ----------------------------
(* TLC instances of PeerSession: the calls of each run.                      *)
EXTENDS PeerSession

CONSTANTS a, b, f, g, h

MCRequests == [code : RequestCodes, file : Files, ref : Ids \cup {NoRef}, last : BOOLEAN]

Does(p, name, file, n) == [by |-> p, call |-> name, file |-> file, nth |-> n]

\* One peer fetches, sends and lists, and asks for what the other does not have.
OneSided == {Does(a, "receive_file", f, 1), Does(a, "send_file", f, 1), Does(a, "list_files", f, 1),
             Does(a, "receive_file", h, 1), Does(a, "list_files", h, 1)}

\* Each peer fetches from the other, one of them two files.
BothFetch == {Does(a, "receive_file", f, 1), Does(a, "receive_file", g, 1), Does(b, "receive_file", g, 1)}

\* One peer sends while the other fetches another file and lists.
SendAndFetch == {Does(a, "send_file", f, 1), Does(b, "receive_file", g, 1), Does(b, "list_files", f, 1)}

Ordinary == {OneSided, BothFetch, SendAndFetch}
=============================================================================
