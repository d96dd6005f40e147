---------------------------- MODULE MCHttpClient ----------------------------
(* Instances of HttpClient for TLC. *)
EXTENDS HttpClient

\* The servers of two sessions: every kind next to one that answers, and one
\* that breaks next to one that hangs.
MCServers == <<{"answer", "break"}, {"answer", "hang"}>>
=============================================================================
