----------------------------- MODULE MCPipeline -----------------------------
(* Small pipelines for TLC.  Whichever command comes first, it has no pipe to
   read, so that one that produces and two that wait stand for all. *)
EXTENDS Pipeline

Cmd(p, r) == [prog |-> p, redir |-> r]
Plain(ps) == {p \in [Cmds -> {Cmd(q, "none") : q \in ps}] : p[0].prog \notin {"copy", "first"}}

\* commands that produce, pass on, drop or wait, without redirections
PlainPlans == Plain({"emit", "copy", "first", "sleep", "trap"})

\* data flows, but one command has a redirection, which may fail
RedirectedPlans ==
    {[p EXCEPT ![n].redir = r] : p \in Plain({"emit", "copy"}), n \in Cmds, r \in Redirects \ {"none"}}

AllPlans == PlainPlans \cup RedirectedPlans
=============================================================================
