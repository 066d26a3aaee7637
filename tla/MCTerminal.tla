----------------------------- MODULE MCTerminal -----------------------------
(* Instances of Terminal for TLC.                                          *)
EXTENDS Terminal

\* Started from an interactive shell, or from one that ignores SIGHUP (nohup).
Plain == [s \in Caught |-> "default"]
MCShells == {Plain, [Plain EXCEPT !["SIGHUP"] = "ignored"]}
=============================================================================
