------------------------------ MODULE MCStream ------------------------------
(***************************************************************************)
(* Small instances of Stream.                                              *)
(***************************************************************************)
EXTENDS Stream

Frame(kind) == <<FrameHead(kind), FrameTail(kind)>>

\* A usage after text, a usage without its last newline, a partial usage that is
\* repeated, an unreadable one, none at all, and nothing recognisable.
AllScripts ==
  {Line("text") \o Line("text") \o Line("usage1"),
   Line("text") \o Frame("usage1"),
   Line("usage1") \o <<Heartbeat, Newline>> \o Line("usage2"),
   Line("text") \o Line("unreadable"),
   Line("text") \o Line("text"),
   <<Heartbeat, Newline>>}
\* A completion with its usage, one that reports none, and one that fails.
AllResults ==
  {[ok |-> TRUE, text |-> 2, usage |-> "usage1"], [ok |-> TRUE, text |-> 1, usage |-> "none"],
   [ok |-> FALSE, text |-> 0, usage |-> "none"]}
=============================================================================
