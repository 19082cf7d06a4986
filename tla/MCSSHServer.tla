----------------------------- MODULE MCSSHServer ----------------------------
(* Two connections with one slot between them, and up to two channels.      *)
(* One connection takes one channel.  Every type of channel and of request. *)
EXTENDS SSHServer, TLC

CONSTANTS k1, k2

Session(r) == [type |-> "session", reqs |-> r]
Exec == Session(<<"exec">>)
Terminal == Session(<<"pty", "exec">>)
Agent == Session(<<"agent", "exec">>)
Idle == Session(<<"other">>)
SetTime == Session(<<"settime">>)
TCPIP == [type |-> "tcpip", reqs |-> <<>>]
X11 == [type |-> "x11", reqs |-> <<>>]
Never == [type |-> "never", reqs |-> <<>>]

Setup(r, s, t) == [reaper |-> r, chan |-> k1 :> s @@ k2 :> t]

MCSetups ==
  {Setup(FALSE, s, Never) : s \in {Exec, Terminal, Agent, Idle, SetTime, X11}}
    \cup {Setup(TRUE, Exec, Never), Setup(FALSE, Idle, TCPIP)}
=============================================================================
