----------------------------- MODULE MCSession ------------------------------
(* Instances of Session for TLC. *)
EXTENDS Session

CONSTANTS c1, c2   \* worker processes

Children == {c1, c2}

(* Workers that end while others run; a line that is no command. *)
ShortScripts == {<<"work", "work", "shutdown">>, <<"wrong", "ask", "shutdown">>}
=============================================================================
