------------------------------- MODULE MCVoyConf -------------------------------
(***************************************************************************)
(* Files for TLC: every order of up to four of eight lines, alone and in a *)
(* virtual host, among them a value that reads like a vhost line, a bracket*)
(* with a comment and a page option that fails; every order of up to three *)
(* of six more, with a comment that is longer than the buffer, and a last  *)
(* line that does not end; two files that repeat a name.                   *)
(***************************************************************************)
EXTENDS VoyConf

MCLines == {
  <<"vhost", "_", "{", "_">>,
  <<"}", "_", "#", "vhost", "_">>,
  <<"root", "_", "=", "_", "www", "_">>,
  <<"root", "=", "x", "#", "=", "_">>,
  <<"user", "=", "vhost", "_">>,
  <<"name", "=", "here", ",", "_", "there", "_">>,
  <<"error_page", "404", "=", "file", "_">>,
  <<"error_page", "-1", "=", "file", "_">>}

MCOthers == {
  <<"#", "_", "_", "_", "_", "_", "_", "_", "error_log", "=", "old", "_">>,
  <<"error_log", "=", "new", "_">>,
  <<"index", "=", "x", ",", "y", ",", "_">>,
  <<"port", "=", "80", ",", "_", "80", "x", "_">>,
  <<"_", "vhost", "_", "_", "_", "_", "_", "_", "}", "_">>,
  <<"group", "=", "=", "_">>}

MCLasts == {<<"error_page", "=">>, <<"error_page", "=", "x">>, <<"root", "=">>}

MCFiles ==
  LET some == BoundedSeq(MCLines, 4)
      more == BoundedSeq(MCOthers, 3)
  IN  some \cup {<<<<"vhost", "_">>, <<"{", "_">>>> \o f \o <<<<"}", "_">>>> : f \in some}
           \cup more \cup {Append(f, l) : f \in more, l \in MCLasts}

MCNames == {<<<<"#", "=", "_">>, <<"name", "=", "here", ",", w, "here", "_">>>> : w \in {"_", ","}}

MCNumber == [w \in {"404", "-1", "80"} |-> CASE w = "404" -> 404 [] w = "-1" -> -1 [] OTHER -> 80]
===============================================================================
