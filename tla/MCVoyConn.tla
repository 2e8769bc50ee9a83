------------------------------- MODULE MCVoyConn -------------------------------
(***************************************************************************)
(* Streams for TLC: a GET; POSTs whose body is read, holds an LF CR and a  *)
(* NUL, or is never found; a body that starts with an alphanumeric byte    *)
(* (which the header parser takes for a header line) or not (which it adds *)
(* to the line before); lengths of two digits, that wrap, or are negative; *)
(* a method and a header line that do not fit their buffers; no URI.       *)
(***************************************************************************)
EXTENDS VoyConn

Post == <<"POST", SP, "/", CR, LF>>
End  == <<CR, LF>>

MCStreams == {
  <<"GET", SP, "/", CR, LF, "Host", CR, LF, CR, LF>>,
  Post \o <<"Host", CR, LF, CL, "2">> \o End \o End \o <<"b1", "b2">>,
  Post \o <<CL, SP, "1", "0">> \o End \o End \o <<"x", LF, CR, "b1", NUL, "b2">>,
  Post \o <<CL, "-", "1">> \o End \o End \o <<CR, LF, "x">>,
  Post \o <<CL, "2", "5", "5">> \o End \o End \o <<"b1">>,
  Post \o <<"Host">> \o End \o End \o <<"b1">>,
  Post \o <<"Host", "x", "x", "x", "x", "x">> \o End \o End,
  <<"x", "x", "x", "x">> \o Post,
  <<"GET", CR, LF, CR, LF>>}
===============================================================================
