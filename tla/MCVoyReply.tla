------------------------------ MODULE MCVoyReply ------------------------------
(***************************************************************************)
(* URIs for TLC: the root, files of a text and of a binary type, a type    *)
(* with two entries, no extension, an unknown one and two dots. Of the     *)
(* sizes 13 is the last that one send() takes and 15 the last that fits an *)
(* int; 16, 32 and 45 become -16, 0 and 13.                                *)
(***************************************************************************)
EXTENDS VoyReply

MCUris == {
  <<"/">>,
  <<"/", "page", ".", "html">>,
  <<"/", "image", ".", "png">>,
  <<"/", "film", ".", "mp4">>,
  <<"/", "page">>,
  <<"/", "page", ".", "old", ".", "html">>,
  <<"dir", "/", "page", ".", "html">>}

MCContentTypes == <<
  [ext |-> <<"html">>, type |-> "text/html", binary |-> FALSE],
  [ext |-> <<"png">>, type |-> "image/png", binary |-> TRUE],
  [ext |-> <<"mp4">>, type |-> "audio/mp4", binary |-> TRUE],
  [ext |-> <<"mp4">>, type |-> "video/mp4", binary |-> TRUE]>>

MCWidth ==
  [k \in Keys |-> CASE k = "Server" -> 16 [] k = "Connection" -> 15 [] OTHER -> 21]

MCWording == [c \in StatusCodes |-> CASE c = 200 -> 2 [] c = 404 -> 9 [] OTHER -> 12]
===============================================================================
