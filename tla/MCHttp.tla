------------------------------- MODULE MCHttp -------------------------------
(***************************************************************************)
(* HttpServer for TLC: the requests of the clients.                        *)
(***************************************************************************)
EXTENDS HttpServer

MCToken == {"CR", "LF", "SP", "TAB", ":", "?", "/", "GET", "POST", "health", "buildInfo",
            "x", "k"}

MCScripts == {
  <<"GET", "SP", "SP", "/", "health", "CR", "LF", "CR", "LF">>,  \* two blanks
  <<"GET", "TAB", "/", "?", "LF", ":", "LF", "k">>,  \* a header without a key
  <<"GET", "LF", "k", ":", "SP", "x", "LF", "LF">>,  \* no path
  <<"GET", "SP", "/", "buildInfo", "CR">>,   \* no empty line
  <<"POST", "CR", "CR">> }                  \* the last CR may begin a CR LF
=============================================================================
