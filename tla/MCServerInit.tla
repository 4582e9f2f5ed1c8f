---------------------------- MODULE MCServerInit ----------------------------
(***************************************************************************)
(* An instance of ServerInit: files of a few pieces, statements whole and  *)
(* broken, blocks opened and closed in any order.                          *)
(***************************************************************************)
EXTENDS ServerInit

Path(p, h) == <<"path", " ", p, " ", h>>
Ended(f) == f \o <<";">>
WithBody(f, body) == f \o <<" ", "{">> \o body \o <<"}">>

RootStatement == <<"root", " ", "/r", ";">>
FuncStatement == <<"func", " ", "f", ";">>
HostPort == <<"host", " ", "h", ";", "port", " ", "80", ";">>

FileFragments ==
  {<<"server", " ", "{">>, <<"}">>, <<"}", "}">>, <<"{">>, <<";">>, <<"x">>, <<"'">>, <<"#">>, <<"\n">>,
   Ended(Path("/a", "EchoHandler")),
   WithBody(Path("/a", "StaticHandler"), RootStatement),
   WithBody(Path("/b", "ProxyHandler"), HostPort),
   WithBody(Path("/b", "PythonHandler"), RootStatement \o FuncStatement),
   WithBody(Path("/e", "PythonHandler"), RootStatement),
   Path("/c", "StatusHandler"),
   Ended(Path("/DbHandler", "StatusHandler")),
   Ended(Path("/", "Unknown")), Ended(Path("/d/", "EchoHandler")),
   <<"port", " ", "80", ";">>, <<"port", " ", "70000", ";">>, <<"port", " ", "99999999999", ";">>,
   <<"port", " ", "80", "\r", ";">>,
   <<"thread", " ", "2", " ", "#">>, <<"thread", "\n", "0", ";">>}

Numerals == [n \in {"0", "2", "80", "70000"} |->
               CASE n = "0" -> 0 [] n = "2" -> 2 [] n = "80" -> 80 [] n = "70000" -> 70000]
=============================================================================
