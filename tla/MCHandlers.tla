----------------------------- MODULE MCHandlers -----------------------------
(***************************************************************************)
(* An instance of Handlers: the pages of the repository's forms, the       *)
(* script database.py, and a few files.                                    *)
(***************************************************************************)
EXTENDS Handlers

CONSTANTS t1, t2, c1, c2

\* Statements with every character that a form encodes.
Select == <<"select", " ", "x", "+", "y", "=", "1">>
Insert == <<"insert", " ", "%", "&", "=", "2">>
Wrong  == <<"wrong">>

MCQueries == {Select}
MCUpdates == {Insert}

MCScripts ==
  [s \in {<<"database">>, <<"count">>} |->
     IF s = <<"database">> THEN "database" ELSE "number"]

-----------------------------------------------------------------------------
None == [handler |-> "", uri |-> <<>>, body |-> <<>>, form |-> <<>>,
         prefix |-> <<>>, names |-> NotSent]

WithForm(r, form) == [r EXCEPT !.form = form, !.body = FormBodyOf(form)]
One(name, value) == <<[name |-> <<name>>, value |-> value]>>

Db == [None EXCEPT !.handler = "db", !.uri = <<"/", "db">>]

DbRequests ==
  {WithForm(Db, One("query", Select)), WithForm(Db, One("update", Insert)),
   WithForm(Db, One("query", Wrong)), WithForm(Db, One("query", Insert)),
   WithForm(Db, One("table", Wrong)),
   Db, [Db EXCEPT !.body = <<"query", "=", "%?">>]}

Python(uri) == [None EXCEPT !.handler = "python", !.uri = uri]
Database == Python(<<"/", "python-bin", "/", "database", ".", "py">>)

PythonRequests ==
  {WithForm(Database, One("x", Wrong) \o One("query", Select)),
   WithForm(Database, One("query", Insert)),
   WithForm(Database, One("query", Wrong)),
   WithForm(Database, One("x", Wrong)),
   WithForm(Python(<<"/", "python-bin", "/", "a", ".", "b", "/", "database">>), One("query", Select)),
   WithForm(Python(<<"/", "python-bin", "/", "database">>), One("query", Select)),
   WithForm(Python(<<"/", "python-bin", "/", "other", "%2E", "py">>), One("query", Select)),
   WithForm(Python(<<"/", "python-bin", "/", "count", ".", "py">>), One("query", Select)),
   [Database EXCEPT !.body = <<"=", "x">>], Python(<<"/", "python-bin", "/", "%?">>)}

-----------------------------------------------------------------------------
MCRoot == <<<<"root">>>>

\* What is under the root by these names, and what the last of them says it is.
File(names, type, rendered, is_image) ==
  [path |-> MCRoot \o names, type |-> type, rendered |-> rendered, is_image |-> is_image]

Sub == <<"d", ".", "e">>

Index == File(<<<<"index", ".", "html">>>>, "text/html", FALSE, FALSE)
Notes == File(<<Sub, <<"notes">>>>, "text/plain", FALSE, FALSE)
Doc   == File(<<<<"server", ".", "feature", ".", "md">>>>, "text/html", TRUE, FALSE)
Photo == File(<<Sub, <<"photo", ".", "jpeg">>>>, "image/jpeg", FALSE, TRUE)
Nothing == File(<<<<"none">>>>, "text/plain", FALSE, FALSE)
Dir   == File(<<Sub>>, "text/plain", FALSE, FALSE)
TooLong == File(<<<<"long">>, <<"notes">>>>, "text/plain", FALSE, FALSE)

\* The file system resolves these.
Here  == File(<<<<".">>, <<"index", ".", "html">>>>, "text/html", FALSE, FALSE)
Back  == File(<<Sub, <<".", ".">>, <<"index", ".", "html">>>>, "text/html", FALSE, FALSE)
Cut   == File(<<<<"index", ".", "html", "nul">>>>, "text/plain", FALSE, FALSE)

MCFiles == {Index.path, Notes.path, Doc.path, Photo.path}
MCDirectories == {<<>>, MCRoot, Dir.path}
MCRefused == {MCRoot \o <<<<"long">>>>}

Get(prefix, rest, file) ==
  [None EXCEPT !.handler = "file", !.prefix = prefix, !.uri = prefix \o rest,
               !.names = file]

Static == <<"/", "static">>

FileRequests ==
  {Get(Static, <<>>, Index), Get(Static, <<"/">>, Index),
   Get(<<"/">>, <<"index", ".", "html">>, Index),
   Get(Static, <<"/", "d", ".", "e", "%2F", "notes">>, Notes),
   Get(<<"/">>, <<"server", ".", "feature", "%2E", "md">>, Doc),
   Get(Static, <<"/", "/", "d", ".", "e", "/", "/", "photo", ".", "jpeg">>, Photo),
   Get(Static, <<"/", "none">>, Nothing), Get(Static, <<"/", "d", ".", "e">>, Dir),
   Get(Static, <<"/", "%?">>, Nothing),
   Get(Static, <<"/", "long", "/", "notes">>, TooLong),
   Get(Static, <<"/", ".", "/", "index", ".", "html">>, Here),
   Get(Static, <<"/", "d", ".", "e", "/", ".", "%2E", "/", "index", ".", "html">>, Back),
   Get(Static, <<"/", "index", ".", "html", "%00">>, Cut),
   Get(<<"/", "%20">>, <<>>, Index)}

\* Neither threads nor sessions differ in anything.
Symmetry == Permutations(Threads) \cup Permutations(Connections)

MCRequests == DbRequests \cup PythonRequests \cup FileRequests
=============================================================================
